# Formal verification of MPlayer for AmigaOS

TLA+ models of the concurrent and protocol-like parts of this player, and of the
long sequences of calls its play list and packet queues go through, the TLC
configurations that check them on small instances, and proofs checked by TLAPS.
The program is a C program of a few threads on a single-processor AmigaOS 4
machine; most of its ten thousand files are codecs and vendored libraries. What
these models are about is what is left: rings, windows, handshakes and queues
that several tasks, or a program and an unreliable network, work on together.

Paths are relative to `src/src/` unless they start with `src/`.

## Inventory

The configuration considered is the one the tree ships for AmigaOS: `config.h`
for `ppc-amigaos` (32-bit PowerPC, one processor, preemptive tasks in one address
space) with `CONFIG_STREAM_CACHE` and `PTHREAD_CACHE`, so that the cache filler is
a thread (`FORKED_CACHE` is 0 in `stream/cache2.c`), and the AHI driver built is
`libao2/ao_ahi_dev.c` (`ao_ahi.c` is not built).

| component | state | operations | interacts with | what is hard |
|---|---|---|---|---|
| stream cache, `stream/cache2.c` | ring `buffer`, window `min_filepos..max_filepos`, `offset`, `read_filepos`, `eof`, a `control` mailbox | `cache_stream_fill_buffer`, `cache_stream_seek_long`, `cache_do_control`; `cache_fill`, `cache_execute_control` in the filler thread | the stream driver below, demuxers above, the interrupt callback | two threads and no lock: stale positions, flush against seek, eof against the last bytes, abandoned commands |
| RTP reordering, `stream/rtp.c` | 32 slots, their sequence numbers, `first` | `read_rtp_from_server` | a UDP socket | loss, reordering, repeats, 16-bit wrap, restarting servers |
| AHI output, `libao2/ao_ahi_dev.c` | 64 KiB ring, `buffer_get/put/full`, `written_byte`, two requests and `link` | `play`, `reset`, pause/resume, init/uninit; `PlayerTask` | ahi.device, the main loop, exec signals | state touched outside the lock, data still being played, failure before the handshake |
| command queue, `input/input.c` | ring of 100 commands; key, autorepeat and bind state | `mp_input_queue_cmd`, `mp_input_get_cmd`, `mp_input_check_interrupt` | main loop, stream cache (interrupts), ARexx task, key FIFO | two tasks and no lock; peeking and then removing |
| ARexx port, `amigaos/arexx.c` | the message being executed, result string and code | one handler per ARexx command, `set_arexx_result`, `StartArexx`, `StopArexx` | command queue, main loop, exec signals | a signal rendezvous whose signals are shared and can be left over |
| key FIFO, `mp_fifo.c` | ring of 7 keys, last pressed key | `mplayer_put_key`, `mplayer_get_key` | window event handlers, `interpret_key` | a full ring must not leave a key stuck; unsigned positions that wrap |
| thread start and end, `stream/cache2.c`, `amigaos/arexx.c`, `libao2/ao_ahi_dev.c`, `libdvdcss/device.c`, `libvo/vo_comp_yuv2.c` | exec signals of the main task, `SIGF_CHILD` among them | start, break (`CTRL_C`, `CTRL_D`), wait for the end | each other, through the one `SIGF_CHILD` bit | one bit for five kinds of child |
| demuxer packet queues, `libmpdemux/demuxer.c` | a queue, a current packet, `eof` and `fill_count` per stream, reference counts | `ds_add_packet`, `ds_fill_buffer`, `demux_read_data`, `ds_get_packet`, `ds_get_next_pts`, `ds_free_packs`, `demux_seek` | demuxers, main loop, decoders, subtitles | streams that wait for one another within limits, an eof that is taken back, clones, flush on seek |
| play tree, `playtree.c` | a tree of entries, an iterator with a stack of loop counts, flags of a shuffled list | step, up step, next file; insert, append, remove, replace | main loop, slave commands, option stack | long sequences of moves, nested loops, shuffles, lists that change while they play |
| option stack, `m_config.c` | a stack of saved option values and a level | `m_config_push`, `m_config_pop`, set | play tree, command line | values restored in the right order, changes made past the stack, options that share a variable |
| UDP sync, `udp_sync.c` | time base, last position | master send, slave receive | network, main loop | lost and late datagrams, a timeout |
| main loop, `mplayer.c` | initialisation level mask, A/V timing, pause | `uninit_player(mask)`, `play_n_frames`, seek | all of the above | releasing what was initialised, on every exit path |
| stream layer, `stream/stream.c` | `stream_t`: buffer, position, eof | `stream_fill_buffer`, `stream_seek`, `stream_read` | drivers, stream cache | partial reads, sector alignment |
| the rest: `command.c`, `edl.c`, `mixer.c`, AmigaOS menus and windows, filters, outputs, codecs, demuxers, ffmpeg and other vendored libraries | | | | sequential, numerical, or third-party |

What makes each of the first components correct:

* **cache**: the player gets the medium's bytes in order; the threads never touch
  the same cells; eof is believed only at the end; no call hangs; the answer to a
  control is the answer to that control.
* **RTP**: packets come out in the order sent and at most once; what arrives within
  the window is not lost; a restarted server is followed.
* **AHI**: audio is played in order and once; the counts describe the ring; after
  reset nothing old is played; uninit leaves no task and no request behind.
* **command queue, ARexx**: each command runs once and its result goes to the
  caller that sent it; StopArexx and the handlers cannot wait for each other.
* **key FIFO**: a pressed key never stays pressed because its release was dropped.
* **play tree and option stack**: the files play in the order of the list, as often as
  their groups loop; each plays with the options of the groups around it and its own,
  and leaves nothing behind; a step comes to an answer.
* **packet queues**: every stream reaches its decoder whole and in order; a packet
  lives as long as someone has it; playback ends, and not before the streams do.
* **SIGF_CHILD**: whoever waits for a child continues when *that* child has ended.

## Plan

1. `Cache2` with `MediumReader` (its abstract specification) and `Cache2_proofs`: the
   core of the player's input. *Written.*
2. `RtpReorder`. *Written.*
3. `AhiDev`. *Written.*
4. `KeyFifo` with `KeyFifo_proofs`, `CmdQueue` with the ARexx task; `PlayTree` over
   `ConfigStack`, with `Scopes` as the abstract specification of the latter;
   `PacketQueues` with the part of main that reads it. *Written.*
5. Next: `UdpSync`; `stream_t` under the cache and under `PacketQueues`; the main
   loop's initialisation levels. Less urgent: the users of SIGF_CHILD together. Read
   side by side, each child sends it only as the answer to a request that main waits
   for at once, so that one bit is enough as long as nobody breaks that rule.
6. Proofs: every module but the abstract ones has its own (see below), and all the
   claims the passing runs make that are not about fairness are theorems, some of them
   on named conditions that leave out the cases in which the code does something else
   (below, with what TLC shows of them). *Written.* Next: the refinement of `MediumReader` outside
   playback, and shuffled groups inside a list, once it is settled what the code
   is meant to play there.

## Modules

### Cache2, MediumReader, MCCache2, Cache2_proofs: the stream cache

The reader is the player's main task inside `cache_stream_fill_buffer`,
`cache_stream_seek_long` or `cache_do_control`; the filler is the thread in
`cache_mainloop`. One action is one load or store of a shared field together
with the thread-local work up to the next, because the two threads have no
lock at all.

| code (`stream/cache2.c`) | module |
|---|---|
| `cache_init`, clamps in `stream_enable_cache` | `BufferSize`, `FillLimit`, `BackSize`, `SeekLimit`, `Prefill` |
| the wait loop of `stream_enable_cache` | `PrefillWait`, `PrefillInterrupt` |
| `cache_stream_seek_long` | `StartSeek`, `SeekClearEof` |
| `cache_read` | `TestMax`, `TestMin`, `TestEof`, `Retry`, `ReadInterrupt`, `LoadNewb`, `LoadOffset`, `Copy`, `Advance` |
| `cache_stream_fill_buffer` | `StartRead`, `Deliver` |
| `cache_do_control` | `StartControl`, `PostControl`, `ControlWait`, `ControlRetry`, `ControlAnswered`, `ControlInterrupt` |
| `cache_fill`, `cache_flush` | `LoadRead`, `StartFlush`, `FlushStore`, `FillSeek`, `BufferFull`, `PlanFill`, `FillRead`, `Publish` |
| `cache_execute_control` | `NoControl`, `Refuse`, `ExecuteControl`, `Reseat`, `Acknowledge` |
| `stream_read_internal`, `stream_reconnect` (`stream.c`) | `FillRead`, `PositionLost` |

A byte is its position in the medium, so "the right byte" is an equation between
a cell and a number. Where the C source stores several plain fields with no call
in between (`cache_flush`, the end of `cache_fill`, the end of a seek control)
the model makes the stores in any order. `LoadNewb` lets the compiler reload
`max_filepos` or use the value it tested.

Choices worth knowing: `stream_seek`'s own shortcut (target inside the 2 KiB
buffer) is the guard of `StartSeek`; `stream2` is a copy made before
`cache_pid` is set, so seeks a driver makes itself use the uncached path and are
part of `FillSeek`; a driver's seek may fail without effect (`SeekFails`, for
instance `seek_forward`, which cannot go back); a read may return nothing before the
medium's end, with `eof` set, and succeed later (`ReadFails`: a reconnect that failed,
which may leave the stream at another position, a read dvdnav has suspended); a stream may have no
control function (`HasControl`); after a control that moved the
stream some drivers clear `eof` and some do not. `control` starts as the 0 of
`cache_init`'s `memset`, for which `cache_execute_control` has no case: the filler's first
turn answers it (`Refuse`), and so does every turn when there is no control function. Two controls stand for all of
them: one that moves the stream (`SEEK_TO_CHAPTER`) and one that answers a
number (`GET_NUM_CHAPTERS`). Not modelled: `buf_pos`, the return value of a
seek, tearing of 64-bit positions on the 32-bit machine (positions below 4 GiB).

`MediumReader` is the abstract specification: what a reader of the medium sees
when no cache exists. `ReadsMedium` states that `Cache2` implements it during
playback, with `out <- got` and `ended <- spos >= FileSize`.

| run | question | result |
|---|---|---|
| `cache_play` | playback of a medium whose reads do not fail: reads, seeks ahead inside the medium, and controls refused for want of a control function (two-byte sectors, a ring of 8 cells, 13 bytes, fills of any length up to 5). Threads on disjoint cells, old bytes kept for going back, refinement of `MediumReader` (whose bytes are the medium's); `PlayInv` is the inductive invariant behind these, and what `Cache2_proofs` derives from it (copies in bounds, window, eof only after the end) follows | holds |
| `cache_control` | playback and controls nobody interrupts, of a medium whose reads may fail: an answer is the command's own or a refusal by a turn that executed nothing; bytes across the flush a control makes | holds |
| `cache_live` | backward seeks, interrupts, chapter seeks, failing seeks and failing reads: types and accounting; no call waits for ever (it returns, or runs into the copy that crashes, see below) | holds |
| `cache_late_control` | "read_filepos differs ... report this bug" (660) | violated: an interrupted seek command stays posted and moves the stream later |

Six more things the model shows, which no run claims to be otherwise:

* The reader tests the window, the filler publishes the last bytes and `eof`, and the
  reader believes `eof`: a call may come back short though its bytes are there (the
  comment at 22 says this needs no lock). On a medium whose reads do not fail the
  filler has met the end by then (`EofAfterEnd`); a read that fails shows the
  same `eof` anywhere, and the call comes back short or empty in the middle.
* `cache_read` can call `memcpy` with a negative length, which is a huge `size_t`
  (`CopyFault`, cache2.c:203-219). It tests `read_filepos` against
  `max_filepos` and loads `max_filepos` again for the length, and a flush may have stored
  a lower one in between. It takes a flush that finds the reader not waiting: the one of
  a chapter seek that was interrupted and is executed late (767); or, without any
  interrupt, one made for a seek back, when `min_filepos` is stored first, which lets the
  reader in, or when the player seeks again, into the old window. All but the last
  (which takes two seeks) are in `cache_live`, whose `NoCallHangs` counts the crash as an
  end of the call and whose `Accounting` bounds a copy's length from above only.
  `PlaybackInBounds` proves that there is none in playback.
* The first control may be refused without having been executed: it is posted while the filler's
  first turn answers the 0 that `control` starts with, and line 401 stores -1 over it.
  `AnswerIsOwn` therefore says "its own answer, or a refusal"; without the second half TLC
  finds it violated.
* With `BackwardSeeks` a seek that lands behind the position the filler has loaded,
  inside the window, can find the window's start moved past it before it copies (the
  message at 215 is about this).
* With `SeekFails` the filler ignores that the medium did not move (250) and files bytes
  of one position under another.
* With `ReadFails` and seeks ahead, the `eof` of a failed read ends the wait at the position sought, the
  player may seek on while the filler is still on its way to the first position, and
  `cache_flush` files the bytes of the first under the second (`DeliveredIsFile` violated).
  So `PlaybackOnly` admits one or the other.

The constants of `cache_play` and `cache_control` exclude the second and the last three;
turning them on gives the counterexamples.

Bounds: rings of 4 to 8 cells and files of 5 to 13 bytes are enough for the ring
to wrap (inside a sector too), to be full, and to drop old bytes; `MaxCalls`
bounds the player's seeks and controls (1 to 3) because each race can move
positions further, so that without it the state space is infinite.

Fairness: `WF(ReaderStep)` and `WF(FillerStep)`. The two threads have the same
priority and every loop of both contains a sleep or a call into the device, so
each is scheduled again and again; `FillRead` being fair says that the
medium's read returns. The player is never obliged to call.

### RtpReorder, MCRtpReorder, RtpReorder_proofs: RTP packets in order

`read_rtp_from_server` is the only entry. `held`, `seq`, `first` are
`struct rtpbuffer`, `isFirst` the static in `rtp_cache`; the four outcomes of
`rtp_cache` are `ReceiveNext`, `ReceiveOverrun`, `ReceiveUnderrun` /
`ReceiveStale`, `ReceiveEarly`; `rtp_get_next` after it has given up is
`TakeHeld`. Payloads and their lengths are abstracted to "a packet or none".
The network (`Lose`, `Arrive`) is not in the source tree: it loses up to
`MaxLost`, repeats up to `MaxDups` and reorders within `Spread`, as UDP may.
`ReceiveNothing` is a failing or short `recv`.

| run | question | result |
|---|---|---|
| `rtp_order` | loss, reordering, a repeat and a failed receive within what the ring can take, and a server that may restart with numbers far ahead or behind: order, nothing refused that is still wanted, playback resumes | holds |

Outside those limits the code does less, and `MaxLost` and `MaxDups` keep the run
inside them: a packet exactly `Max` ahead of the expected one takes the
slot of `first` (115 tests `>`), and two losses close together (*n* and *n* + 2) in a
long stream can let early packets reach that far; `Max - 3` repeats in a row use up all tries and make
it skip a packet that was not lost (181); a socket that fails for good is polled
for ever (212, 231). Across the 16-bit wrap a swapped pair is handed out in the
wrong order: `newseq` (103) is the `int` difference of two `unsigned short`, so the
later packet looks 65535 behind, resets the ring and comes out first. The
numbers of `rtp_order` do not wrap; with `Start = 142` TLC shows the swap.

Bounds: `Max` is 12 instead of 32 and `Mod` 144 instead of 65536; the code uses
both only through comparison and `%`, and `Mod > 6 * Max` keeps the ranges of
`newseq` apart as they are in the code. Thirteen packets go once round the ring;
packets of the server's life before and after the restart do not mix on the
way (`Before`).

### AhiDev, MCAhiDev, AhiDev_proofs: the AHI audio driver

`main` is the player's task (`play`, `reset`, `audio_pause`, `audio_resume`,
`uninit`, `ahi_dev_init`), `task` is `PlayerTask`, `DevicePlays` is ahi.device
(external; it plays requests in the order they were sent, straight from the
ring). Audio is counted in units and unit *k* is the *k*-th written. exec's
strict priorities are `MainRuns`: `PlayerTask` has priority 2 and main does not
run while it could, unless `slices`, part of the case, says that main has been started with the
same priority or that `SendIO` waits inside the device. Not modelled: volume,
formats, and the time estimate in `get_delay`.

| run | question | result |
|---|---|---|
| `ahi_play` | two cases. `Plays`: play, pause, resume and uninit, nine units, where PlayerTask keeps the processor until it waits: the ring holds what was written and not sent, `written_byte` counts it, it is played. `Races`: resets and a second init, three units, with `slices`. In both, a request is never reused while the device has it, uninit leaves nothing behind, calls return | holds |
| `ahi_open` | init returns | violated: when the device does not open, nobody sends `sig_taskend` |

Three more observations, which no run claims to hold: the read position moves when
a chunk is sent and not when it has played, so `play` may write over audio that
is still being played; with `slices`, main can fill the ring between
PlayerTask's release of the lock and its store of `buffer_full`, and a full ring is
then taken for an empty one; and `PlayerTask` can come in between the four
stores of `reset`, which takes no lock, and play audio written before it.

Bounds: a ring of 4 units, requests of 2, and lengths 1, 3 and 4 give
writes that wrap, fill the ring exactly, and cross its end; nine units pass
the ring twice. Fairness: weak for PlayerTask, which has
the higher priority, and for the device; strong for main's steps, which PlayerTask
interrupts again and again but, as it sleeps when it finds nothing to play (321), never
for good. The player is not obliged to call.

### KeyFifo, MCKeyFifo, KeyFifo_proofs: key events

`mp_fifo.c` and `interpret_key`/`check_autorepeat` run in one task, but at
different times: events are put in while the window's messages are handled,
and read one per turn of the main loop, as late as it happens to come round. The
FIFO holds seven events and drops what does not fit.

| code | module |
|---|---|
| `mplayer_put_key_internal` (mp_fifo.c:31) | `Put`, of `Refused`, `Stored`, `After` |
| `put_double`, `mplayer_put_key` (71, 79) | `PutDouble`; `Press`, `Release`, `Tap` |
| `mplayer_get_key` (61) | `GetKey`, part of each reader's action |
| `interpret_key` (input.c:1116) | `ReadAllUp`, `ReadPress`, `ReadRelease` |
| `check_autorepeat` (1197) | `StartRepeat` |

`queue` is the part of `key_fifo_data` between the two positions. Which command a
combination of keys gives is abstracted to the combination: `ar_cmd` is the
combination being repeated. Left out: that the release of a combination's last
keys gives no command (`last_key_down`), the OSD menu's key callback, and the
FIFO being freed at exit.

| run | question | result |
|---|---|---|
| `key_fifo` | a FIFO that overflows: no key is stuck, a press of a key resets no other, resets do not follow one another, autorepeat repeats what is down | holds |

Observations outside the run: the double click of a mouse press that was itself
dropped is put in as a release (mp_fifo.c:97) and may take the last entry, and so
reset the other keys; `PressResetsNothing` excepts mouse buttons for that. The test of
input.c:1151 is `>`, so with more buttons held than `MP_MAX_KEY_DOWN` a press is
stored one past the end (there are 32 places; the run has as many buttons as
places). A press while a combination repeats replaces `ar_cmd` without freeing it.

Bounds: a FIFO of 5 (7 by default; 7 also passes, with 12 million states), two
buttons of which one has double clicks, and one tap. Five is enough for the
reserved half, the last entry and the full FIFO to differ. The state space is
finite without a bound on events.

### CmdQueue, CmdQueue_proofs: the command queue and the ARexx task

The player's main task takes commands from the queue; menus, the mouse, keys
and the ARexx task put them in. A script's GET command makes the ARexx task wait
(`get_arexx_rc2`) until main has run it and signals the answer with CTRL_D.
`StopArexx` signals CTRL_C and waits for SIGF_CHILD.

| code | module |
|---|---|
| `mp_input_queue_cmd`, from main | `Enqueue` |
| the same, from the ARexx task | `PostStore`, `PostEnd`, `PostLoad`, `PostLength`, one store each |
| `mp_input_get_cmd` | `GetNow` (nothing slept), `GetAwake` (after a sleep), of `FromQueue`, `FromKey` |
| `mp_input_check_interrupt` | `Check`, `CheckWake`, `Checked` |
| `libmpdemux_was_interrupted` | `WasInterrupted` |
| the main loop, `run_command` | `Poll`, of `Execute`, `Answer`, `After` |
| `pause_loop` | `PauseLook`, `PauseWake`, `Unpaused` |
| `check_events` queueing a mouse move | `QueueOwn` |
| `StopArexx` | `Stop` after `quit` |
| `ArexxTask`, `rxFunc` | `Receive`, `NextMessage`, `Return`, `Break` |
| `get_arexx_rc2` | `TakeAnswer` |

The ARexx task has priority -20 and main 0, and exec schedules strictly: ARexx
runs only while main sleeps, so one action of main is all it does up to its next
sleep. It may wake up anywhere, inside the ARexx task's `mp_input_queue_cmd` too, whose
four stores are steps of their own; the queue has no lock. What main then does to the queue is
harmless, except where both change the same field, which is `Clash`: main puts a
command in while ARexx puts one in (both fill one slot, or count one command), or takes one between ARexx's load and its
store of the length (the store undoes main's decrement). The queue may then hand out a freed command, so
the model ends there (`clashed`), and the properties speak of the time before.

| run | question | result |
|---|---|---|
| `cmd_queue` | a script and a user, a queue that overflows, a player that polls, blocks, pauses, quits: nothing vanishes or runs twice, order, answers go to their question, a waiting script is answered, StopArexx returns and the task has ended | holds |
| `cmd_peek` | "remove the cmd from the queue" (input.c:1928) | violated: main sleeps in a peek; a GET is posted; a key is read; its command is queued *behind* the GET and returned; the removal that follows takes the GET, nobody runs it, the script waits until the player quits, and the key's command is still there to be run again |

Observations outside the runs: a clash loses or repeats commands, since nothing protects
the queue's fields: leave either half of `Clash` out, and TLC finds `NothingVanishes`
violated, so no smaller condition will do; `RxCmd` (arexx.c) is one global both tasks fill;
`postcommand` ignores that the queue was full and a refused GET is waited for all
the same, which `GetReturns` excepts; a GET typed in slave mode or bound to a key
signals CTRL_D as well, and a script that waits takes it for its own answer (in the
model only scripts send GETs); GET_SUB_VISIBILITY is run without an answer
(command.c:3199), and an idle player frees GETs it does not know (mplayer.c:3145).

Folded into one command, `quit`, which interrupts a peek: the quit requested by a signal
(`async_quit_request`, input.c:1399), and the commands that abort play by a step
(1922). The command filters (1417) are left out: only the OSD menu has one (`libmenu/vf_menu.c`).

Bounds: a queue of 2 instead of 100, so that it overflows; four script and two
user commands. Fairness: the ARexx task's own steps and main's wake-ups are weakly
fair, because sleeps end and each task runs when the other sleeps; `Poll` is
strongly fair, because the main loop comes back to line 3993 between any two
blocking operations. The script need not send and the user need not type.

### PlayTree, ConfigStack, Scopes, MCPlayTree, PlayTree_proofs: the play list and its options

`ConfigStack` holds the operators of `m_config.c` on a value of the type `m_config_t`;
`PlayTree` has such a value as its variable `config`, and shows with `Outer ==
INSTANCE Scopes WITH ...` that every way through the list uses it as nested scopes.
The functions of `playtree.c` call each other in tail position, some recursively: one
call is one action, `call` is the one to run now. So a list on which the code
recurses without end is a behaviour without end, and `Returns` is a liveness property.

| code | module |
|---|---|
| `m_config_push`, `m_config_pop`, `m_config_set_option` | `PushConfig`, `PopConfig`, `SetOptions` (`Sets`, `SetSlot`, `SetValue`) |
| aliases, `m_config_add_option` (m_config.c:338) | `Aliases`, `SlotOf` |
| `play_tree_iter_step` | `StepRoot`, `StepNode`, `StepEntry`, `StepInvalid`, `StepRound`, `StepLoop`, `StepUp` |
| `play_tree_iter_up_step`, `_down_step` | `UpEnds`, `UpGoes`; `DownStep` |
| `play_tree_rnd_step` | `Unplayed`: any of them |
| `play_tree_iter_get_file` | `GetFile`, `NoMoreFiles` |
| main from `goto_next_file` on (mplayer.c:4118) | `LeaveByStep`, `LeaveByUp`, `LeaveBySource`, `LeaveStopped`, `NextReturned`, `AgainReturned`, `NoMoreEntries` |
| `playtree_add_playlist` (1060) | `OpenList`, `ListReturned`, `ListUpReturned` |
| the idle loop (3135) | `LoadIdle` |
| `pt_step`, `pt_up_step`, `alt_src_step`, `loadfile`, `loadlist`, `stop` (command.c:2777) | `StepBy`, `UpStep`, `AltSource`, `LoadBehind`, `LoadInstead`, `Stop`, with `TryReturned`, `UnwindReturned`, `HeadReturned` |
| `set_property` on an option's variable | `ChangeOption` |

| run | question | result |
|---|---|---|
| `playlist` | nine lists (a group played twice inside a list, groups that loop for ever, shuffled lists, play lists found in the list, empty ones, a group left with nothing in it) and any three commands, in idle mode: files play in order, each with its own options and those around it, scopes nest, steps return | holds |

Nine things the code does that the properties leave out on purpose, the last two
excluded from `OptionsOfPath` by `Tidy` (see the proofs):

* `play_tree_iter_step` looks at the first child only when it decides whether to go down
  (playtree.c:624): a group whose first child is empty but not a later one is taken for
  an entry, without files. No list of the run has one, and the model has no step for it;
* `m_config_push` skips options of the old kind that have not been set
  (m_config.c:248); the model saves every variable;
* at the end of a shuffled group inside another list the iterator answers END or
  starts the whole list again (playtree.c:597), with the group's level of the
  configuration still open; shuffled lists are therefore checked with all files under
  the root. `-loop 2` of a shuffled list gives three rounds;
* an alias writes the slot of level 1 (m_config.c:341) whatever the level, so what it
  sets for a file outlives it; `Scoped` leaves variables with aliases out, `VariableOf`
  has one;
* a group all of whose entries were empty play lists is stepped over again and again
  where it loops (playtree.c:634); `Returns` excepts lists with such a group (`Hollow`);
* a step a command only tries (command.c:2796) copies the iterator but not the tree,
  so it clears played flags; histories end with the first command (`touched`). A group in
  a shuffled list is not marked played by a step inside it, and may come again and again;
* the previous source is refused for the second file (command.c:2833 tests `> 1`), and
  `play_tree_iter_get_file` refuses when the last file has played, even backwards;
* an empty play list goes even when the iterator has come back to it
  (mplayer.c:1075-1083): with a root that loops for ever, a group that loops in it, and
  nothing but the empty play list in that, `play_tree_iter_up_step` ends on the entry
  again, which is then removed under the iterator. In the lists of the run, another
  entry follows;
* a step may fail with a group's level still open: backwards into a group whose last
  entry is a group with nothing in it, `play_tree_iter_step` continues with a `d` of 0
  after `play_tree_iter_down_step`, and answers ERROR (playtree.c:632-640). The iterator
  is freed, the level stays, and what is loaded next plays with the group's options.

Bounds: nodes are eleven model values, the groups three; three commands reach a
second command on the state the first left, and a third on the second's, for example
load, stop, then load from idle. Three option values tell list, file and user apart.
Fairness: `WF(Iterate)`, the functions of `playtree.c` run on once called; files need
not end and the user need not type.

### PacketQueues, MCPacketQueues, PacketQueues_proofs, Flattening: from the demuxer to the decoders

A file is a sequence of packets, each with a length and the streams it goes to, and
`desc->fill_buffer` (external to these queues; it differs per format) takes the next.
A packet for two streams is a clone as DV has them. `taken` and `from` are history:
what decoders have had since the last seek, and where it began.

| code | module |
|---|---|
| `ds_add_packet`, `clone_demux_packet`, `free_demux_packet` | `Demuxed`, `References`, `Released` |
| `ds_fill_buffer` | `FillBegins`, `TakePacket`, `FillReads`, `FillFails`; `Hopeless`, `Counts` |
| `demux_read_data` | `ReadData` |
| `ds_get_packet`, `ds_get_packet_sub` | `KeepPacket`, `NoSubtitle`, `GivePacket`, `TooEarly` |
| `ds_get_next_pts` | `PtsReads`, `PtsReturns` |
| `ds_free_packs`, `demux_seek`, `demux_flush`, `demux_resync` | `Flush`, `Seek`, `SwitchSubtitles` |
| `print_file_properties`, main, `fill_audio_out_buffers`, `generate_video_frame`, `update_subtitles` | `Open`, `Opened`, `ReadAudio`, `AudioRead`, `AudioDone`, `ReadVideo`, `VideoRead`, `FrameWaits`, `Subtitles`, `ReadSubtitle`, `SubtitleRead` |

| run | question | result |
|---|---|---|
| `packets` | nine files (well interleaved, gaps in either stream, DV, empty video packets, packets over the limit, one stream only) read in packets or pieces of 1 and 3, two seeks or changes of subtitles: packets live as long as somebody has them, streams reach their decoder byte for byte, playback ends, at the end | holds |

`PlaysToTheEnd` has a premise, `Interleaved`: audio need not wait longer than the
limits allow. Without it TLC finds the file over too soon: audio gives up once and its
`eof` stays set, packets for it arrive while video reads, video in turn gives up at
a limit, and main takes both for the end (mplayer.c:3850), audio packets still queued.

Left out: time stamps (a subtitle may be too early at any time), the parser
(`PARSE_ON_ADD` is 0), ASF fragments, `demux_pattern_3`, demuxers that add several packets in one call
(here each call adds one), that a change of subtitles flushes the queue only if they come from
the demuxer (command.c:1588; here it always may), what a decoder holds back, and
resets of `eof` by DVD menus. Video whose packets need parsing counts none of
them (`Counts`); the run has video that does not.

Bounds: limits of 2 packets in vain, 4 packets and 8 bytes stand for 80, 4096 and 32 MiB,
so that each is met alone by one of the files; packets of up to 4 bytes with pieces of 1
and 3 give reads inside a packet, of exactly one and across two. Fairness: main's loop
goes on (`WF` of its steps and of the calls); the device asks for sound, has enough,
and a waiting frame is shown, again and again (`SF(ReadAudio)`, `SF(AudioDone)`,
`SF(ReadVideo)`), for all three happen in every turn of the loop but not every time.

## What is proved

`Cache2_proofs` proves, for every value of the constants that satisfies
`ConstantsAssumption`,

* `TypeCorrect`: `Spec => []TypeOK`. `TypeOK` has the conjunct `Accounting`: the
  bytes already copied and the bytes still wanted always add up to one sector. So a
  call that returns has handed out at most a sector, under every
  interleaving with the filler, interrupts, failing seeks and failing reads included. The
  length of a copy is bounded from above only: that it is not negative is
  `PlaybackInBounds`, and is false outside playback.
  `TypeOK` is inductive as it stands. The proof has one lemma for the initial
  state and one for each group of actions (player and interrupts, reader,
  filler), each with one step per action; `Sizes`, `AlignNat`, `AppendRun` and
  `EmptyRun` are the facts about sizes and sequences they rest on.
* `OldBytesStay`: `Spec => BackKept`, races included: only the filler moves the start of
  the window, and by what it planned from the position it has loaded.
* `AnswersAreOwn`: `~Interrupts => (Spec => []AnswerIsOwn)`. The inductive `AskInv`
  follows the mailbox: while nobody interrupts, a posted command is the one asked for,
  with its argument in place, and what was executed last is the call in hand until its
  answer is taken, or nothing was executed and the answer is a refusal (`Refused`): the
  filler's first turn, and every turn of a stream without a control function. With `Interrupts = TRUE` TLC finds it false: the command left posted by an
  interrupted call (also the cause in `cache_late_control`) is executed during the next one.
* `PositionsAgree`: `~Interrupts => (Spec => []PosAgrees)`, for every player, seeks back
  and failing seeks included, and whatever the ring holds. It is the other half of
  `cache_late_control`: the check at cache2.c:660 can fire only after an interrupted wait.
  `PosInv` adds to `AskInv` what the reader still has to add to `pos` or to `read_filepos`
  in the middle of a call, and the one moment they differ: the filler has taken the
  stream to a chapter and the reader has not read the answer yet (`Relocated`).

The second part of `Cache2_proofs` proves, for every medium, sector, buffer, chunk, prefill and
seek limit, that playback needs no lock. The premise is `PlaybackOnly`: no seek
behind the player's position, no seek or chapter past the medium's end, no
interrupts, a medium that can seek, and either reads that do not fail or no seeks but
those to chapters. Chapters may lead back as well as ahead. Under it,

* `PlaybackSafe`: `Spec => []PlayInv`, and from it `PlaybackDelivers`
  (`DeliveredIsFile`), `PlaybackInBounds` (`CopyInBounds`), `PlaybackApart`
  (`NoOverlap`) and `PlaybackWindow` (`WindowIsFile`): the constants of `cache_play` and of
  `cache_control` are instances of it.
* `PlaybackRefines` (`Spec => ReadsMedium`, the refinement of `MediumReader`), without
  chapters (`Chapters = {}`): the medium's bytes in order, none left out and none
  twice. A call is short only at the end where reads do not fail; where they may
  (`MayFail <- ReadFails`) it may be short anywhere, and what follows is still in order.
* `PlaybackEof` (`EofAfterEnd`), with neither chapters nor failing reads (`EofMeansEnd`).
  With chapters neither of the two holds: the
  end of the medium can be left again, and a stream that keeps its `eof` flag across the
  jump has it copied into the cache's (cache2.c:396), so that the first read at the
  chapter comes back empty.

`PlayInv` is inductive. What makes it so is one relation between a shared field and a
stale copy: the filler's `fread` is never ahead of `read_filepos`, so what a fill gives
up is behind the reader (`TurnInv`, `PlanFits`), and when a flush is due the copy is
exact, because the reader is waiting ahead of the window and does not move
(`FlushServes`). A chapter seek moves the reader's position under the window, in four
stores; `MoveInv` says that the filler is in the middle of them only while the reader
waits for the answer, and that each bound is the stream's position once it is stored.
`eof` may then be set with bytes still to come; it stays harmless, because every seek
clears it before the reader waits (`ReaderInv`). `CellsInv` and `WindowInv` speak of the window as it is once the
stores of the fill in hand are all made (`NewMax`, `NewOffset`), which is why the order
of those stores does not matter: a raised `offset` moves no position to another cell
(`WrapTurn`). The steps of the two threads are proved apart: `PlayLook`, `PlayCopy`,
`PlayAdvance`, `PlayControl`, `PlayPlayer` for the reader, `PlayQuiet`, `PlayFlush`,
`PlayReseat`, `PlayReseatStore`,
`PlayFillSeek`, `PlayPlan`, `PlayFillRead`, `PlayPublish` for the filler, over lemmas
about the ring (`WrapIsCell`, `WrapRun`, `WrapTurn`, `WrittenHolds`). The refinement adds
that the stream only moves ahead, so the end of the medium stays met.
The premise is needed: with `BackwardSeeks = TRUE` TLC finds `NoOverlap` and
`DeliveredIsFile` violated, since a seek back after the filler's load lets a fill
overwrite what the reader is copying.

`KeyFifo_proofs` proves, for every FIFO size of at least 2, any sets of buttons
and taps, and any map from mouse buttons to double-click codes (`FifoAssumption`),

* `TypeCorrect`: `Spec => []TypeOK`; the FIFO never exceeds its size.
* `KeysComeUp`: `Spec => []NoStuckKey`, the reason the FIFO is written as it is.
* `KeysOnce`: `Spec => []NoKeyTwice`, so that one release takes a key out.
* `ResetsApart`: `Spec => []NoTwoResets`; `ResetKnown` is added to the invariant: when
  the event stored last is a reset, `previous_down_key` says so.
* `PressesLiftNothing`: `Spec => PressResetsNothing`, an action property of the same
  invariant.
* `RepeatsWhatIsDown`: `Spec => []RepeatIsCurrent`, inductive by itself.

The first three follow from the inductive `Inv == TypeOK /\ LastStored /\ NoStuckKey /\
NoKeyTwice`. `NoStuckKey` alone is not inductive: when a release is refused
(no entry is left, or one is and the event before it was a reset), the key
comes up only because the event stored last is a reset that no read has removed
yet; `LastStored` says so. The argument is in
two layers: lemmas about the FIFO as a value (`PutCases`, `PutOK`, `PutKeeps`,
`PutReleases` for writing, `ReadOK`, `ReadKeeps` for reading, `WithoutFacts` for
`key_down`), then `WriteInv` and `ReadInv`, under which every action falls.

`AhiDev_proofs` proves, for a ring and chunks of any size, any lengths and any cases
(`AhiAssumption`), the driver's five invariants, from
`IInv == Typed /\ RequestInv /\ EndInv /\ LockInv /\ CalmInv`:

* `RequestsTakeTurns` (`RequestIsFree`) and `UninitWaits` (`TaskHasEnded`) whatever the
  scheduling, races between `reset` and PlayerTask included. `RequestInv` says which of
  the two requests may be out at each point of PlayerTask's loop: only the one it
  sent before, until both are and it waits for the older.
* `RingIsExact` (`RingIntact`) and `CountIsExact` (`WrittenIsFill`), whose premise `Calm` is
  part of the properties: nobody comes in between PlayerTask's steps. `CalmInv` says what
  the ring holds also in the middle of a send (`Fill`, `InHand`), where positions, count
  and full flag do not agree.
* `TypeCorrect`.

`CmdQueue_proofs` proves, for a queue of any size and any commands (`QueueAssumption`,
`NoneAssumption`), with main waking up anywhere,

* `NoneVanishes` (`NothingVanishes`), `RunInOrder` (`InOrder`), `OwnAnswer`
  (`AnswerIsOwn`), `StopWaits` (`EndedWhenStopped`), `TypeCorrect`.

`IInv == Typed /\ QueueInv /\ AnswerInv /\ EndInv`. `Kept` in `QueueInv` is the queue
read as a list: each sender's commands in order, and every command of the script in
exactly one of queue, history and losses. `PostInv` says how far the four stores of a
post have got. `AnswerInv` ties CTRL_D to the one GET that can be outstanding: a GET is
in the queue only while the script waits for it. What is invariant is
`Safe == TypeOK /\ (~clashed => IInv)`: while ARexx is between two stores, main may take
commands, which moves `start` and `length` but nothing the stores are about; a step that does more is
a `Clash` (`NoClash` says what the others leave alone), after which there is nothing to
keep but types. `TypeCorrect` holds with clashes as well.

`PacketQueues_proofs` proves, for any files, limits, decoders and seeks
(`PacketAssumption`; what is asked of the limits is that `MaxPacks` and `MaxBytes` are not 0),

* `CountsAreExact`: `Spec => []BuffersValid`, with
  `IInv == Typed /\ Apart /\ CallInv /\ BuffersValid`: no stream has a packet twice, so
  that each step changes a count, a cardinality of a set of streams, by what it says.
* `StreamsAreWhole`: `Spec => []WholeStream`. The invariant `Flow` says that some bytes
  `had`, as many as `taken` counts, followed by what is buffered and what is queued, are
  what the file has of the stream from `from` to `next`. Concatenations are
  `FlattenSeq`, a recursive function; what the proof needs of it (`FlattenSeq` of one more
  sequence, its type, `InFile` split in two) is proved in `Flattening` by well-founded
  induction on lengths, since a set of lengths that has 0 and each successor is `Nat`
  (`Induction`).
* `StopsAtTheEnd`: `Spec => []PlaysToTheEnd`. `Eofs` says what an `eof` means although
  it may be set while packets are still to come: what audio has waited for is in the file
  (`Waited`), so in an `Interleaved` file audio's `eof` is set only when no audio is left
  (`AudioOver`), and whenever audio waits or is over, video has a packet, can be read
  on, or there is none left (`VideoWaits`, `VideoLeft`); so main, which takes a failed read
  of video and audio's `eof` for the end, is right.

`RtpReorder_proofs` proves, for any ring of more than 3 slots, any modulus over six times
that, and any network (`RtpAssumption`),

* `TypeCorrect`: `Spec => []TypeOK`, restarts and wrapping numbers included.
* `OrderKept`: `Steady => (Spec /\ [][Within]_vars => []Ordered)`. `Steady` says that the
  server's numbers stay below 2^16 and that a restart goes far: ahead by more than the
  ring and the stream together, or back so far that `rtp_cache` starts anew. `Within`
  excludes, step by step, the two cases in which the code does not keep order: a packet
  exactly `Max` ahead, filed over the expected one (115), and one that is taken for a
  restart but is none (127). `OrdInv` says that each packet held is as far from `first` as
  its number from the expected one (`HeldInv`), that what came out is older (`LastInv`),
  that the expected number can not run away from the packets (`RoomInv`), and that the
  server's two lives do not mix (`LivesInv`); distances are counted from `Origin`, the
  number of packet 0 in the life the ring follows.
* `NoneDropped` and `RestartResumes`:
  `Steady /\ Spare => (Spec /\ [][Near]_vars => []NothingDropped)`, and `[]Resumes`.
  `Spare` relates constants: twice what may overtake a packet, with the repeats and
  failed receives, is less than the tries of one `rtp_get_next`. `Near` adds to `Within`
  that only a restart makes a packet look beyond the ring. The argument counts
  (`DropInv`): each receive of a call leaves a packet in the ring, or one older than the first
  that came out, or a repeat, or an error (`Traces`); while a packet that is still to come
  is waited for, fewer than `Spread` are in the ring and fewer than `Spread` are that old
  (`Overtaken`, `Recent`); so the tries do not run out before it comes (`NoneMissed`).

`rtp_order` is such an instance: its constants satisfy `Steady` and `Spare`, and TLC finds
each of its steps `Near`. In general `Near` depends on what late and lost packets add up to
over a stream, not on the constants alone: every packet received early brings the
next ones closer to the ring's end.

`PlayTree_proofs` proves, for any set of entries, options, aliases and values, any list
and any commands (`PlayTreeAssumption`: the given lists are trees of a finite depth, and
the entries a play list or a command brings fit in at their place),

* `OptionsScoped`: `Spec => OptionsAreScoped`, the refinement of `Scopes` under
  `Outer == INSTANCE Scopes WITH Vars <- Scoped, levels <- Levels(config)`.
* `TypeCorrect`: `Spec => []TypeOK`.
* `OptionsOfPath`: `Spec /\ [][Tidy]_vars => []EnvIsPath`.
* `PlaysInOrder`: `Spec /\ Listing(tree) => []PlaysAsListed`, for lists that are not
  shuffled.
* `PlaysInRounds`: `Spec /\ Shuffling(tree) => []PlaysAsListed`, for shuffled ones.

The argument for the first two has three layers. About `ConfigStack`: a push appends a context, a pop
restores the front, a set changes only the top (`PushEnters`, `PopLeaves`,
`ChangeStays`), for every stack that has one slot per level and saved variable
(`Stacked`). About the list: every way a command changes it leaves a tree in which each
entry keeps its level (`Layered`). About the iterator: `IInv(level)` says that it is never
deeper in the list than its stack of loop counts (`Standing`), and that the configuration
has a level for each group around it and one for an open entry (`Opened`), which is why no
pop goes below the first context. `Walked` is what each function of `playtree.c` keeps of
this, whether or not it moves the configuration. The levels are a witness of the
invariant, `Inv == \E level \in Layers : IInv(level)`, fixed by the initial list.

`OptionsOfPath` adds to this what each level holds. `Stands` says that there is a way from
the root down to where the iterator stands, each group on it in the one before (`Way`), and
that each level from some `b` on is the one below it with the options of the group it was
opened for (`Opens`); at `b`, the options are those before the first file as far as the
root's own make a difference. `b` is not 1 for every file: at the end of the list the level of the
root stays open, and the next list that is loaded starts above it; this does no harm,
for setting the root's options twice is setting them once (`AfterTwice`). The
invariant `PathInv` says that the iterator the configuration belongs to, which is `kept` while a
command asks, `Stands`, that the entry's own level is open and set wherever main has an
entry in hand (`AtEntry`, `Enters`), and that no node is in two groups (`Single`). The
lemmas say how each level of the configuration changes (`PushTop`, `PopRest`, `ChangeTop`),
that `Path`, a recursive function, is the way down (`WayPath`, by induction on a node's
level), and which ways a changed list keeps (`TreeFits`).

`Tidy` has five parts, one for each way the code can leave the list or the
configuration behind: the contents of a play list are new; the first step into a list that
was loaded finds an entry; a play list that goes is neither the entry the iterator
stands on nor a group around it; going up to the end reaches the root; and the iterator is freed
outside all groups but the root, with no entry open. It is no assumption for the lists of
`playlist`: TLC finds each step of that run tidy, commands included. It is needed:
with a shuffled group inside a list, an invalid group at the end of another, or
only an empty play list in groups that loop, TLC finds `EnvIsPath` violated, as above.

`PlaysInOrder` and `PlaysInRounds` speak of the list as it is given: `Listing` says that
nothing is shuffled, that every group from the root down has something in it and every
entry a file, and that no group but the root loops for ever; `Shuffling` that all files
are under the root, that none has played, and that the root does not count its loops (a
shuffled root that does count plays one round more than its `-loop` says, and `heard`
does not tell the rounds apart). Each list of `playlist` is one of the two. Commands
may come at any time; `PlaysAsListed` speaks of the time before the first that changes
what plays.

For a list in order, the invariant `InOrder` compares `Order` with what the iterator has
left to do. `Order` is a recursive function over the list and `FlattenSeq` another, so
first it is shown that there is such a function on every list of a finite depth
(`Recursion`, `OrderIs`, by induction on the depth below a node, `Heights`), and that a
group's part of it is its first node's, then what follows that one (`OnwardIs`,
`GroupBegins`). `Turns` gives each node on the way down to the iterator the sequence of
files that follows it: the rest of its group, then the group again as often as the count
on the iterator's stack says, then what follows the group (`Follows`). `Still` says that
what follows where the iterator stands is what is left of `Order` after `at` files. Each
function of `playtree.c` keeps this: a step to the next sibling takes one piece off
(`TurnsSide`), a step down opens the group's first node (`TurnsDown`), a loop spends
one of the count (`TurnsLoop`), a step up drops what is empty (`TurnsEnd`).

For a shuffled list, `Shuffles` says that the files heard in this round are those marked
`PLAY_TREE_RND_PLAYED`, less the one that is about to play, or that a round is complete
and the marks are gone (`Round`); `SongsCounted` that `Order` is as long as there are files.
Only model-checked: everything with fairness (`NoCallHangs`, `CallsReturn` of `AhiDev`, `Drains`,
`GetReturns`, `StopReturns`, `Ends`, `Returns`), since liveness and ENABLED are beyond TLAPS here, and
what the safety theorems above leave open: that `Near` and `Tidy` hold of a run, which
TLC finds of the lists and the network of `playlist` and `rtp_order`, and lists
that are neither `Listing` nor `Shuffling`.


## Not modelled

The components marked so in the inventory above, with their reasons in
`PROJECT.json`. Codecs, filters, demuxer formats and vendored libraries are
sequential computation on data and are not the subject of these models. Real
time is not modelled: a sleep is a step, a timeout may fire at any moment.
