------------------------------- MODULE AhiDev -------------------------------
(***************************************************************************)
(* The AHI audio driver (libao2/ao_ahi_dev.c).  The player's main task     *)
(* calls play, reset, pause, resume and uninit; the "MPlayer Audio Thread" *)
(* (PlayerTask, priority 2) takes audio from a ring and sends it to        *)
(* ahi.device with two requests in turn.  LockSemaphore protects the ring  *)
(* in play and in the middle of PlayerTask's loop, and nothing else.       *)
(*                                                                         *)
(* Audio is counted in units; unit k is the k-th the player has written.   *)
(* The device plays requests in the order they were sent.                  *)
(***************************************************************************)
EXTENDS Integers, FiniteSets, Sequences, SequencesExt

CONSTANTS
  ChunkMax,    \* AHI_CHUNKMAX, the ring
  ChunkSize,   \* AHI_CHUNKSIZE
  Lengths,     \* lengths play may be called with
  Cases        \* what may happen, records of bounds and choices:
               \*   units      units the player has in all
               \*   resets, pauses, inits   calls of reset, of audio_pause, and
               \*              of ahi_dev_init after an uninit
               \*   openFails  whether ahi.device may fail to open
               \*   slices     whether main may run while PlayerTask could: main
               \*              has its priority, or SendIO waits in the device

ASSUME AhiAssumption ==
  /\ ChunkMax \in Nat \ {0} /\ ChunkSize \in 1 .. ChunkMax
  /\ Lengths \subseteq Nat \ {0}
  /\ \A c \in Cases : /\ {c.units, c.resets, c.pauses, c.inits} \subseteq Nat
                       /\ {c.openFails, c.slices} \subseteq BOOLEAN

Cells == 0 .. ChunkMax - 1
Silence == -1
Requests == {1, 2}                \* AHIio, AHIio2
NoRequest == 0

VARIABLES
  \* the driver's statics
  buffer, buffer_get, buffer_put, buffer_full, written_byte, paused, lock,
  \* main: program counter, units play puts, its load of written_byte, stores
  \* of reset still to make
  mpc, data_put, mwritten, pend, resets, pauses, inits,
  \* PlayerTask: program counter, length in hand, its load of written_byte,
  \* AHIio, link
  tpc, len, twritten, AHIio, link,
  \* signals that are set: SIGBREAKF_CTRL_C of PlayerTask, sig_taskready and
  \* SIGF_CHILD of main
  signals,
  \* ahi.device: requests not finished, requests finished and not waited for
  queue, done,
  \* units written, units sent
  made, sent,
  \* which of Cases it is
  bounds

ring   == <<buffer, buffer_get, buffer_put, buffer_full, written_byte>>
main   == <<mpc, data_put, mwritten, pend, resets, pauses, inits>>
task   == <<tpc, len, twritten, AHIio, link>>
device == <<queue, done>>
ghost  == <<made, sent>>
vars   == <<ring, paused, lock, main, task, signals, device, ghost>>

Init ==
  /\ buffer = [c \in Cells |-> Silence]
  /\ buffer_get = 0 /\ buffer_put = 0 /\ buffer_full = FALSE
  /\ written_byte = 0 /\ paused = FALSE /\ lock = "free"
  /\ mpc = "wait" /\ data_put = 0 /\ mwritten = 0 /\ pend = {}
  /\ resets = 0 /\ pauses = 0 /\ inits = 0
  /\ tpc = "open" /\ len = 0 /\ twritten = 0 /\ AHIio = 1 /\ link = NoRequest
  /\ signals = {} /\ queue = <<>> /\ done = {}
  /\ made = 0 /\ sent = 0
  /\ bounds \in Cases

-----------------------------------------------------------------------------
(* PlayerTask has the processor until it waits. *)
TaskRuns == tpc \in {"locked", "send", "clear", "store"}
MainRuns == bounds.slices \/ ~TaskRuns

(* ahi_dev_init's Wait: PlayerTask has opened the device. *)
InitReady ==
  /\ mpc = "wait" /\ "ready" \in signals
  /\ mpc' = "idle" /\ signals' = signals \ {"ready"}
  /\ UNCHANGED <<ring, paused, lock, data_put, mwritten, pend, resets, pauses, inits,
                 task, device, ghost>>

(* play takes the lock; when the ring is full it returns 0 and changes nothing. *)
PlayLock ==
  /\ mpc = "idle" /\ MainRuns /\ lock = "free" /\ ~buffer_full /\ made < bounds.units
  /\ mpc' = "put" /\ lock' = "main"
  /\ UNCHANGED <<ring, paused, data_put, mwritten, pend, resets, pauses, inits, task,
                 signals, device, ghost>>

(* Up to the read position or the end of the ring. *)
ToEnd == ChunkMax - buffer_put                                 \* mutant
Contiguous == IF buffer_get - buffer_put <= 0 THEN ChunkMax - buffer_put
                                              ELSE buffer_get - buffer_put

Put(n) == [c \in Cells |-> IF c - buffer_put \in 0 .. n - 1
                             THEN made + (c - buffer_put) ELSE buffer[c]]

NeverFull(put) == FALSE                                        \* mutant
Filled(put) == put = buffer_get \/ buffer_full

PlayCopy(l) ==
  /\ mpc = "put" /\ MainRuns /\ made + l <= bounds.units
  /\ LET n == IF l < Contiguous THEN l ELSE Contiguous
         put == (buffer_put + n) % ChunkMax
     IN  /\ buffer' = Put(n)
         /\ buffer_put' = put /\ buffer_full' = Filled(put)
         /\ data_put' = n /\ made' = made + n
  /\ mwritten' = written_byte
  /\ mpc' = "account"
  /\ UNCHANGED <<buffer_get, written_byte, paused, lock, pend, resets, pauses, inits, task,
                 signals, device, sent>>

PlayAccount ==
  /\ mpc = "account" /\ MainRuns
  /\ written_byte' = mwritten + data_put
  /\ lock' = "free" /\ mpc' = "idle" /\ data_put' = 0 /\ mwritten' = 0
  /\ UNCHANGED <<buffer, buffer_get, buffer_put, buffer_full, paused, pend,
                 resets, pauses, inits, task, signals, device, ghost>>

(* reset: four stores, without the lock. *)
ResetFields == {"get", "put", "full", "written"}

ResetStart ==
  /\ mpc = "idle" /\ MainRuns /\ resets < bounds.resets
  /\ resets' = resets + 1 /\ pend' = ResetFields /\ mpc' = "reset"
  /\ UNCHANGED <<ring, paused, lock, data_put, mwritten, pauses, inits, task, signals,
                 device, ghost>>

ResetStore(f) ==
  /\ mpc = "reset" /\ MainRuns /\ f \in pend
  /\ buffer_get' = IF f = "get" THEN 0 ELSE buffer_get
  /\ buffer_put' = IF f = "put" THEN 0 ELSE buffer_put
  /\ buffer_full' = IF f = "full" THEN FALSE ELSE buffer_full
  /\ written_byte' = IF f = "written" THEN 0 ELSE written_byte
  /\ pend' = pend \ {f}
  /\ IF pend' = {} THEN mpc' = "idle" /\ sent' = made
                   ELSE UNCHANGED <<mpc, sent>>
  /\ UNCHANGED <<buffer, paused, lock, data_put, mwritten, resets, pauses, inits, task,
                 signals, device, made>>

Pause ==
  /\ mpc = "idle" /\ MainRuns /\ pauses < bounds.pauses /\ ~paused
  /\ paused' = TRUE /\ pauses' = pauses + 1
  /\ UNCHANGED <<ring, lock, mpc, data_put, mwritten, pend, resets, inits, task,
                 signals, device, ghost>>

Resume ==
  /\ mpc = "idle" /\ MainRuns /\ paused
  /\ paused' = FALSE
  /\ UNCHANGED <<ring, lock, main, task, signals, device, ghost>>

(* uninit: break PlayerTask and wait for SIGF_CHILD. *)
Uninit ==
  /\ mpc = "idle" /\ MainRuns
  /\ signals' = signals \cup {"break"} /\ mpc' = "join"
  /\ UNCHANGED <<ring, paused, lock, data_put, mwritten, pend, resets, pauses, inits,
                 task, device, ghost>>

Joined ==
  /\ mpc = "join" /\ "child" \in signals
  /\ signals' = signals \ {"child"} /\ mpc' = "closed"
  /\ UNCHANGED <<ring, paused, lock, data_put, mwritten, pend, resets, pauses, inits,
                 task, device, ghost>>

(* ahi_dev_init once more: a new ring, a new semaphore and a new PlayerTask; the
   positions, counts and flags are left as they were. *)
Reinit ==
  /\ mpc = "closed" /\ inits < bounds.inits
  /\ inits' = inits + 1 /\ mpc' = "wait"
  /\ buffer' = [c \in Cells |-> Silence] /\ lock' = "free"
  /\ tpc' = "open"
  /\ UNCHANGED <<buffer_get, buffer_put, buffer_full, written_byte, paused, data_put,
                 mwritten, pend, resets, pauses, len, twritten, AHIio, link, signals,
                 device, ghost>>

-----------------------------------------------------------------------------
(* PlayerTask. *)

(* ahi.device opens: sig_taskready.  When it does not, PlayerTask cleans up
   and ends with SIGF_CHILD; nothing ever sends sig_taskend. *)
Opened ==
  /\ tpc = "open"
  /\ tpc' = "loop" /\ signals' = signals \cup {"ready"}
  /\ UNCHANGED <<ring, paused, lock, main, len, twritten, AHIio, link, device, ghost>>

OpenFailed ==
  /\ tpc = "open" /\ bounds.openFails
  /\ tpc' = "cleanup"
  /\ UNCHANGED <<ring, paused, lock, main, len, twritten, AHIio, link, signals,
                 device, ghost>>

Break ==
  /\ tpc = "loop" /\ "break" \in signals
  /\ tpc' = "cleanup" /\ signals' = signals \ {"break"}
  /\ UNCHANGED <<ring, paused, lock, main, len, twritten, AHIio, link, device, ghost>>

(* cleanup_task aborts the request that still plays, if any, and frees the
   ring. *)
Unaborted == queue                                             \* mutant
Aborted ==
  IF \E i \in DOMAIN queue : queue[i].id = link
    THEN RemoveAt(queue, CHOOSE i \in DOMAIN queue : queue[i].id = link)
    ELSE queue

EndsAsTold == "taskend"                                        \* mutant
EndSignal == "child"

Cleanup ==
  /\ tpc = "cleanup"
  /\ queue' = Aborted /\ done' = done \ {link} /\ link' = NoRequest
  /\ signals' = signals \cup {EndSignal} /\ tpc' = "ended"
  /\ UNCHANGED <<ring, paused, lock, main, len, twritten, AHIio, ghost>>

(* Not paused: take the lock.  (Paused, it only sleeps.) *)
TaskLock ==
  /\ tpc = "loop" /\ "break" \notin signals /\ ~paused /\ lock = "free"
  /\ lock' = "task" /\ tpc' = "locked"
  /\ UNCHANGED <<ring, paused, main, len, twritten, AHIio, link, signals,
                 device, ghost>>

TaskEmpty ==
  /\ tpc = "locked" /\ buffer_put = buffer_get /\ ~buffer_full
  /\ lock' = "free" /\ tpc' = "loop"
  /\ UNCHANGED <<ring, paused, main, len, twritten, AHIio, link, signals,
                 device, ghost>>

(* All there is in one piece, or up to the end of the ring, by chunks. *)
ToPut == buffer_put - buffer_get                               \* mutant
ToPlay == IF buffer_put > buffer_get THEN buffer_put - buffer_get
          ELSE IF ChunkMax - buffer_get > ChunkSize THEN ChunkSize
               ELSE ChunkMax - buffer_get

TaskTake ==
  /\ tpc = "locked" /\ (buffer_put # buffer_get \/ buffer_full)
  /\ len' = ToPlay
  /\ buffer_get' = (buffer_get + len') % ChunkMax
  /\ sent' = sent + len'
  /\ lock' = "free" /\ tpc' = "send"
  /\ UNCHANGED <<buffer, buffer_put, buffer_full, written_byte, paused, main,
                 twritten, AHIio, link, signals, device, made>>

TaskSend ==
  /\ tpc = "send"
  /\ queue' = Append(queue, [id |-> AHIio, left |-> len])
  /\ tpc' = "clear"
  /\ UNCHANGED <<ring, paused, lock, main, len, twritten, AHIio, link, signals,
                 done, ghost>>

(* After the lock has been released: buffer_full and written_byte. *)
Chunk == ChunkSize                                             \* mutant
Played == len

TaskClear ==
  /\ tpc = "clear"
  /\ buffer_full' = FALSE /\ twritten' = written_byte /\ tpc' = "store"
  /\ UNCHANGED <<buffer, buffer_get, buffer_put, written_byte, paused, lock, main,
                 len, AHIio, link, signals, device, ghost>>

TaskStore ==
  /\ tpc = "store"
  /\ written_byte' = twritten - Played /\ twritten' = 0 /\ len' = 0
  /\ tpc' = IF link = NoRequest THEN "swap" ELSE "waitio"
  /\ UNCHANGED <<buffer, buffer_get, buffer_put, buffer_full, paused, lock, main,
                 AHIio, link, signals, device, ghost>>

Same(r) == r                                                   \* mutant
Other(r) == 3 - r

TaskSwap ==
  /\ tpc = "swap"
  /\ link' = AHIio /\ AHIio' = Other(AHIio) /\ tpc' = "loop"
  /\ UNCHANGED <<ring, paused, lock, main, len, twritten, signals, device, ghost>>

(* WaitIO(link); when the next request has ended too, start afresh. *)
TaskWait ==
  /\ tpc = "waitio" /\ link \in done
  /\ tpc' = "loop"
  /\ IF AHIio \in done
       THEN done' = {} /\ link' = NoRequest /\ UNCHANGED AHIio
       ELSE done' = done \ {link} /\ link' = AHIio /\ AHIio' = Other(AHIio)
  /\ UNCHANGED <<ring, paused, lock, main, len, twritten, signals, queue, ghost>>

-----------------------------------------------------------------------------
(* ahi.device plays a unit of the first request, and returns the request after
   its last. *)
DevicePlays ==
  /\ queue # <<>>
  /\ LET r == Head(queue)
     IN  IF r.left = 1
           THEN queue' = Tail(queue) /\ done' = done \cup {r.id}
           ELSE queue' = <<[r EXCEPT !.left = @ - 1]>> \o Tail(queue) /\ UNCHANGED done
  /\ UNCHANGED <<ring, paused, lock, main, task, signals, ghost>>

-----------------------------------------------------------------------------
MainCall == PlayLock \/ ResetStart \/ Pause \/ Resume \/ Uninit \/ Reinit
MainStep ==
  \/ InitReady \/ PlayAccount \/ Joined
  \/ \E l \in Lengths : PlayCopy(l)
  \/ \E f \in ResetFields : ResetStore(f)
TaskStep ==
  \/ Opened \/ OpenFailed \/ Break \/ Cleanup \/ TaskLock \/ TaskEmpty \/ TaskTake
  \/ TaskSend \/ TaskClear \/ TaskStore \/ TaskSwap \/ TaskWait

Next == (MainCall \/ MainStep \/ TaskStep \/ DevicePlays) /\ UNCHANGED bounds

Spec == Init /\ [][Next]_<<vars, bounds>>

(* The tasks are scheduled, the device plays.  Main runs when PlayerTask waits,
   again and again: a task that finds nothing to play sleeps (321). *)
FairSpec == Spec /\ SF_vars(MainStep) /\ WF_vars(TaskStep) /\ WF_vars(DevicePlays)

-----------------------------------------------------------------------------
(* Properties. *)

TypeOK ==
  /\ buffer \in [Cells -> 0 .. bounds.units - 1 \cup {Silence}]
  /\ buffer_get \in Cells /\ buffer_put \in Cells /\ buffer_full \in BOOLEAN
  /\ written_byte \in Int /\ mwritten \in Int /\ twritten \in Int
  /\ paused \in BOOLEAN /\ lock \in {"free", "main", "task"}
  /\ mpc \in {"wait", "idle", "put", "account", "reset", "join", "closed"}
  /\ data_put \in 0 .. ChunkMax /\ pend \subseteq ResetFields
  /\ tpc \in {"open", "loop", "locked", "send", "clear", "store", "swap", "waitio",
              "cleanup", "ended"}
  /\ len \in 0 .. ChunkMax /\ AHIio \in Requests /\ link \in Requests \cup {NoRequest}
  /\ signals \subseteq {"ready", "break", "child"} /\ done \subseteq Requests
  /\ Len(queue) <= 2
  /\ made \in 0 .. bounds.units /\ sent \in Nat

(* Main does not come in between PlayerTask's steps, nothing was reset, and this
   is the first init: what the counts and positions need to be exact. *)
Calm == ~bounds.slices /\ resets = 0 /\ inits = 0

(* "Semaphore to protect our variable as we have 2 tasks" (ao_ahi_dev.c:678):
   whoever takes the lock finds in the ring exactly the units written and not
   sent, in order, and buffer_full tells a full ring from an empty one. *)
RingIntact ==
  Calm /\ mpc \in {"idle", "put"} /\ tpc \in {"loop", "locked", "waitio"} =>
    /\ made - sent = IF buffer_full THEN ChunkMax
                                    ELSE (buffer_put - buffer_get) % ChunkMax
    /\ \A k \in 0 .. made - sent - 1 :
         buffer[(buffer_get + k) % ChunkMax] = sent + k

(* get_space and get_delay (658, 707) read written_byte: it is the number of
   units written and not sent. *)
WrittenIsFill ==
  Calm /\ mpc = "idle" /\ tpc \in {"loop", "locked", "swap", "waitio"} =>
    written_byte = made - sent

(* Two requests, used in turn (80-81): the one about to be sent is not one the
   device still has. *)
RequestIsFree == tpc = "send" => \A i \in 1 .. Len(queue) : queue[i].id # AHIio

(* uninit returns only when PlayerTask has ended and the device is at rest. *)
TaskHasEnded == mpc = "closed" => tpc = "ended" /\ queue = <<>>

(* ahi_dev_init comes to an end whether or not the device opens: "It can bo ok ->
   sig_taskready Or grrr ! -> sig_taskend" (587). *)
InitReturns == mpc = "wait" ~> mpc # "wait"

(* No other call of the player hangs, and nor does an init whose device opens:
   play, reset and uninit, whatever PlayerTask is doing. *)
CallsReturn ==
  mpc \notin {"idle", "closed"} ~>
    mpc \in {"idle", "closed"} \/ (mpc = "wait" /\ tpc = "ended")

(* What has been written gets played, unless the player pauses, resets or stops. *)
Drains == Calm /\ made > sent ~> made = sent \/ paused \/ mpc \in {"join", "closed"}

=============================================================================
