------------------------------- MODULE Cache2 -------------------------------
(***************************************************************************)
(* The stream cache (stream/cache2.c).  Two threads share a cache_vars_t   *)
(* and no lock: the reader (the player's main thread) calls                *)
(* cache_stream_fill_buffer, cache_stream_seek_long and cache_do_control;  *)
(* the filler (the "Mplayer cache" thread) runs cache_mainloop.            *)
(*                                                                         *)
(* One action is one load or store of a shared field, together with the    *)
(* thread-local work up to the next one.  memcpy and the stream's read are *)
(* one step each, with a program counter before and after them, so that    *)
(* what the two threads hold at the same moment is visible                 *)
(* (NoOverlap).  Stores between which the C source imposes no order        *)
(* (plain fields, no call in between) happen in any order.                 *)
(*                                                                         *)
(* A byte of the medium is identified with its file position; a cell of    *)
(* the ring holds the position of the byte last written to it, or Junk.    *)
(***************************************************************************)
EXTENDS Integers, Sequences

CONSTANTS
  FileSize,       \* bytes in the medium
  SectorSize,     \* cache_vars_t.sector_size
  CacheSize,      \* the size argument of stream_enable_cache
  MinSectors,     \* 16 in cache_init
  FillSectors,    \* 8 in cache_init
  ReadChunk,      \* stream->read_chunk, or 4 sectors when that is 0
  PrefillArg,     \* the min argument of stream_enable_cache
  SeekLimitArg,   \* the seek_limit argument of stream_enable_cache
  SeekTargets,    \* positions the player may seek to
  BackwardSeeks,  \* whether a seek may land behind the current position
  Chapters,       \* positions STREAM_CTRL_SEEK_TO_CHAPTER may lead to
  Queries,        \* whether the player asks STREAM_CTRL_GET_NUM_CHAPTERS
  Interrupts,     \* whether the user may interrupt a waiting reader
  HasControl,     \* whether the stream has a control function
  SeekFails,      \* whether the medium's seek may fail
  ReadFails,      \* whether a read may return nothing before the medium's end
  MaxCalls,       \* bound on the player's seeks and controls, and on positions
                  \* lost by a failed reconnect
  Junk            \* content of a cell never written

Max2(a, b) == IF a >= b THEN a ELSE b
Min2(a, b) == IF a <= b THEN a ELSE b

(* cache_init and the clamps of stream_enable_cache. *)
BufferSize == Max2(CacheSize \div SectorSize, MinSectors) * SectorSize
FillLimit  == FillSectors * SectorSize
BackSize   == BufferSize \div 2
SeekLimit  == Min2(SeekLimitArg, BufferSize - FillLimit)

Prefill    == Max2(1, Min2(PrefillArg, BufferSize - FillLimit))

ASSUME ConstantsAssumption ==
  /\ FileSize \in Nat /\ SectorSize \in Nat \ {0} /\ CacheSize \in Nat
  /\ MinSectors \in Nat /\ FillSectors \in Nat \ {0}
  /\ 2 * FillSectors <= MinSectors
  /\ ReadChunk \in Nat \ {0} /\ PrefillArg \in Nat /\ SeekLimitArg \in Nat
  /\ SeekTargets \subseteq Nat /\ Chapters \subseteq Nat
  /\ BackwardSeeks \in BOOLEAN /\ Queries \in BOOLEAN
  /\ Interrupts \in BOOLEAN /\ HasControl \in BOOLEAN
  /\ SeekFails \in BOOLEAN /\ ReadFails \in BOOLEAN
  /\ MaxCalls \in Nat /\ Junk \notin Int

Cells == 0 .. BufferSize - 1
Align(t) == (t \div SectorSize) * SectorSize

(* One correction by the buffer size, as cache_read computes a cell. *)
Wrap(d) == IF d < 0 THEN d + BufferSize
           ELSE IF d >= BufferSize THEN d - BufferSize ELSE d

Idle == "idle"
Reset == "RESET"                \* 0: what cache_init's memset leaves in control
SeekChapter == "SEEK_TO_CHAPTER"
NumChapters == "GET_NUM_CHAPTERS"
Ok == "STREAM_OK"
Unsupported == "STREAM_UNSUPPORTED"      \* or any result but STREAM_OK

VARIABLES
  \* the shared cache_vars_t
  buffer, min_filepos, max_filepos, offset, eof, read_filepos,
  control, control_uint_arg, control_res,
  \* the filler's stream_t: position and eof flag
  spos, seof,
  \* the reader: program counter, its stream_t (pos, buf_len, eof), the bytes
  \* still wanted and copied so far, and the copy in hand
  rpc, pos, buf_len, reof, want, got, newb, cell,
  calls,     \* what MaxCalls bounds, so far
  asked,     \* the control command and argument the reader last posted
  broken,    \* the current wait was ended by the interrupt callback
  \* the filler: program counter, its local copy of read_filepos, the value a
  \* flush stores, the stores not made yet, the write in hand
  fpc, fread, flushval, pend, wpos, space, len,
  done       \* the control command and argument last executed, or Nothing

shared == <<buffer, min_filepos, max_filepos, offset, eof, read_filepos>>
ctl    == <<control, control_uint_arg, control_res, asked, done, calls>>
stream == <<spos, seof>>
tell   == <<pos, buf_len, reof>>
copy   == <<want, got, newb, cell, broken>>
reader == <<rpc, tell, copy>>
filler == <<fpc, fread, flushval, pend, wpos, space, len>>
others == <<shared, ctl, stream, filler>>   \* all but the reader's
rest   == <<shared, ctl, stream, reader>>   \* all but the filler's
vars   == <<shared, ctl, stream, reader, filler>>

NoCmd == <<Idle, 0>>

(* A turn has stored an answer and executed no command. *)
Nothing == <<Reset, 0>>

Init ==
  /\ buffer = [c \in Cells |-> Junk]
  /\ min_filepos = 0 /\ max_filepos = 0 /\ offset = 0
  /\ eof = FALSE /\ read_filepos = 0
  /\ control = Reset /\ control_uint_arg = 0 /\ control_res = Unsupported
  /\ spos = 0 /\ seof = FALSE
  /\ rpc = "prefill" /\ pos = 0 /\ buf_len = 0 /\ reof = FALSE
  /\ want = 0 /\ got = <<>> /\ newb = 0 /\ cell = 0
  /\ asked = NoCmd /\ done = NoCmd /\ broken = FALSE /\ calls = 0
  /\ fpc = "load" /\ fread = 0 /\ flushval = 0 /\ pend = {}
  /\ wpos = 0 /\ space = 0 /\ len = 0

-----------------------------------------------------------------------------
(* The reader: stream_enable_cache's wait for the first bytes. *)

PrefillWait ==
  /\ rpc = "prefill"
  /\ \/ eof
     \/ /\ read_filepos >= min_filepos
        /\ max_filepos - read_filepos >= Prefill
  /\ rpc' = "idle"
  /\ UNCHANGED <<others, tell, copy>>

(* The user gives up: the player closes the stream. *)
PrefillInterrupt ==
  /\ Interrupts
  /\ rpc = "prefill"
  /\ rpc' = "gone"
  /\ UNCHANGED <<others, tell, copy>>

(* cache_stream_fill_buffer up to the call of cache_read. *)
StartRead ==
  /\ rpc = "idle"
  /\ rpc' = "max" /\ want' = SectorSize
  /\ UNCHANGED <<others, tell, got, newb, cell, broken>>

(* cache_stream_seek_long stores the new position ... *)
StartSeek(t) ==
  /\ rpc = "idle"
  /\ calls < MaxCalls /\ calls' = calls + 1
  /\ t < pos - buf_len \/ t >= pos        \* otherwise stream_seek is local
  /\ BackwardSeeks \/ Align(t) >= pos
  /\ pos' = Align(t) /\ read_filepos' = Align(t)
  /\ rpc' = "seek"
  /\ UNCHANGED <<buffer, min_filepos, max_filepos, offset, eof, control,
                 control_uint_arg, control_res, asked, done, stream, filler, buf_len,
                 reof, copy>>

(* ... then clears eof and falls into cache_stream_fill_buffer. *)
SeekClearEof ==
  /\ rpc = "seek"
  /\ eof' = FALSE
  /\ rpc' = "max" /\ want' = SectorSize
  /\ UNCHANGED <<buffer, min_filepos, max_filepos, offset, read_filepos, ctl,
                 stream, filler, tell, got, newb, cell, broken>>

-----------------------------------------------------------------------------
(* The reader: the loop of cache_read. *)

TestMax ==
  /\ rpc = "max"
  /\ IF read_filepos >= max_filepos
       THEN rpc' = "empty" /\ newb' = 0
       ELSE rpc' = "min" /\ newb' = max_filepos - read_filepos
  /\ UNCHANGED <<others, tell, want, got, cell, broken>>

TestMin ==
  /\ rpc = "min"
  /\ IF read_filepos < min_filepos
       THEN rpc' = "empty" /\ newb' = 0
       ELSE rpc' = "newb" /\ UNCHANGED newb
  /\ UNCHANGED <<others, tell, want, got, cell, broken>>

TestEof ==
  /\ rpc = "empty"
  /\ rpc' = IF eof THEN "deliver" ELSE "sleep"
  /\ UNCHANGED <<others, tell, copy>>

Retry ==
  /\ rpc = "sleep"
  /\ rpc' = "max"
  /\ UNCHANGED <<others, tell, copy>>

(* stream_check_interrupt returned nonzero. *)
ReadInterrupt ==
  /\ Interrupts
  /\ rpc = "sleep"
  /\ eof' = TRUE /\ broken' = TRUE /\ rpc' = "deliver"
  /\ UNCHANGED <<buffer, min_filepos, max_filepos, offset, read_filepos, ctl,
                 stream, filler, tell, want, got, newb, cell>>

(* max_filepos is a plain field: the build may load it again here or go on with
   the value it tested. *)
LoadNewb ==
  /\ rpc = "newb"
  /\ newb' \in {newb, max_filepos - read_filepos}
  /\ rpc' = "cell"
  /\ UNCHANGED <<others, tell, want, got, cell, broken>>

PieceUnasked(c) == Min2(newb, BufferSize - c)                  \* mutant
Piece(c) == Min2(Min2(newb, BufferSize - c), want)

LoadOffset ==
  /\ rpc = "cell"
  /\ LET c == Wrap(read_filepos - offset)
     IN  cell' = c /\ newb' = Piece(c)
  /\ rpc' = "copy"
  /\ UNCHANGED <<others, tell, want, got, broken>>

(* The memcpy; outside the ring it reads memory that is not the cache's, and
   a negative length is a huge size_t. *)
CopyFault ==
  /\ rpc = "copy" /\ newb < 0
  /\ rpc' = "fault"
  /\ UNCHANGED <<others, tell, copy>>

Copy ==
  /\ rpc = "copy" /\ newb >= 0
  /\ got' = got \o [i \in 1 .. newb |->
                      IF cell + i - 1 \in Cells THEN buffer[cell + i - 1]
                                                ELSE Junk]
  /\ rpc' = "advance"
  /\ UNCHANGED <<others, tell, want, newb, cell, broken>>

Advance ==
  /\ rpc = "advance"
  /\ read_filepos' = read_filepos + newb
  /\ want' = want - newb
  /\ rpc' = IF want' > 0 THEN "max" ELSE "deliver"
  /\ newb' = 0 /\ cell' = 0
  /\ UNCHANGED <<buffer, min_filepos, max_filepos, offset, eof, ctl, stream,
                 filler, tell, got, broken>>

(* cache_stream_fill_buffer after cache_read, and the caller's way out. *)
Deliver ==
  /\ rpc = "deliver"
  /\ reof' = (got = <<>>)
  /\ buf_len' = Len(got)
  /\ pos' = pos + Len(got)
  /\ rpc' = "idle"
  /\ want' = 0 /\ got' = <<>> /\ broken' = FALSE
  /\ UNCHANGED <<others, newb, cell>>

-----------------------------------------------------------------------------
(* The reader: cache_do_control.  The argument is stored before the command. *)

ArgLost(c, a) == control_uint_arg                              \* mutant
ArgFor(c, a) == IF c = SeekChapter THEN a ELSE control_uint_arg

StartControl(c, a) ==
  /\ rpc = "idle"
  /\ calls < MaxCalls /\ calls' = calls + 1
  /\ control_uint_arg' = ArgFor(c, a)
  /\ asked' = <<c, a>>
  /\ rpc' = "post"
  /\ UNCHANGED <<shared, control, control_res, done, stream, filler, tell,
                 copy>>

PostControl ==
  /\ rpc = "post"
  /\ control' = asked[1]
  /\ rpc' = "answer"
  /\ UNCHANGED <<shared, control_uint_arg, control_res, asked, done, calls,
                 stream, filler, tell, copy>>

(* The loop tests control, and sleeps while it is not -1 ... *)
ControlWait ==
  /\ rpc = "answer" /\ control # Idle
  /\ rpc' = "nap"
  /\ UNCHANGED <<others, tell, copy>>

ControlRetry ==
  /\ rpc = "nap"
  /\ rpc' = "answer"
  /\ UNCHANGED <<others, tell, copy>>

(* ... until it ends: a seek that worked moves the stream_t. *)
Moved == control_res = Ok /\ asked[1] = SeekChapter

ControlAnswered ==
  /\ rpc = "answer" /\ control = Idle
  /\ IF Moved
       THEN pos' = read_filepos /\ reof' = eof
       ELSE UNCHANGED <<pos, reof>>
  /\ rpc' = "idle"
  /\ UNCHANGED <<others, buf_len, copy>>

(* The sleep was interrupted: the command stays posted, if it has not been
   answered since the test. *)
ControlInterrupt ==
  /\ Interrupts
  /\ rpc = "nap"
  /\ eof' = TRUE
  /\ rpc' = "idle"
  /\ UNCHANGED <<buffer, min_filepos, max_filepos, offset, read_filepos, ctl,
                 stream, filler, tell, copy>>

-----------------------------------------------------------------------------
(* The filler: cache_fill.  It alone writes min, max and offset. *)

LoadRead ==
  /\ fpc = "load"
  /\ fread' = read_filepos /\ fpc' = "window"
  /\ UNCHANGED <<rest, flushval, pend, wpos, space, len>>

(* The position is out of reach: cache_flush loads read_filepos again ... *)
OutOfReach == fread < min_filepos \/ (fread > max_filepos /\ fread >= max_filepos + SeekLimit)

StartFlush ==
  /\ fpc = "window" /\ OutOfReach
  /\ flushval' = read_filepos
  /\ pend' = {"max", "min", "offset"} /\ fpc' = "flush"
  /\ UNCHANGED <<rest, fread, wpos, space, len>>

(* ... and stores it in three fields, in whatever order was compiled. *)
FlushStore(f) ==
  /\ fpc \in {"flush", "reseat"} /\ f \in pend
  /\ max_filepos' = IF f = "max" THEN flushval ELSE max_filepos
  /\ min_filepos' = IF f = "min" THEN flushval ELSE min_filepos
  /\ offset' = IF f = "offset" THEN flushval ELSE offset
  /\ eof' = IF f = "eof" THEN seof ELSE eof
  /\ pend' = pend \ {f}
  /\ fpc' = IF pend' # {} THEN fpc ELSE IF fpc = "flush" THEN "seek" ELSE "ack"
  /\ UNCHANGED <<buffer, read_filepos, ctl, stream, reader, fread, flushval,
                 wpos, space, len>>

(* stream_reset and stream_seek_internal, with the local read; the result is
   ignored, and a medium that cannot seek stays where it was. *)
FillSeek ==
  /\ fpc = "seek"
  /\ \/ spos' = fread
     \/ SeekFails /\ spos' = IF seof THEN 0 ELSE spos
  /\ seof' = FALSE
  /\ fpc' = "plan"
  /\ UNCHANGED <<shared, ctl, reader, fread, flushval, pend, wpos, space,
                 len>>

NoBack == 0                                                    \* mutant
Back   == Min2(Max2(fread - min_filepos, 0), BackSize)
Newb   == Max2(max_filepos - fread, 0)
FreeUnread == BufferSize - Back                                \* mutant
Free   == BufferSize - (Newb + Back)
FillAt == LET p == max_filepos - offset
          IN  IF p >= BufferSize THEN p - BufferSize ELSE p

AtPlan == fpc = "plan" \/ (fpc = "window" /\ ~OutOfReach)

BufferFull ==
  /\ AtPlan /\ Free < FillLimit
  /\ fpc' = "control"
  /\ UNCHANGED <<rest, fread, flushval, pend, wpos, space, len>>

(* Up to the end of the ring, or one sector across it; then the oldest bytes
   are given up before the stream overwrites them. *)
Room == LET toEnd == BufferSize - FillAt
            upTo  == IF Free <= toEnd THEN Free
                     ELSE IF toEnd >= SectorSize THEN toEnd ELSE SectorSize
        IN  Min2(upTo, ReadChunk)

KeptMin == min_filepos                                         \* mutant
NewMin  == Max2(min_filepos, fread - (BufferSize - (Room + Newb)))

PlanFill ==
  /\ AtPlan /\ Free >= FillLimit
  /\ wpos' = FillAt /\ space' = Room
  /\ min_filepos' = NewMin
  /\ fpc' = "read"
  /\ UNCHANGED <<buffer, max_filepos, offset, eof, read_filepos, ctl, stream,
                 reader, fread, flushval, pend, len>>

(* stream_read_internal: some bytes, or none and eof.  None come at the end of
   the medium, and before it from a read that fails (an error that reconnecting
   did not cure, a suspended dvdnav read).  The bytes past the end of the ring
   continue at its first cell. *)
Straight(n) == [c \in Cells |->                                \* mutant
                  IF c - wpos \in 0 .. n - 1 THEN spos + (c - wpos) ELSE buffer[c]]
Written(n) == [c \in Cells |->
                 LET i == IF c >= wpos THEN c - wpos ELSE c - wpos + BufferSize
                 IN  IF i \in 0 .. n - 1 THEN spos + i ELSE buffer[c]]

(* stream_reconnect resets the stream_t before each of its seeks. *)
PositionLost ==
  /\ SeekFails /\ ~seof /\ spos' = 0
  /\ calls < MaxCalls /\ calls' = calls + 1

FillRead(n) ==
  /\ fpc = "read"
  /\ n <= space /\ n <= Max2(FileSize - spos, 0)
  /\ n = 0 => spos >= FileSize \/ ReadFails
  /\ \/ spos' = spos + n /\ UNCHANGED calls
     \/ n = 0 /\ PositionLost
  /\ buffer' = Written(n) /\ seof' = (n = 0)
  /\ len' = n
  /\ pend' = {"eof", "max"} \cup (IF wpos + n >= BufferSize THEN {"offset"} ELSE {})
  /\ fpc' = "publish"
  /\ UNCHANGED <<min_filepos, max_filepos, offset, eof, read_filepos, control,
                 control_uint_arg, control_res, asked, done, reader, fread,
                 flushval, wpos, space>>

EofIfNone  == len = 0

Publish(f) ==
  /\ fpc = "publish" /\ f \in pend
  /\ eof' = IF f = "eof" THEN EofIfNone ELSE eof
  /\ max_filepos' = IF f = "max" THEN max_filepos + len ELSE max_filepos
  /\ offset' = IF f = "offset" THEN offset + BufferSize ELSE offset
  /\ pend' = pend \ {f}
  /\ fpc' = IF pend' # {} THEN "publish" ELSE "control"
  /\ UNCHANGED <<buffer, min_filepos, read_filepos, ctl, stream, reader,
                 fread, flushval, wpos, space, len>>

-----------------------------------------------------------------------------
(* The filler: cache_execute_control and the turn of cache_mainloop. *)

NoControl ==
  /\ fpc = "control" /\ HasControl /\ control = Idle
  /\ fpc' = "load" /\ fread' = 0 /\ flushval' = 0
  /\ wpos' = 0 /\ space' = 0 /\ len' = 0
  /\ UNCHANGED <<rest, pend>>

(* A stream without a control function answers in every turn, whatever control
   holds; the switch has no case for the 0 that memset left there.  What has
   been posted by the time of the acknowledgement is lost. *)
Refuse ==
  /\ fpc = "control" /\ (HasControl => control = Reset)
  /\ control_res' = Unsupported /\ done' = Nothing
  /\ fpc' = "ack"
  /\ UNCHANGED <<shared, control, control_uint_arg, asked, calls, stream, reader,
                 fread, flushval, pend, wpos, space, len>>

(* The stream's control runs on the command and argument found posted.  A seek
   that works moves the stream; some media clear its eof flag, some do not. *)
ExecuteControl ==
  /\ fpc = "control" /\ HasControl /\ control \notin {Idle, Reset}
  /\ done' = <<control, IF control = SeekChapter THEN control_uint_arg ELSE 0>>
  /\ \/ /\ control_res' = Unsupported /\ fpc' = "ack"
        /\ UNCHANGED <<spos, seof, control_uint_arg>>
     \/ /\ control = NumChapters
        /\ control_res' = Ok /\ control_uint_arg' = FileSize /\ fpc' = "ack"
        /\ UNCHANGED <<spos, seof>>
     \/ /\ control = SeekChapter
        /\ control_res' = Ok /\ spos' = control_uint_arg
        /\ seof' \in {seof, FALSE} /\ fpc' = "moved"
        /\ UNCHANGED control_uint_arg
  /\ UNCHANGED <<shared, control, asked, calls, reader, fread, flushval, pend,
                 wpos, space, len>>

(* The seek worked: read_filepos, eof and the window follow the stream. *)
EofOnly == {"eof"}                                             \* mutant
ReseatFields == {"eof", "max", "min", "offset"}

Reseat ==
  /\ fpc = "moved"
  /\ read_filepos' = spos /\ flushval' = spos
  /\ pend' = ReseatFields /\ fpc' = "reseat"
  /\ UNCHANGED <<buffer, min_filepos, max_filepos, offset, eof, ctl, stream,
                 reader, fread, wpos, space, len>>

Unacknowledged == control                                      \* mutant
Acknowledged == Idle

Acknowledge ==
  /\ fpc = "ack"
  /\ control' = Acknowledged
  /\ fpc' = "load" /\ fread' = 0 /\ flushval' = 0
  /\ wpos' = 0 /\ space' = 0 /\ len' = 0
  /\ UNCHANGED <<shared, control_uint_arg, control_res, asked, done, calls,
                 stream, reader, pend>>

-----------------------------------------------------------------------------
Player ==
  \/ StartRead
  \/ \E t \in SeekTargets : StartSeek(t)
  \/ \E a \in Chapters : StartControl(SeekChapter, a)
  \/ Queries /\ StartControl(NumChapters, 0)

Interrupt == PrefillInterrupt \/ ReadInterrupt \/ ControlInterrupt

(* What the reader does on its own once the player has called it. *)
ReaderStep ==
  \/ PrefillWait \/ SeekClearEof \/ TestMax \/ TestMin \/ TestEof \/ Retry
  \/ LoadNewb \/ LoadOffset \/ Copy \/ CopyFault \/ Advance \/ Deliver
  \/ PostControl \/ ControlWait \/ ControlRetry \/ ControlAnswered

FillerStep ==
  \/ LoadRead \/ StartFlush \/ FillSeek \/ BufferFull \/ PlanFill
  \/ \E f \in {"max", "min", "offset", "eof"} : FlushStore(f) \/ Publish(f)
  \/ \E n \in 0 .. BufferSize : FillRead(n)
  \/ NoControl \/ Refuse \/ ExecuteControl \/ Reseat \/ Acknowledge

Next == Player \/ Interrupt \/ ReaderStep \/ FillerStep

Spec == Init /\ [][Next]_vars

(* Both threads are scheduled again and again (equal priorities), and the
   medium's read returns; nothing obliges the player to call or to interrupt. *)
Fairness == WF_vars(ReaderStep) /\ WF_vars(FillerStep)
FairSpec == Spec /\ Fairness

-----------------------------------------------------------------------------
(* Properties. *)

Reading == {"max", "min", "empty", "sleep", "newb", "cell", "copy", "advance", "deliver"}

Commands == {SeekChapter, NumChapters}

SharedType ==
  /\ buffer \in [Cells -> Nat \cup {Junk}]
  /\ min_filepos \in Int /\ max_filepos \in Nat /\ offset \in Nat
  /\ eof \in BOOLEAN /\ read_filepos \in Nat

ControlType ==
  /\ control \in {Idle, Reset} \cup Commands
  /\ control_uint_arg \in Nat /\ control_res \in {Ok, Unsupported}
  /\ asked \in ({Idle} \cup Commands) \X Nat
  /\ done \in ({Idle, Reset} \cup Commands) \X Nat
  /\ calls \in Nat

ReaderType ==
  /\ rpc \in Reading \cup {"prefill", "gone", "fault", "idle", "seek", "post", "answer", "nap"}
  /\ pos \in Nat /\ buf_len \in 0 .. SectorSize /\ reof \in BOOLEAN
  /\ want \in 0 .. SectorSize /\ got \in Seq(Nat \cup {Junk})
  /\ newb \in Int /\ cell \in Int /\ broken \in BOOLEAN

FillerType ==
  /\ spos \in Nat /\ seof \in BOOLEAN
  /\ fpc \in {"load", "window", "flush", "seek", "plan", "read", "publish",
              "control", "moved", "reseat", "ack"}
  /\ fread \in Nat /\ flushval \in Nat
  /\ pend \subseteq {"eof", "max", "min", "offset"}
  /\ wpos \in Int /\ space \in Int /\ len \in Nat

(* The bytes copied and the bytes still wanted add up to one sector.  The
   length of a copy is bounded from above only: CopyFault. *)
Accounting ==
  /\ rpc \notin Reading \cup {"fault"} => got = <<>>
  /\ rpc \in Reading /\ rpc # "advance" => Len(got) + want = SectorSize
  /\ rpc = "copy" => newb <= want
  /\ rpc = "advance" => newb \in 0 .. want /\ Len(got) + want = SectorSize + newb

(* Every field stays in its range and a call keeps count of its bytes
   (cache2.c:211-226), whatever the filler does.  newb may be negative: that
   nothing is copied outside the ring is CopyInBounds, for playback only. *)
TypeOK == SharedType /\ ControlType /\ ReaderType /\ FillerType /\ Accounting

(* The bytes handed to the player are the medium's bytes at the stream's
   position (memcpy at cache2.c:219, bookkeeping at 224-226 and 674). *)
DeliveredIsFile ==
  rpc = "deliver" => \A i \in 1 .. Len(got) : got[i] = pos + i - 1

(* The memcpy of cache_read stays inside the ring (cache2.c:207-219). *)
CopyInBounds ==
  rpc = "copy" => newb >= 0 /\ cell >= 0 /\ cell + newb <= BufferSize

(* The cells the reader copies and the cells the filler's read writes are
   disjoint at every moment: the claim behind "doesn't require locking". *)
WrapsTo(c, start, n) == \E i \in 0 .. n - 1 : c = (IF start + i >= BufferSize
                                           THEN start + i - BufferSize ELSE start + i)
NoOverlap ==
  rpc = "copy" /\ fpc = "read" =>
    \A c \in Cells : ~ (WrapsTo(c, cell, newb) /\ WrapsTo(c, wpos, space))

(* "buffer contain only a part of the file, from min-max pos" (cache2.c:88):
   between flushes every position of the window is in its cell. *)
WindowIsFile ==
  fpc \notin {"flush", "reseat"} =>
    \A p \in min_filepos .. max_filepos - 1 : buffer[Wrap(p - offset)] = p

(* A short or empty fill that nobody interrupted happens only once the filler
   has met the end of the medium (cache2.c:184-186, 670), on a medium whose reads
   do not fail and without chapters (EofMeansEnd).  The player may have bytes
   left even so: they can be appended between its two tests. *)
EofAfterEnd ==
  rpc = "deliver" /\ Len(got) < SectorSize /\ ~broken => spos >= FileSize

(* cache_stream_fill_buffer's own check: "!!! read_filepos differs!!! report
   this bug..." (cache2.c:660). *)
PosAgrees == rpc = "idle" => pos = read_filepos

(* A command's answer is that of its own execution, with its own argument; or it
   is a refusal, by a turn that executed nothing (cache2.c:331-336, 390-401).
   Success is never that of another command, or of none. *)
Awaiting == rpc \in {"answer", "nap"}
Refused  == done = Nothing /\ control_res = Unsupported
AnswerIsOwn == Awaiting /\ control = Idle => done = asked \/ Refused

(* "we should keep back_size amount of old bytes for backward seek"
   (cache2.c:80): what a fill gives up is older than that. *)
BackKept ==
  [][fpc' = "read" /\ min_filepos' # min_filepos
       => min_filepos' <= fread - BackSize]_vars

(* No call of the player waits for ever, with no help from the user: the prefill
   ends, a read finds bytes or eof, a control is answered.  A call returns, or it
   runs into the copy that crashes (CopyFault). *)
Waits == Reading \cup {"prefill", "seek", "post", "answer", "nap"}
NoCallHangs == rpc \in Waits ~> rpc \notin Waits

-----------------------------------------------------------------------------
(* Controls: a command is posted by a reader that waits for it, and is what the
   reader asked for until the filler has executed it. *)

(* The filler is between an answer and its acknowledgement; it may be the
   answer to nothing. *)
Executed == fpc \in {"moved", "reseat", "ack"}
Refusing == fpc = "ack" /\ Refused

(* The argument stored is the one asked for. *)
ArgStored == IF asked[1] = SeekChapter THEN control_uint_arg = asked[2] ELSE asked[2] = 0

AskInv ==
  /\ ~HasControl => control_res = Unsupported
  /\ rpc = "post" \/ Awaiting => asked[1] \in Commands
  /\ rpc = "post" => ArgStored
  /\ ~Awaiting => control \in {Idle, Reset}
  /\ Awaiting /\ control # Idle => control = asked[1] /\ (ArgStored \/ (Executed /\ ~Refusing))
  /\ Executed /\ ~Refusing => Awaiting /\ control = asked[1] /\ done = asked
  /\ AnswerIsOwn

-----------------------------------------------------------------------------
(* Playback: reads, seeks that land ahead of the reader and inside the medium,
   queries, and chapters of the medium anywhere.  The reader's position then
   never falls behind the filler's copy of it, which is what the ring relies on
   instead of a lock; PlayInv says how, and is inductive.

   Failing reads and seeks ahead exclude each other: eof published for a failed
   read ends the wait at a position sought, the player may seek further, and
   cache_flush then files the bytes of the first position under the second. *)

PlaybackOnly ==
  /\ ~BackwardSeeks /\ ~Interrupts /\ ~SeekFails
  /\ \A t \in SeekTargets \cup Chapters : t < FileSize
  /\ ReadFails => SeekTargets = {}

Flushing == fpc \in {"flush", "seek"}
Moving   == fpc \in {"moved", "reseat"}
Waiting  == {"seek", "max", "empty", "sleep"}
Holding  == {"newb", "cell", "copy", "advance"}

(* max_filepos and offset as they are once all stores of a fill are made. *)
NewMax == IF fpc = "publish" /\ "max" \in pend THEN max_filepos + len ELSE max_filepos
NewOffset == IF fpc = "publish" /\ "offset" \in pend THEN offset + BufferSize ELSE offset

(* The stream has gone to a chapter and the reader has not been told yet. *)
Relocated == Awaiting /\ Moved /\ (control = Idle \/ Executed)

(* The stream moves only for the reader that waits for its chapter; the window
   then follows it, store by store. *)
MoveInv ==
  /\ AskInv
  /\ asked[1] = SeekChapter => asked[2] \in Chapters
  /\ Moving => control = SeekChapter /\ control_res = Ok /\ spos <= FileSize
  /\ fpc = "reseat" => /\ flushval = spos /\ read_filepos = spos
                       /\ "max" \notin pend => max_filepos = spos
                       /\ "min" \notin pend => min_filepos = spos
                       /\ "offset" \notin pend => offset = spos

(* A chapter may carry eof from the medium's end to anywhere, and a read that
   fails sets it anywhere. *)
EofMeansEnd == Chapters = {} /\ ~ReadFails

(* The window follows the stream: it ends where the stream stands and fits the
   ring. *)
WindowInv ==
  /\ NewMax <= FileSize /\ 0 <= min_filepos
  /\ EofMeansEnd /\ eof => spos >= FileSize
  /\ ~Flushing /\ ~Moving => /\ spos = NewMax /\ NewMax - min_filepos <= BufferSize
                             /\ 0 <= NewMax - NewOffset /\ NewMax - NewOffset < BufferSize

(* The filler's copy of the reader's position, and what it makes of it: it is
   ahead of the window only if the reader waits there, and a flush serves it. *)
TurnInv ==
  /\ fpc \in {"window", "plan"} => fread <= read_filepos
  /\ fpc = "window" => min_filepos <= fread
  /\ fpc = "window" /\ fread > max_filepos => read_filepos = fread
  /\ fpc = "plan" => fread = max_filepos /\ min_filepos = max_filepos
  /\ Flushing => /\ read_filepos = fread /\ spos < fread
                 /\ rpc \in Waiting /\ (eof => rpc = "seek")
  /\ fpc = "flush" => /\ flushval = fread /\ pend \subseteq {"max", "min", "offset"}
                      /\ "max" \in pend => max_filepos < fread
                      /\ "max" \notin pend => max_filepos = fread
                      /\ "min" \notin pend => min_filepos = fread
                      /\ "offset" \notin pend => offset = fread
  /\ fpc = "seek" => max_filepos = fread /\ min_filepos = fread /\ offset = fread

(* The write in hand continues the window and fits the ring with it; nothing
   more is read only at the medium's end or by a read that failed. *)
WriteInv ==
  /\ fpc = "read" => /\ wpos = max_filepos - offset
                     /\ space \in 1 .. BufferSize
                     /\ max_filepos + space - min_filepos <= BufferSize
  /\ fpc = "publish" /\ len = 0 => spos >= FileSize \/ ReadFails

(* Every position of the window, and of a fill not published yet, is in its
   cell. *)
CellsInv ==
  ~Flushing /\ fpc # "reseat" =>
    \A p \in min_filepos .. NewMax - 1 : buffer[Wrap(p - offset)] = p

(* The reader is never behind the window and ahead of it only while it waits,
   with eof cleared; unless reads fail a short fill is at the medium's end. *)
ReaderInv ==
  /\ fpc # "reseat" => min_filepos <= read_filepos
  /\ fpc # "reseat" /\ read_filepos > max_filepos => rpc \in Waiting /\ (eof => rpc = "seek")
  /\ read_filepos <= FileSize
  /\ rpc \notin Reading /\ ~Relocated => pos = read_filepos
  /\ rpc \in Reading \ {"advance"} => read_filepos = pos + Len(got)
  /\ rpc = "advance" => read_filepos + newb = pos + Len(got)
  /\ ReadFails /\ fpc # "reseat" => read_filepos <= max_filepos
  /\ EofMeansEnd /\ rpc = "deliver" /\ Len(got) < SectorSize => spos >= FileSize

(* It holds cells of the window only, and copies what they hold. *)
CopyInv ==
  /\ rpc \in {"min"} \cup Holding => 0 <= newb /\ newb <= max_filepos - read_filepos
  /\ rpc \in {"copy", "advance"} => /\ cell = Wrap(read_filepos - offset)
                                    /\ cell + newb <= BufferSize
  /\ \A i \in 1 .. Len(got) : got[i] = pos + i - 1

PlayInv == TypeOK /\ MoveInv /\ WindowInv /\ TurnInv /\ WriteInv /\ CellsInv /\ ReaderInv /\ CopyInv

(* What the player sees of the cache during playback without chapters is a plain
   reader of the medium: got is what has been fetched, the medium has ended once
   the filler stands at its end. *)
Medium == INSTANCE MediumReader
            WITH out <- got, ended <- spos >= FileSize, MayFail <- ReadFails
ReadsMedium == Medium!Spec

=============================================================================
