---------------------------- MODULE Cache2_proofs ----------------------------
(***************************************************************************)
(* Proofs about Cache2 for every medium, buffer and sector size.           *)
(***************************************************************************)
EXTENDS Cache2, TLAPS

USE ConstantsAssumption

(* The sizes cache_init and stream_enable_cache compute: a sector fits the
   fill limit and the fill limit fits the ring. *)
LEMMA Sizes ==
  /\ BufferSize \in Nat /\ FillLimit \in Nat /\ BackSize \in Nat
  /\ SeekLimit \in Nat /\ Prefill \in Nat
  /\ SectorSize <= FillLimit /\ FillLimit <= BufferSize
<1> DEFINE num == Max2(CacheSize \div SectorSize, MinSectors)
<1>1. CacheSize \div SectorSize \in Nat
  BY SMT
<1>2. num \in Nat /\ num >= MinSectors
  BY <1>1 DEF Max2
<1>3. FillSectors \in Nat /\ FillSectors >= 1 /\ FillSectors <= num
  BY <1>2
<1> HIDE DEF num
<1>4. num * SectorSize \in Nat /\ FillSectors * SectorSize \in Nat
  BY <1>2, <1>3
<1>5. SectorSize <= FillSectors * SectorSize
  BY <1>3
<1>6. FillSectors * SectorSize <= num * SectorSize
  BY <1>2, <1>3
<1>7. (num * SectorSize) \div 2 \in Nat
  BY <1>4
<1> QED
  BY <1>4, <1>5, <1>6, <1>7
  DEF BufferSize, FillLimit, BackSize, SeekLimit, Prefill, Max2, Min2, num

(* A sector-aligned position is a position at or below the one asked for. *)
LEMMA AlignNat == ASSUME NEW t \in Nat PROVE Align(t) \in Nat /\ Align(t) <= t
<1>1. t \div SectorSize \in Nat
  BY SMT
<1> QED
  BY <1>1 DEF Align

-----------------------------------------------------------------------------
(* Type correctness, for any player and any medium. *)

(* Appending a run of n bytes to what has been copied. *)
LEMMA AppendRun ==
  ASSUME NEW s \in Seq(Nat \cup {Junk}), NEW n \in Nat,
         NEW f \in [1 .. n -> Nat \cup {Junk}]
  PROVE  s \o f \in Seq(Nat \cup {Junk}) /\ Len(s \o f) = Len(s) + n
<1>1. f \in Seq(Nat \cup {Junk}) /\ Len(f) = n
  OBVIOUS
<1> QED
  BY <1>1, SMTT(30)

LEMMA EmptyRun == <<>> \in Seq(Nat \cup {Junk}) /\ Len(<<>>) = 0
  OBVIOUS

LEMMA TypeInit == Init => TypeOK
<1> SUFFICES ASSUME Init PROVE TypeOK
  OBVIOUS
<1> USE Sizes, EmptyRun DEF Init, Reading, NoCmd, Idle, Reset, Commands, SeekChapter, NumChapters, Ok,
        Unsupported
<1>1. SharedType
  <2>1. buffer \in [Cells -> Nat \cup {Junk}]
    OBVIOUS
  <2> QED
    BY <2>1 DEF SharedType
<1>2. ControlType
  <2>1. asked = <<"idle", 0>> /\ done = <<"idle", 0>>
    OBVIOUS
  <2>2. /\ control = "RESET" /\ control_uint_arg = 0 /\ control_res = "STREAM_UNSUPPORTED"
        /\ calls = 0
    OBVIOUS
  <2> HIDE DEF Init
  <2> QED
    BY <2>1, <2>2 DEF ControlType
<1>3. ReaderType
  <2>1. rpc = "prefill" /\ pos = 0 /\ buf_len = 0 /\ want = 0 /\ newb = 0 /\ cell = 0
    OBVIOUS
  <2>2. reof \in BOOLEAN /\ broken \in BOOLEAN /\ got \in Seq(Nat \cup {Junk})
    OBVIOUS
  <2>3. 0 \in 0 .. SectorSize
    OBVIOUS
  <2>4. /\ rpc \in Reading \cup {"prefill", "gone", "fault", "idle", "seek", "post", "answer",
                                 "nap"}
        /\ pos \in Nat /\ buf_len \in 0 .. SectorSize /\ want \in 0 .. SectorSize
        /\ newb \in Int /\ cell \in Int
    BY <2>1, <2>3
  <2> HIDE DEF Init
  <2> HIDE DEF Reading
  <2> QED
    BY <2>2, <2>4, Zenon DEF ReaderType
<1>4. FillerType
  <2>1. spos \in Nat /\ fread \in Nat /\ flushval \in Nat /\ len \in Nat
    OBVIOUS
  <2>2. wpos = 0 /\ space = 0 /\ seof = FALSE
    OBVIOUS
  <2>3. fpc = "load" /\ pend = {}
    OBVIOUS
  <2>4. wpos \in Int /\ space \in Int
    BY <2>2
  <2> HIDE DEF Init
  <2> QED
    BY <2>1, <2>2, <2>3, <2>4, Zenon DEF FillerType
<1>5. Accounting
  BY DEF Accounting
<1> QED
  BY <1>1, <1>2, <1>3, <1>4, <1>5 DEF TypeOK

(* What the player and the user may do. *)
LEMMA TypePlayer == TypeOK /\ (Player \/ Interrupt) => TypeOK'
<1> SUFFICES ASSUME TypeOK, Player \/ Interrupt PROVE TypeOK'
  OBVIOUS
<1> USE Sizes, EmptyRun
    DEF TypeOK, Reading, others, rest, shared, ctl, stream, tell, copy, reader, filler,
        Idle, Reset, Commands, SeekChapter, NumChapters, Ok, Unsupported
<1>1. CASE StartRead
  <2>1. SharedType' /\ ControlType' /\ FillerType'
    BY <1>1 DEF StartRead, SharedType, ControlType, FillerType
  <2>2. ReaderType'
    BY <1>1 DEF StartRead, ReaderType, SharedType
  <2>3. Accounting'
    BY <1>1 DEF StartRead, Accounting, ReaderType
  <2> QED
    BY <2>1, <2>2, <2>3
<1>2. CASE PrefillInterrupt
  <2>1. SharedType' /\ ControlType' /\ FillerType'
    BY <1>2 DEF PrefillInterrupt, SharedType, ControlType, FillerType
  <2>2. ReaderType'
    BY <1>2 DEF PrefillInterrupt, ReaderType, SharedType
  <2>3. Accounting'
    BY <1>2 DEF PrefillInterrupt, Accounting, ReaderType
  <2> QED
    BY <2>1, <2>2, <2>3
<1>3. CASE ReadInterrupt
  <2>1. SharedType' /\ ControlType' /\ FillerType'
    BY <1>3 DEF ReadInterrupt, SharedType, ControlType, FillerType
  <2>2. ReaderType'
    BY <1>3 DEF ReadInterrupt, ReaderType, SharedType
  <2>3. Accounting'
    BY <1>3 DEF ReadInterrupt, Accounting, ReaderType
  <2> QED
    BY <2>1, <2>2, <2>3
<1>4. CASE ControlInterrupt
  <2>1. SharedType' /\ ControlType' /\ FillerType'
    BY <1>4 DEF ControlInterrupt, SharedType, ControlType, FillerType
  <2>2. ReaderType'
    BY <1>4 DEF ControlInterrupt, ReaderType, SharedType
  <2>3. Accounting'
    BY <1>4 DEF ControlInterrupt, Accounting, ReaderType
  <2> QED
    BY <2>1, <2>2, <2>3
<1>5. ASSUME NEW t \in SeekTargets, StartSeek(t) PROVE TypeOK'
  <2>1. Align(t) \in Nat
    BY AlignNat
  <2>2. SharedType' /\ ControlType' /\ FillerType'
    BY <1>5, <2>1 DEF StartSeek, SharedType, ControlType, FillerType
  <2>3. ReaderType' /\ Accounting'
    BY <1>5, <2>1 DEF StartSeek, ReaderType, Accounting
  <2> QED
    BY <2>2, <2>3
<1>6. ASSUME NEW c \in {SeekChapter, NumChapters}, NEW a \in Nat, StartControl(c, a)
      PROVE  TypeOK'
  <2>1. SharedType' /\ ControlType' /\ FillerType'
    BY <1>6 DEF StartControl, ArgFor, SharedType, ControlType, FillerType
  <2>2. ReaderType' /\ Accounting'
    BY <1>6 DEF StartControl, ReaderType, Accounting
  <2> QED
    BY <2>1, <2>2
<1> QED
  BY <1>1, <1>2, <1>3, <1>4, <1>5, <1>6 DEF Player, Interrupt

(* What the reader does once it has been called. *)
LEMMA TypeReader == TypeOK /\ ReaderStep => TypeOK'
<1> SUFFICES ASSUME TypeOK, ReaderStep PROVE TypeOK'
  OBVIOUS
<1> USE Sizes, EmptyRun
    DEF TypeOK, Reading, others, rest, shared, ctl, stream, tell, copy, reader, filler,
        Idle, Reset, Commands, SeekChapter, NumChapters, Ok, Unsupported
<1>1. CASE PrefillWait
  <2>1. SharedType' /\ ControlType' /\ FillerType'
    BY <1>1 DEF PrefillWait, SharedType, ControlType, FillerType
  <2>2. ReaderType'
    BY <1>1 DEF PrefillWait, ReaderType, SharedType
  <2>3. Accounting'
    BY <1>1 DEF PrefillWait, Accounting, ReaderType
  <2> QED
    BY <2>1, <2>2, <2>3
<1>2. CASE SeekClearEof
  <2>1. SharedType' /\ ControlType' /\ FillerType'
    BY <1>2 DEF SeekClearEof, SharedType, ControlType, FillerType
  <2>2. ReaderType'
    BY <1>2 DEF SeekClearEof, ReaderType, SharedType
  <2>3. Accounting'
    BY <1>2 DEF SeekClearEof, Accounting, ReaderType
  <2> QED
    BY <2>1, <2>2, <2>3
<1>3. CASE TestMax
  <2>1. SharedType' /\ ControlType' /\ FillerType'
    BY <1>3 DEF TestMax, SharedType, ControlType, FillerType
  <2>2. ReaderType'
    BY <1>3 DEF TestMax, ReaderType, SharedType
  <2>3. Accounting'
    BY <1>3 DEF TestMax, Accounting, ReaderType
  <2> QED
    BY <2>1, <2>2, <2>3
<1>4. CASE TestMin
  <2>1. SharedType' /\ ControlType' /\ FillerType'
    BY <1>4 DEF TestMin, SharedType, ControlType, FillerType
  <2>2. ReaderType'
    BY <1>4 DEF TestMin, ReaderType, SharedType
  <2>3. Accounting'
    BY <1>4 DEF TestMin, Accounting, ReaderType
  <2> QED
    BY <2>1, <2>2, <2>3
<1>5. CASE TestEof
  <2>1. SharedType' /\ ControlType' /\ FillerType'
    BY <1>5 DEF TestEof, SharedType, ControlType, FillerType
  <2>2. ReaderType'
    BY <1>5 DEF TestEof, ReaderType, SharedType
  <2>3. Accounting'
    BY <1>5 DEF TestEof, Accounting, ReaderType
  <2> QED
    BY <2>1, <2>2, <2>3
<1>6. CASE Retry
  <2>1. SharedType' /\ ControlType' /\ FillerType'
    BY <1>6 DEF Retry, SharedType, ControlType, FillerType
  <2>2. ReaderType'
    BY <1>6 DEF Retry, ReaderType, SharedType
  <2>3. Accounting'
    BY <1>6 DEF Retry, Accounting, ReaderType
  <2> QED
    BY <2>1, <2>2, <2>3
<1>7. CASE LoadNewb
  <2>1. SharedType' /\ ControlType' /\ FillerType'
    BY <1>7 DEF LoadNewb, SharedType, ControlType, FillerType
  <2>2. ReaderType'
    BY <1>7 DEF LoadNewb, ReaderType, SharedType
  <2>3. Accounting'
    BY <1>7 DEF LoadNewb, Accounting, ReaderType
  <2> QED
    BY <2>1, <2>2, <2>3
<1>8. CASE LoadOffset
  <2>1. SharedType' /\ ControlType' /\ FillerType'
    BY <1>8 DEF LoadOffset, Piece, Wrap, Min2, SharedType, ControlType, FillerType
  <2>2. ReaderType'
    BY <1>8 DEF LoadOffset, Piece, Wrap, Min2, ReaderType, SharedType
  <2>3. Accounting'
    BY <1>8 DEF LoadOffset, Piece, Wrap, Min2, Accounting, ReaderType
  <2> QED
    BY <2>1, <2>2, <2>3
<1>9. CASE Copy
  <2> DEFINE f == [i \in 1 .. newb |->
                     IF cell + i - 1 \in Cells THEN buffer[cell + i - 1] ELSE Junk]
  <2>1. SharedType' /\ ControlType' /\ FillerType'
    BY <1>9 DEF Copy, SharedType, ControlType, FillerType
  <2>2. /\ rpc = "copy" /\ rpc' = "advance" /\ newb >= 0
        /\ UNCHANGED <<pos, buf_len, reof, want, newb, cell, broken>>
    BY <1>9 DEF Copy
  <2>3. got' = got \o f
    BY <1>9 DEF Copy
  <2>4. newb \in Nat /\ f \in [1 .. newb -> Nat \cup {Junk}]
    BY <2>2 DEF SharedType, ReaderType
  <2>5. got \in Seq(Nat \cup {Junk})
    BY DEF ReaderType
  <2> HIDE DEF f
  <2>6. got' \in Seq(Nat \cup {Junk}) /\ Len(got') = Len(got) + newb
    BY <2>3, <2>4, <2>5, AppendRun
  <2>7. ReaderType'
    BY <2>2, <2>6 DEF ReaderType
  <2>8. Len(got) + want = SectorSize /\ newb <= want
    BY <2>2 DEF Accounting
  <2>9. Len(got) \in Nat /\ want \in Nat
    BY <2>5 DEF ReaderType
  <2>10. newb' \in 0 .. want' /\ Len(got') + want' = SectorSize + newb'
    BY <2>2, <2>4, <2>6, <2>8, <2>9
  <2>11. Accounting'
    BY <2>2, <2>10 DEF Accounting
  <2> QED
    BY <2>1, <2>7, <2>11
<1>10. CASE CopyFault
  <2>1. SharedType' /\ ControlType' /\ FillerType'
    BY <1>10 DEF CopyFault, SharedType, ControlType, FillerType
  <2>2. ReaderType'
    BY <1>10 DEF CopyFault, ReaderType, SharedType
  <2>3. Accounting'
    BY <1>10 DEF CopyFault, Accounting, ReaderType
  <2> QED
    BY <2>1, <2>2, <2>3
<1>11. CASE Advance
  <2>1. SharedType' /\ ControlType' /\ FillerType'
    BY <1>11 DEF Advance, SharedType, ControlType, FillerType, Accounting, ReaderType
  <2>2. ReaderType'
    BY <1>11 DEF Advance, ReaderType, SharedType, Accounting
  <2>3. Accounting'
    BY <1>11 DEF Advance, Accounting, ReaderType
  <2> QED
    BY <2>1, <2>2, <2>3
<1>12. CASE Deliver
  <2>1. SharedType' /\ ControlType' /\ FillerType'
    BY <1>12 DEF Deliver, SharedType, ControlType, FillerType
  <2>2. ReaderType'
    <3>1. Len(got) \in 0 .. SectorSize
      BY <1>12 DEF Deliver, ReaderType, Accounting
    <3>2. reof' \in BOOLEAN
      BY <1>12, Zenon DEF Deliver
    <3>3. /\ rpc' = "idle" /\ pos' = pos + Len(got) /\ buf_len' = Len(got)
          /\ want' = 0 /\ got' = <<>> /\ broken' = FALSE
          /\ newb' = newb /\ cell' = cell
      BY <1>12 DEF Deliver
    <3>4. pos \in Nat /\ newb \in Int /\ cell \in Int
      BY DEF ReaderType
    <3> QED
      <4>1. 0 \in 0 .. SectorSize
        OBVIOUS
      <4>2. rpc' \in Reading \cup {"prefill", "gone", "fault", "idle", "seek", "post",
                                  "answer", "nap"}
        BY <3>3
      <4>3. pos' \in Nat /\ buf_len' \in 0 .. SectorSize
        BY <3>1, <3>3, <3>4
      <4>4. want' \in 0 .. SectorSize /\ got' \in Seq(Nat \cup {Junk})
        BY <3>3, <4>1
      <4>5. newb' \in Int /\ cell' \in Int /\ broken' \in BOOLEAN
        BY <3>3, <3>4
      <4> QED
        BY <3>2, <4>2, <4>3, <4>4, <4>5 DEF ReaderType
  <2>3. Accounting'
    BY <1>12 DEF Deliver, Accounting, ReaderType
  <2> QED
    BY <2>1, <2>2, <2>3
<1>13. CASE PostControl
  <2>1. SharedType' /\ ControlType' /\ FillerType'
    BY <1>13 DEF PostControl, SharedType, ControlType, FillerType
  <2>2. ReaderType'
    BY <1>13 DEF PostControl, ReaderType, SharedType
  <2>3. Accounting'
    BY <1>13 DEF PostControl, Accounting, ReaderType
  <2> QED
    BY <2>1, <2>2, <2>3
<1>14. CASE ControlAnswered
  <2>1. SharedType' /\ ControlType' /\ FillerType'
    BY <1>14 DEF ControlAnswered, Moved, SharedType, ControlType, FillerType
  <2>2. ReaderType'
    BY <1>14 DEF ControlAnswered, Moved, ReaderType, SharedType
  <2>3. Accounting'
    BY <1>14 DEF ControlAnswered, Moved, Accounting, ReaderType
  <2> QED
    BY <2>1, <2>2, <2>3
<1>15. CASE ControlWait \/ ControlRetry
  <2>0. UNCHANGED others
    BY <1>15 DEF ControlWait, ControlRetry
  <2>1. SharedType' /\ ControlType' /\ FillerType'
    BY <2>0 DEF SharedType, ControlType, FillerType
  <2>2. ReaderType' /\ Accounting'
    BY <1>15 DEF ControlWait, ControlRetry, ReaderType, Accounting
  <2> QED
    BY <2>1, <2>2
<1> QED
  BY <1>1, <1>2, <1>3, <1>4, <1>5, <1>6, <1>7, <1>8, <1>9, <1>10, <1>11, <1>12,
     <1>13, <1>14, <1>15 DEF ReaderStep

(* What the filler does. *)
LEMMA TypeFiller == TypeOK /\ FillerStep => TypeOK'
<1> SUFFICES ASSUME TypeOK, FillerStep PROVE TypeOK'
  OBVIOUS
<1> USE Sizes, EmptyRun
    DEF TypeOK, Reading, others, rest, shared, ctl, stream, tell, copy, reader, filler,
        Idle, Reset, Commands, SeekChapter, NumChapters, Ok, Unsupported
<1>1. CASE LoadRead
  <2>1. SharedType' /\ ControlType' /\ FillerType'
    BY <1>1 DEF LoadRead, SharedType, ControlType, FillerType
  <2>2. ReaderType' /\ Accounting'
    BY <1>1 DEF LoadRead, ReaderType, Accounting
  <2> QED
    BY <2>1, <2>2
<1>2. CASE StartFlush
  <2>1. SharedType' /\ ControlType' /\ FillerType'
    BY <1>2 DEF StartFlush, SharedType, ControlType, FillerType
  <2>2. ReaderType' /\ Accounting'
    BY <1>2 DEF StartFlush, ReaderType, Accounting
  <2> QED
    BY <2>1, <2>2
<1>3. CASE FillSeek
  <2>1. SharedType' /\ ControlType'
    BY <1>3 DEF FillSeek, SharedType, ControlType
  <2>2. FillerType'
    <3>1. spos' \in Nat
      BY <1>3 DEF FillSeek, FillerType
    <3> QED
      BY <1>3, <3>1 DEF FillSeek, FillerType
  <2>3. ReaderType' /\ Accounting'
    BY <1>3 DEF FillSeek, ReaderType, Accounting
  <2> QED
    BY <2>1, <2>2, <2>3
<1>4. CASE BufferFull
  <2>1. SharedType' /\ ControlType' /\ FillerType'
    BY <1>4 DEF BufferFull, SharedType, ControlType, FillerType
  <2>2. ReaderType' /\ Accounting'
    BY <1>4 DEF BufferFull, ReaderType, Accounting
  <2> QED
    BY <2>1, <2>2
<1>5. CASE PlanFill
  <2>1. FillAt \in Int
    BY DEF FillAt, SharedType
  <2>2. Newb \in Int /\ Back \in Int
    BY DEF Newb, Back, Max2, Min2, SharedType, FillerType
  <2>3. Free \in Int
    BY <2>2 DEF Free
  <2>4. Room \in Int
    BY <2>1, <2>3 DEF Room, Min2
  <2>5. NewMin \in Int
    BY <2>2, <2>4 DEF NewMin, Max2, SharedType, FillerType
  <2>6. SharedType'
    BY <1>5, <2>5 DEF PlanFill, SharedType
  <2>7. ControlType'
    BY <1>5 DEF PlanFill, ControlType
  <2>8. FillerType'
    BY <1>5, <2>1, <2>4 DEF PlanFill, FillerType
  <2>9. ReaderType' /\ Accounting'
    BY <1>5 DEF PlanFill, ReaderType, Accounting
  <2> QED
    BY <2>6, <2>7, <2>8, <2>9
<1>6. CASE NoControl
  <2>1. SharedType' /\ ControlType' /\ FillerType'
    BY <1>6 DEF NoControl, SharedType, ControlType, FillerType
  <2>2. ReaderType' /\ Accounting'
    BY <1>6 DEF NoControl, ReaderType, Accounting
  <2> QED
    BY <2>1, <2>2
<1>7. CASE ExecuteControl
  <2>1. SharedType' /\ ControlType' /\ FillerType'
    <3>1. SharedType'
      BY <1>7 DEF ExecuteControl, SharedType, FillerType
    <3>2. ControlType'
      <4>1. control_uint_arg' \in Nat /\ control_res' \in {Ok, Unsupported}
        BY <1>7 DEF ExecuteControl, ControlType
      <4>2. done' \in ({Idle, Reset} \cup Commands) \X Nat
        BY <1>7 DEF ExecuteControl, ControlType
      <4> QED
        BY <1>7, <4>1, <4>2 DEF ExecuteControl, ControlType
    <3>3. FillerType'
      BY <1>7 DEF ExecuteControl, FillerType, ControlType
    <3> QED
      BY <3>1, <3>2, <3>3
  <2>2. ReaderType' /\ Accounting'
    BY <1>7 DEF ExecuteControl, ReaderType, Accounting
  <2> QED
    BY <2>1, <2>2
<1>8. CASE Reseat
  <2>1. SharedType' /\ ControlType' /\ FillerType'
    <3>1. SharedType'
      BY <1>8 DEF Reseat, ReseatFields, SharedType, FillerType
    <3>2. ControlType'
      BY <1>8 DEF Reseat, ReseatFields, ControlType
    <3>3. FillerType'
      BY <1>8 DEF Reseat, ReseatFields, FillerType, ControlType
    <3> QED
      BY <3>1, <3>2, <3>3
  <2>2. ReaderType' /\ Accounting'
    BY <1>8 DEF Reseat, ReseatFields, ReaderType, Accounting
  <2> QED
    BY <2>1, <2>2
<1>9. CASE Acknowledge
  <2>1. SharedType' /\ ControlType' /\ FillerType'
    BY <1>9 DEF Acknowledge, Acknowledged, SharedType, ControlType, FillerType
  <2>2. ReaderType' /\ Accounting'
    BY <1>9 DEF Acknowledge, Acknowledged, ReaderType, Accounting
  <2> QED
    BY <2>1, <2>2
<1>10. ASSUME NEW f \in {"max", "min", "offset", "eof"}, FlushStore(f) PROVE TypeOK'
  <2>1. SharedType' /\ ControlType' /\ FillerType'
    <3>1. SharedType'
      BY <1>10 DEF FlushStore, SharedType, FillerType
    <3>2. ControlType'
      BY <1>10 DEF FlushStore, ControlType
    <3>3. FillerType'
      BY <1>10 DEF FlushStore, FillerType, ControlType
    <3> QED
      BY <3>1, <3>2, <3>3
  <2>2. ReaderType' /\ Accounting'
    BY <1>10 DEF FlushStore, ReaderType, Accounting
  <2> QED
    BY <2>1, <2>2
<1>11. ASSUME NEW f \in {"max", "min", "offset", "eof"}, Publish(f) PROVE TypeOK'
  <2>1. SharedType' /\ ControlType' /\ FillerType'
    <3>1. SharedType'
      <4>1. eof' \in BOOLEAN
        BY <1>11, Zenon DEF Publish, EofIfNone, SharedType
      <4>2. max_filepos' \in Nat /\ offset' \in Nat
        BY <1>11 DEF Publish, SharedType, FillerType
      <4> QED
        BY <1>11, <4>1, <4>2 DEF Publish, SharedType
    <3>2. ControlType'
      BY <1>11 DEF Publish, EofIfNone, ControlType
    <3>3. FillerType'
      BY <1>11 DEF Publish, EofIfNone, FillerType, ControlType
    <3> QED
      BY <3>1, <3>2, <3>3
  <2>2. ReaderType' /\ Accounting'
    BY <1>11 DEF Publish, EofIfNone, ReaderType, Accounting
  <2> QED
    BY <2>1, <2>2
<1>12. ASSUME NEW n \in 0 .. BufferSize, FillRead(n) PROVE TypeOK'
  <2>1. SharedType' /\ ControlType' /\ FillerType'
    <3>1. Written(n) \in [Cells -> Nat \cup {Junk}]
      <4> DEFINE at(c) == IF c >= wpos THEN c - wpos ELSE c - wpos + BufferSize
      <4>1. Written(n) = [c \in Cells |-> IF at(c) \in 0 .. n - 1 THEN spos + at(c)
                                                                ELSE buffer[c]]
        BY DEF Written
      <4>2. ASSUME NEW c \in Cells, NEW i
            PROVE  (IF i \in 0 .. n - 1 THEN spos + i ELSE buffer[c]) \in Nat \cup {Junk}
        BY DEF SharedType, FillerType
      <4>3. ASSUME NEW c \in Cells
            PROVE  (IF at(c) \in 0 .. n - 1 THEN spos + at(c) ELSE buffer[c])
                     \in Nat \cup {Junk}
        BY <4>2
      <4> HIDE DEF at
      <4> QED
        BY <4>1, <4>3
    <3>2. SharedType'
      BY <1>12, <3>1 DEF FillRead, SharedType
    <3>3. ControlType'
      BY <1>12 DEF FillRead, PositionLost, ControlType
    <3>4. FillerType'
      <4>1. spos' \in Nat
        BY <1>12 DEF FillRead, PositionLost, FillerType
      <4> QED
        BY <1>12, <4>1 DEF FillRead, FillerType
    <3> QED
      BY <3>2, <3>3, <3>4
  <2>2. ReaderType' /\ Accounting'
    BY <1>12 DEF FillRead, ReaderType, Accounting
  <2> QED
    BY <2>1, <2>2
<1>13. CASE Refuse
  <2>1. SharedType' /\ ControlType' /\ FillerType'
    <3>1. done' \in ({Idle, Reset} \cup Commands) \X Nat
      BY <1>13 DEF Refuse, Nothing
    <3> QED
      BY <1>13, <3>1 DEF Refuse, SharedType, ControlType, FillerType
  <2>2. ReaderType' /\ Accounting'
    BY <1>13 DEF Refuse, ReaderType, Accounting
  <2> QED
    BY <2>1, <2>2
<1> QED
  BY <1>1, <1>2, <1>3, <1>4, <1>5, <1>6, <1>7, <1>8, <1>9, <1>10, <1>11, <1>12, <1>13
  DEF FillerStep

(* Type correctness for every medium, sector size, buffer size and player, even
   in the runs in which the two threads race: fields stay in their ranges, and
   what a call has copied and still wants add up to its sector (cache2.c:211-226).
   That a copy is not of a negative length is PlaybackInBounds. *)
THEOREM TypeCorrect == Spec => []TypeOK
<1>1. TypeOK /\ UNCHANGED vars => TypeOK'
  BY DEF TypeOK, SharedType, ControlType, ReaderType, FillerType, Accounting, vars,
         shared, ctl, stream, reader, tell, copy, filler
<1>2. TypeOK /\ [Next]_vars => TypeOK'
  BY <1>1, TypePlayer, TypeReader, TypeFiller DEF Next
<1> QED
  BY TypeInit, <1>2, PTL DEF Spec

-----------------------------------------------------------------------------
(* What a fill gives up. *)

LEMMA PlanKeeps ==
  ASSUME TypeOK, Free >= FillLimit, NewMin # min_filepos
  PROVE  NewMin <= fread - BackSize
<1>1. /\ min_filepos \in Int /\ fread \in Nat /\ max_filepos \in Nat
      /\ BufferSize \in Nat /\ BackSize \in Nat /\ FillLimit \in Nat /\ SectorSize <= FillLimit
  BY Sizes DEF TypeOK, SharedType, FillerType
<1>2. Back \in Nat /\ (Back = BackSize \/ Back >= fread - min_filepos)
  BY <1>1 DEF Back, Min2, Max2
<1>3. Newb \in Nat
  BY <1>1 DEF Newb, Max2
<1>4. Free \in Int /\ Free + Newb = BufferSize - Back /\ SectorSize <= Free
  BY <1>1, <1>2, <1>3 DEF Free
<1>5. Room \in Int /\ Room <= Free
  <2>1. FillAt \in Int
    BY <1>1 DEF FillAt, TypeOK, SharedType
  <2> DEFINE toEnd == BufferSize - FillAt
             upTo == IF Free <= toEnd THEN Free
                     ELSE IF toEnd >= SectorSize THEN toEnd ELSE SectorSize
  <2>2. Room = Min2(upTo, ReadChunk)
    BY DEF Room
  <2>3. toEnd \in Int /\ SectorSize \in Nat /\ ReadChunk \in Nat
    BY <1>1, <2>1
  <2> HIDE DEF toEnd
  <2>4. upTo \in Int /\ upTo <= Free
    BY <1>4, <2>3
  <2> HIDE DEF upTo
  <2> QED
    BY <1>4, <2>2, <2>3, <2>4 DEF Min2
<1>6. BufferSize - (Room + Newb) \in Int /\ BufferSize - (Room + Newb) >= Back
  BY <1>1, <1>2, <1>3, <1>4, <1>5
<1> DEFINE keep == BufferSize - (Room + Newb)
<1>7. NewMin = Max2(min_filepos, fread - keep) /\ keep \in Int /\ keep >= Back
  BY <1>6 DEF NewMin
<1> HIDE DEF keep
<1>8. NewMin = fread - keep /\ fread - keep > min_filepos
  BY <1>1, <1>7 DEF Max2
<1> QED
  BY <1>1, <1>2, <1>7, <1>8

LEMMA BackKeptStep == TypeOK /\ [Next]_vars => (fpc' = "read" /\ min_filepos' # min_filepos => min_filepos' <= fread - BackSize)
<1> SUFFICES ASSUME TypeOK, [Next]_vars, fpc' = "read", min_filepos' # min_filepos
             PROVE  min_filepos' <= fread - BackSize
  OBVIOUS
<1>1. ASSUME NEW f, FlushStore(f) PROVE FALSE
  BY <1>1 DEF FlushStore
<1>2. CASE PlanFill
  BY <1>2, PlanKeeps DEF PlanFill
<1>3. CASE ~PlanFill
  <2>1. UNCHANGED min_filepos
    <3>1. CASE Player \/ Interrupt
      BY <3>1 DEF Player, Interrupt, StartRead, StartSeek, StartControl, PrefillInterrupt,
           ReadInterrupt, ControlInterrupt, others, shared
    <3>2. CASE ReaderStep
      BY <3>2 DEF ReaderStep, PrefillWait, SeekClearEof, TestMax, TestMin, TestEof, Retry,
           LoadNewb, LoadOffset, Copy, CopyFault, Advance, Deliver, PostControl, ControlWait,
           ControlRetry, ControlAnswered, others, shared
    <3>3. CASE FillerStep
      BY <1>1, <1>3, <3>3 DEF FillerStep, LoadRead, StartFlush, FillSeek, BufferFull, Publish,
           FillRead, NoControl, Refuse, ExecuteControl, Reseat, Acknowledge, rest, shared
    <3>4. CASE UNCHANGED vars
      BY <3>4 DEF vars, shared
    <3> QED
      BY <3>1, <3>2, <3>3, <3>4 DEF Next
  <2> QED
    BY <2>1
<1> QED
  BY <1>2, <1>3

(* "we should keep back_size amount of old bytes for backward seek"
   (cache2.c:80): whatever the player does, and even where the threads race, a
   fill gives up no byte that lies less than BackSize behind the position it
   has read. *)
THEOREM OldBytesStay == Spec => BackKept
<1>1. Spec => []TypeOK
  BY TypeCorrect
<1> QED
  BY <1>1, BackKeptStep, PTL DEF Spec, BackKept

-----------------------------------------------------------------------------
(* Controls, for a player whose wait is never interrupted: AskInv. *)

AskTypes == asked \in ({Idle} \cup Commands) \X Nat /\ control_uint_arg \in Nat

LEMMA AskInit == Init => AskInv
  BY DEF Init, AskInv, AnswerIsOwn, Awaiting, Executed

(* The mailbox is left alone, or only the loop of cache_do_control moves on. *)
LEMMA AskKept ==
  ASSUME AskInv, UNCHANGED <<control, control_uint_arg, control_res, asked, done>>,
         Awaiting' <=> Awaiting, rpc' = "post" <=> rpc = "post",
         Executed' <=> Executed, Refusing' <=> Refusing
  PROVE  AskInv'
BY DEF AskInv, AnswerIsOwn, Refused, ArgStored

LEMMA AskStep == ~Interrupts /\ AskTypes /\ AskInv /\ [Next]_vars => AskInv'
<1> SUFFICES ASSUME ~Interrupts, AskTypes, AskInv, [Next]_vars PROVE AskInv'
  OBVIOUS
<1>0. Idle \notin Commands /\ Reset \notin Commands /\ Idle # Reset
      /\ SeekChapter \in Commands /\ NumChapters \in Commands /\ SeekChapter # NumChapters
  BY DEF Commands, Idle, Reset, SeekChapter, NumChapters
<1>1. CASE UNCHANGED vars
  BY <1>1 DEF vars, ctl, filler, reader, AskInv, AnswerIsOwn, Awaiting, Refused, Refusing,
     Executed, ArgStored
<1>2. ASSUME NEW c \in Commands, NEW a, StartControl(c, a), c = NumChapters => a = 0
      PROVE  AskInv'
  <2>1. /\ asked' = <<c, a>> /\ control_uint_arg' = ArgFor(c, a) /\ rpc = "idle" /\ rpc' = "post"
        /\ UNCHANGED <<control, control_res, done, fpc>>
    BY <1>2 DEF StartControl, filler
  <2>2. asked'[1] = c /\ asked'[2] = a
    BY <2>1
  <2>3. ArgStored' /\ asked'[1] \in Commands
    BY <1>2, <2>1, <2>2 DEF ArgStored, ArgFor, SeekChapter, NumChapters, Commands
  <2>4. ~Awaiting /\ ~Awaiting' /\ Refusing' = Refusing /\ Executed' = Executed
    BY <2>1 DEF Awaiting, Refusing, Refused, Executed
  <2> QED
    BY <2>1, <2>3, <2>4 DEF AskInv, AnswerIsOwn
<1>3. CASE StartRead \/ \E t \in SeekTargets : StartSeek(t)
  <2>1. /\ rpc = "idle" /\ rpc' \in {"max", "seek"} /\ fpc' = fpc
        /\ UNCHANGED <<control, control_uint_arg, control_res, asked, done>>
    BY <1>3 DEF StartRead, StartSeek, others, ctl, filler
  <2> QED
    BY <2>1, AskKept DEF Awaiting, Executed, Refusing, Refused
<1>4. CASE Interrupt
  BY <1>4 DEF Interrupt, PrefillInterrupt, ReadInterrupt, ControlInterrupt
<1>5. CASE PostControl
  <2>1. rpc = "post" /\ rpc' = "answer" /\ control' = asked[1]
        /\ UNCHANGED <<asked, control_uint_arg, control_res, done, fpc>>
    BY <1>5 DEF PostControl, filler
  <2>2. control' # Idle /\ Awaiting' /\ ~Awaiting /\ asked'[1] \in Commands
    BY <1>0, <2>1 DEF AskInv, Awaiting
  <2>3. ~(Executed' /\ ~Refusing')
    BY <2>1, <2>2 DEF AskInv, Executed, Refusing, Refused
  <2> QED
    BY <2>1, <2>2, <2>3 DEF AskInv, AnswerIsOwn, ArgStored
<1>6. CASE ControlAnswered
  <2>1. /\ rpc = "answer" /\ rpc' = "idle" /\ control = Idle
        /\ UNCHANGED <<control, control_res, asked, done, fpc>>
    BY <1>6 DEF ControlAnswered, others, ctl, filler
  <2>2. ~Awaiting' /\ Refusing' = Refusing /\ Executed' = Executed
    BY <2>1 DEF Awaiting, Refusing, Refused, Executed
  <2>3. ~(Executed /\ ~Refusing)
    BY <1>0, <2>1 DEF AskInv, Awaiting
  <2> QED
    BY <2>1, <2>2, <2>3 DEF AskInv, AnswerIsOwn
<1>7. CASE ReaderStep /\ ~PostControl /\ ~ControlAnswered
  <2>1. /\ Awaiting' <=> Awaiting
        /\ rpc # "post" /\ rpc' # "post" /\ fpc' = fpc
        /\ UNCHANGED <<control, control_uint_arg, control_res, asked, done>>
    BY <1>7 DEF ReaderStep, PrefillWait, SeekClearEof, TestMax, TestMin, TestEof, Retry,
         LoadNewb, LoadOffset, Copy, CopyFault, Advance, Deliver, ControlWait, ControlRetry,
         others, ctl, filler, Awaiting
  <2> QED
    BY <2>1, AskKept DEF Executed, Refusing, Refused
<1>8. CASE ExecuteControl
  <2>1. /\ fpc = "control" /\ control \notin {Idle, Reset} /\ fpc' \in {"ack", "moved"}
        /\ UNCHANGED <<control, asked, rpc>>
        /\ done' = <<control, IF control = SeekChapter THEN control_uint_arg ELSE 0>>
    BY <1>8 DEF ExecuteControl, reader
  <2>2. Awaiting /\ control = asked[1] /\ ArgStored /\ asked[1] \in Commands
    BY <2>1 DEF AskInv, Executed
  <2>3. asked = <<asked[1], asked[2]>>
    BY DEF AskTypes
  <2>4. done' = asked
    BY <2>1, <2>2, <2>3 DEF ArgStored
  <2>5. Awaiting' /\ rpc' # "post" /\ Executed'
    BY <2>1, <2>2 DEF Awaiting, Executed
  <2>6. ~Refusing' /\ HasControl
    BY <1>0, <1>8, <2>1 DEF Refusing, Refused, Nothing, ExecuteControl
  <2> QED
    BY <2>1, <2>2, <2>4, <2>5, <2>6 DEF AskInv, AnswerIsOwn
<1>9. CASE Refuse
  <2>1. /\ fpc = "control" /\ fpc' = "ack" /\ UNCHANGED <<control, control_uint_arg, asked, rpc>>
        /\ done' = Nothing /\ control_res' = Unsupported
    BY <1>9 DEF Refuse, reader
  <2>2. Refusing' /\ Refused' /\ Awaiting' = Awaiting /\ ~Executed
    BY <2>1 DEF Refusing, Refused, Awaiting, Executed
  <2> QED
    BY <2>1, <2>2 DEF AskInv, AnswerIsOwn, ArgStored
<1>10. CASE Acknowledge
  <2>1. /\ control' = Idle /\ fpc = "ack" /\ fpc' = "load"
        /\ UNCHANGED <<control_uint_arg, control_res, asked, done, rpc>>
    BY <1>10 DEF Acknowledge, Acknowledged, reader
  <2>2. Executed /\ ~Executed' /\ Awaiting' = Awaiting /\ Refused' = Refused
    BY <2>1 DEF Executed, Awaiting, Refused
  <2>3. Refused \/ done = asked
    BY <2>1, <2>2 DEF AskInv, Refusing
  <2> QED
    BY <2>1, <2>2, <2>3 DEF AskInv, AnswerIsOwn, ArgStored
<1>11. CASE FillerStep /\ ~ExecuteControl /\ ~Refuse /\ ~Acknowledge
  <2> DEFINE Unasked ==
        /\ UNCHANGED <<control, control_uint_arg, control_res, asked, done, rpc>>
        /\ Executed' <=> Executed
        /\ fpc # "ack" /\ (fpc' = "ack" => fpc = "reseat")
  <2>1. Unasked
    <3>1. ASSUME NEW f, FlushStore(f) \/ Publish(f) PROVE Unasked
      BY <3>1 DEF FlushStore, Publish, ctl, reader, Executed
    <3>2. ASSUME NEW n, FillRead(n) PROVE Unasked
      BY <3>2 DEF FillRead, reader, Executed
    <3>3. CASE Reseat
      BY <3>3 DEF Reseat, ctl, reader, Executed
    <3>4. CASE LoadRead \/ StartFlush \/ FillSeek \/ BufferFull \/ PlanFill \/ NoControl
      BY <3>4 DEF LoadRead, StartFlush, FillSeek, BufferFull, PlanFill, NoControl, AtPlan, rest,
           ctl, reader, Executed
    <3> HIDE DEF Unasked
    <3> QED
      BY <1>11, <3>1, <3>2, <3>3, <3>4 DEF FillerStep
  <2>2. fpc = "reseat" => Executed /\ ~Refused
    <3>1. fpc = "reseat" => done = asked /\ asked[1] \in Commands
      BY DEF AskInv, Executed, Refusing
    <3>2. done = asked /\ asked[1] \in Commands => done # Nothing
      BY <1>0 DEF Nothing
    <3> QED
      BY <3>1, <3>2 DEF Executed, Refused
  <2>3. ~Refusing /\ ~Refusing'
    BY <2>1, <2>2 DEF Refusing, Refused
  <2> QED
    BY <2>1, <2>3, AskKept DEF Awaiting
<1>12. CASE Player
  <2>1. ASSUME NEW a \in Chapters, StartControl(SeekChapter, a) PROVE AskInv'
    BY <1>0, <1>2, <2>1, Zenon
  <2>2. ASSUME StartControl(NumChapters, 0) PROVE AskInv'
    BY <1>0, <1>2, <2>2, Zenon
  <2> QED
    BY <1>3, <1>12, <2>1, <2>2 DEF Player
<1>13. CASE ReaderStep
  BY <1>5, <1>6, <1>7, <1>13
<1>14. CASE FillerStep
  BY <1>8, <1>9, <1>10, <1>11, <1>14
<1> QED
  BY <1>1, <1>4, <1>12, <1>13, <1>14 DEF Next

(* A control call returns with the answer to its own command, or is refused by a
   turn that has executed none: the filler's first, which finds the 0 of
   cache_init (cache2.c:390-401), or any turn of a stream without a control
   function (331-336).  Unless the user interrupts a wait, which leaves the command
   posted (767-770), success is never an earlier call's. *)
THEOREM AnswersAreOwn == ~Interrupts => (Spec => []AnswerIsOwn)
<1> SUFFICES ASSUME ~Interrupts PROVE Spec => []AnswerIsOwn
  OBVIOUS
<1>1. Spec => []TypeOK
  BY TypeCorrect
<1>2. TypeOK => AskTypes
  BY DEF TypeOK, ControlType, AskTypes
<1>3. AskInv /\ AskTypes /\ [Next]_vars => AskInv'
  BY AskStep
<1>4. AskInv => AnswerIsOwn
  BY DEF AskInv, AnswerIsOwn
<1> QED
  BY AskInit, <1>1, <1>2, <1>3, <1>4, PTL DEF Spec

-----------------------------------------------------------------------------
(* The reader's two counts of where it is, its own pos and the shared
   read_filepos.  Both threads store the latter, the filler only when it has
   moved the stream for a reader that waits for the answer. *)

PosInv ==
  /\ AskInv
  /\ Moving => control = SeekChapter /\ control_res = Ok
  /\ rpc \notin Reading \cup {"fault"} /\ ~Relocated => pos = read_filepos
  /\ rpc \in Reading \ {"advance"} => read_filepos = pos + Len(got)
  /\ rpc = "advance" => read_filepos + newb = pos + Len(got)

LEMMA PosInit == Init => PosInv
BY AskInit DEF Init, PosInv, Moving, Relocated, Awaiting, Reading

(* Outside a read there is nothing in hand. *)
LEMMA NothingInHand ==
  ASSUME TypeOK, rpc \notin Reading \cup {"fault"}
  PROVE  got = <<>> /\ Len(got) = 0
BY DEF TypeOK, Accounting

(* The sleep of cache_do_control changes nothing that PosInv looks at. *)
LEMMA PosNap ==
  ASSUME PosInv, AskInv', ControlWait \/ ControlRetry
  PROVE  PosInv'
<1>1. /\ rpc \in {"answer", "nap"} /\ rpc' \in {"answer", "nap"}
      /\ UNCHANGED <<pos, read_filepos, control, control_res, asked, fpc>>
  BY DEF ControlWait, ControlRetry, others, shared, ctl, filler, tell
<1>2. (Relocated' <=> Relocated) /\ (Moving' <=> Moving)
  BY <1>1 DEF Relocated, Moved, Awaiting, Executed, Moving
<1> QED
  BY <1>1, <1>2 DEF PosInv, Reading

(* Only what a step changes of what PosInv looks at. *)
LEMMA PosReader ==
  ASSUME ~Interrupts, TypeOK, PosInv, AskInv', Player \/ ReaderStep,
         ~ControlWait, ~ControlRetry
  PROVE  PosInv'
<1> USE DEF tell, copy
<1>0. /\ pos \in Nat /\ read_filepos \in Nat /\ newb \in Int /\ Len(got) \in Nat
      /\ got \in Seq(Nat \cup {Junk}) /\ AskInv
  BY DEF TypeOK, SharedType, ReaderType, PosInv
<1>1. fpc' = fpc /\ (~Awaiting \/ control = Idle)
  BY DEF Awaiting, Player, StartRead, StartSeek, StartControl, ReaderStep, PrefillWait, SeekClearEof,
     TestMax, TestMin, TestEof, Retry, LoadNewb, LoadOffset, Copy, CopyFault, Advance,
     Deliver, PostControl, ControlAnswered, others, filler
<1>2. ~Moving /\ ~Moving'
  BY <1>0, <1>1 DEF PosInv, AskInv, Moving, Idle, Reset, SeekChapter
<1>3. CASE PrefillWait \/ StartRead \/ TestMax \/ TestMin \/ TestEof \/ Retry \/ LoadNewb
           \/ LoadOffset \/ CopyFault \/ SeekClearEof \/ PostControl
           \/ \E c \in Commands, a \in Nat : StartControl(c, a)
  <2>1. /\ UNCHANGED <<pos, read_filepos, got>> /\ rpc \notin {"advance", "answer", "nap", "fault"}
        /\ rpc' # "advance"
    BY <1>3 DEF PrefillWait, StartRead, TestMax, TestMin, TestEof, Retry, LoadNewb, LoadOffset,
         CopyFault, SeekClearEof, PostControl, StartControl, others, shared
  <2>2. ~Relocated
    BY <2>1 DEF Relocated, Awaiting
  <2>3. rpc' \in Reading \cup {"fault"} \/ rpc \notin Reading
    BY <1>3 DEF PrefillWait, StartRead, TestMax, TestMin, TestEof, Retry, LoadNewb, LoadOffset,
         CopyFault, SeekClearEof, PostControl, StartControl, Reading
  <2>4. rpc \notin Reading => read_filepos = pos + Len(got)
    BY <1>0, <2>1, <2>2, NothingInHand DEF PosInv
  <2>5. rpc \in Reading => read_filepos = pos + Len(got)
    BY <2>1 DEF PosInv
  <2> QED
    BY <1>2, <2>1, <2>2, <2>3, <2>4, <2>5 DEF PosInv
<1>4. ASSUME NEW t \in SeekTargets, StartSeek(t) PROVE PosInv'
  BY <1>2, <1>4 DEF StartSeek, PosInv, Reading
<1>5. CASE Copy
  <2>1. newb \in Nat /\ rpc = "copy"
    BY <1>0, <1>5 DEF Copy
  <2> DEFINE f == [i \in 1 .. newb |->
                     IF cell + i - 1 \in Cells THEN buffer[cell + i - 1] ELSE Junk]
  <2>2. got' = got \o f /\ rpc' = "advance" /\ UNCHANGED <<pos, read_filepos, newb>>
    BY <1>5 DEF Copy, others, shared
  <2>3. f \in [1 .. newb -> Nat \cup {Junk}]
    BY DEF TypeOK, SharedType
  <2> HIDE DEF f
  <2>4. Len(got') = Len(got) + newb
    BY <1>0, <2>1, <2>2, <2>3, AppendRun
  <2>5. read_filepos = pos + Len(got)
    BY <2>1 DEF PosInv, Reading
  <2>6. read_filepos' + newb' = pos' + Len(got')
    BY <1>0, <2>2, <2>4, <2>5
  <2> QED
    BY <1>2, <2>2, <2>6 DEF PosInv, Reading
<1>6. CASE Advance
  BY <1>2, <1>6 DEF Advance, PosInv, Reading
<1>7. CASE Deliver
  <2>1. /\ rpc = "deliver" /\ rpc' = "idle" /\ pos' = pos + Len(got) /\ read_filepos' = read_filepos
    BY <1>7 DEF Deliver, others, shared
  <2> QED
    BY <1>2, <2>1 DEF PosInv, Reading
<1>8. CASE ControlAnswered
  <2>1. rpc = "answer" /\ control = Idle /\ rpc' = "idle" /\ read_filepos' = read_filepos
    BY <1>8 DEF ControlAnswered, others, shared
  <2>2. pos' = read_filepos
    BY <1>8, <2>1 DEF ControlAnswered, PosInv, Reading, Relocated, Awaiting
  <2> QED
    BY <1>2, <2>1, <2>2 DEF PosInv, Reading
<1>9. ASSUME NEW a \in Chapters, StartControl(SeekChapter, a) PROVE PosInv'
  BY <1>3, <1>9, ConstantsAssumption DEF Commands
<1>10. CASE StartControl(NumChapters, 0)
  BY <1>3, <1>10 DEF Commands
<1> QED
  BY <1>3, <1>4, <1>5, <1>6, <1>7, <1>8, <1>9, <1>10 DEF Player, ReaderStep

LEMMA PosFiller ==
  ASSUME TypeOK, PosInv, AskInv', FillerStep
  PROVE  PosInv'
<1>0. AskInv /\ UNCHANGED <<rpc, pos, got, newb, asked>>
  <2>1. UNCHANGED <<rpc, pos, got, newb, asked>>
    BY DEF FillerStep, LoadRead, StartFlush, FillSeek, BufferFull, PlanFill, FlushStore, Publish,
       FillRead, NoControl, Refuse, ExecuteControl, Reseat, Acknowledge, rest, ctl, reader, tell,
       copy
  <2> QED
    BY <2>1 DEF PosInv
<1>1. CASE Reseat
  <2>1. /\ Moving /\ Moving' /\ UNCHANGED <<control, control_res>>
    BY <1>1 DEF Reseat, Moving, ctl
  <2>2. control = SeekChapter /\ control_res = Ok /\ Awaiting /\ asked[1] = SeekChapter
    BY <1>0, <2>1 DEF PosInv, AskInv, Idle, Reset, SeekChapter, Moving, Executed, Refusing
  <2>3. Relocated'
    BY <1>0, <1>1, <2>1, <2>2 DEF Relocated, Moved, Awaiting, Executed, Reseat
  <2> QED
    BY <1>0, <2>1, <2>2, <2>3 DEF PosInv, Reading, Awaiting
<1>2. CASE ExecuteControl
  <2>1. /\ fpc = "control" /\ control # Idle /\ UNCHANGED <<read_filepos, control>>
        /\ fpc' \in {"ack", "moved"} /\ (fpc' = "moved" => control = SeekChapter /\ control_res' = Ok)
    BY <1>2 DEF ExecuteControl, shared
  <2>2. ~Relocated
    BY <2>1 DEF Relocated, Executed
  <2>3. Moving' => control' = SeekChapter /\ control_res' = Ok
    BY <2>1 DEF Moving
  <2> QED
    BY <1>0, <2>1, <2>2, <2>3 DEF PosInv
<1>3. CASE Acknowledge
  <2>1. fpc' = "load" /\ fpc = "ack" /\ control' = Idle /\ UNCHANGED <<read_filepos, control_res>>
    BY <1>3 DEF Acknowledge, Acknowledged, ctl, shared
  <2>2. (Relocated' <=> Relocated) /\ ~Moving'
    BY <1>0, <2>1 DEF Relocated, Moved, Awaiting, Executed, Moving
  <2> QED
    BY <1>0, <2>1, <2>2 DEF PosInv
<1>5. CASE Refuse
  <2>1. /\ fpc = "control" /\ fpc' = "ack" /\ control_res' = Unsupported
        /\ UNCHANGED <<read_filepos, control>>
    BY <1>5 DEF Refuse, shared
  <2>2. ~Moving' /\ ~Relocated'
    BY <2>1 DEF Moving, Relocated, Moved, Ok, Unsupported
  <2>3. ~Relocated
    <3>1. Relocated => control = Idle /\ control_res = Ok
      BY <2>1 DEF Relocated, Moved, Awaiting, Executed
    <3>2. control = Idle => ~HasControl
      BY <1>5 DEF Refuse, Idle, Reset
    <3> QED
      BY <1>0, <3>1, <3>2 DEF AskInv, Ok, Unsupported
  <2> QED
    BY <1>0, <2>1, <2>2, <2>3 DEF PosInv
<1>4. CASE FillerStep /\ ~Reseat /\ ~ExecuteControl /\ ~Refuse /\ ~Acknowledge
  <2> DEFINE Same == /\ UNCHANGED <<read_filepos, control, control_res>>
                     /\ Executed' <=> Executed
                     /\ Moving' => Moving
  <2>1. Same
    <3>1. ASSUME NEW f, FlushStore(f) \/ Publish(f) PROVE Same
      BY <3>1 DEF FlushStore, Publish, ctl, Executed, Moving
    <3>2. ASSUME NEW n, FillRead(n) PROVE Same
      BY <3>2 DEF FillRead, Executed, Moving
    <3>3. CASE LoadRead \/ StartFlush \/ FillSeek \/ BufferFull \/ PlanFill \/ NoControl
      BY <3>3 DEF LoadRead, StartFlush, FillSeek, BufferFull, PlanFill, NoControl, AtPlan, rest,
           shared, ctl, Executed, Moving
    <3> HIDE DEF Same
    <3> QED
      BY <1>4, <3>1, <3>2, <3>3 DEF FillerStep
  <2>2. Relocated' <=> Relocated
    BY <1>0, <2>1 DEF Relocated, Moved, Awaiting
  <2> QED
    BY <1>0, <2>1, <2>2 DEF PosInv
<1> QED
  BY <1>1, <1>2, <1>3, <1>4, <1>5

LEMMA PosStep == ~Interrupts /\ TypeOK /\ PosInv /\ [Next]_vars => PosInv'
<1> SUFFICES ASSUME ~Interrupts, TypeOK, PosInv, [Next]_vars PROVE PosInv'
  OBVIOUS
<1>1. AskInv'
  BY AskStep DEF TypeOK, ControlType, AskTypes, PosInv
<1>2. CASE UNCHANGED vars
  BY <1>1, <1>2 DEF vars, shared, ctl, reader, tell, copy, filler, PosInv, Moving, Relocated,
     Moved, Awaiting, Executed
<1>3. ~Interrupt
  BY DEF Interrupt, PrefillInterrupt, ReadInterrupt, ControlInterrupt
<1> QED
  BY <1>1, <1>2, <1>3, PosNap, PosReader, PosFiller DEF Next, ReaderStep

(* "!!! read_filepos differs!!! report this bug..." (cache2.c:660) is never
   printed as long as no wait is interrupted: for every player, seeks back and
   chapters included, every medium, one that fails to seek included, and
   however the threads race.  With interrupts it can be. *)
THEOREM PositionsAgree == ~Interrupts => (Spec => []PosAgrees)
<1> SUFFICES ASSUME ~Interrupts PROVE Spec => []PosAgrees
  OBVIOUS
<1>1. Spec => []TypeOK
  BY TypeCorrect
<1>2. TypeOK /\ PosInv /\ [Next]_vars => PosInv'
  BY PosStep
<1>3. PosInv => PosAgrees
  BY DEF PosInv, PosAgrees, Reading, Relocated, Awaiting
<1> QED
  BY PosInit, <1>1, <1>2, <1>3, PTL DEF Spec

-----------------------------------------------------------------------------
(* Playback: why the two threads of the stream cache need no lock while the
   player only plays, asks questions and seeks ahead.  PlayInv is inductive, for
   every medium, buffer and sector size; what it says of a race-free window follows
   from it: the bytes are the medium's, the copy stays in the ring, and reader and
   filler never touch the same cell. *)

(* The ring has at least a cell, and a sector has its place in it. *)
LEMMA RingSize ==
  /\ BufferSize \in Nat \ {0} /\ SectorSize \in Nat \ {0} /\ FileSize \in Nat
  /\ SectorSize <= FillLimit /\ FillLimit <= BufferSize /\ FillLimit \in Nat
BY Sizes, ConstantsAssumption

-----------------------------------------------------------------------------
(* Cells of the ring.  o is offset, b and m the ends of the window. *)

(* The window fits the ring, where o may still lack the turn of the fill that
   is being published. *)
Fits(b, m, o) ==
  /\ m - b <= BufferSize
  /\ \/ 0 <= m - o /\ m - o < BufferSize
     \/ BufferSize <= m - o /\ m - o < 2 * BufferSize

(* One correction by the buffer size finds a cell (cache2.c:207-209). *)
LEMMA WrapIsCell ==
  ASSUME NEW b \in Int, NEW m \in Int, NEW o \in Int, Fits(b, m, o),
         NEW p \in Int, b <= p, p <= m
  PROVE  Wrap(p - o) \in 0 .. BufferSize - 1
BY RingSize DEF Fits, Wrap

(* A run of cells that stays in the ring is a run of positions. *)
LEMMA WrapRun ==
  ASSUME NEW b \in Int, NEW m \in Int, NEW o \in Int, Fits(b, m, o),
         NEW p \in Int, b <= p, NEW i \in Nat, p + i <= m,
         Wrap(p - o) + i < BufferSize
  PROVE  Wrap(p + i - o) = Wrap(p - o) + i
BY RingSize DEF Fits, Wrap

(* Raising offset by the buffer size moves no position to another cell. *)
LEMMA WrapTurn ==
  ASSUME NEW b \in Int, NEW m \in Int, NEW o \in Int,
         m - b <= BufferSize, BufferSize <= m - o, m - o < 2 * BufferSize,
         NEW p \in Int, b <= p, p <= m
  PROVE  Wrap(p - (o + BufferSize)) = Wrap(p - o)
BY RingSize DEF Wrap

-----------------------------------------------------------------------------
(* The parts of the invariant that a step leaves alone. *)

LEMMA PlayInit == PlaybackOnly /\ Init => PlayInv
<1> SUFFICES ASSUME PlaybackOnly, Init PROVE PlayInv
  OBVIOUS
<1>1. TypeOK
  BY TypeInit
<1>2. NewMax = 0 /\ NewOffset = 0 /\ ~Flushing
  BY DEF Init, NewMax, NewOffset, Flushing
<1>3. got = <<>> /\ Len(got) = 0
  BY DEF Init
<1>m. MoveInv
  BY AskInit DEF Init, MoveInv, Moving, NoCmd, Idle, SeekChapter
<1>4. WindowInv
  BY <1>2, RingSize DEF Init, WindowInv
<1>5. TurnInv
  BY <1>2 DEF Init, TurnInv, Flushing
<1>6. WriteInv
  BY DEF Init, WriteInv
<1>7. CellsInv
  BY <1>2 DEF Init, CellsInv
<1>8. ReaderInv
  BY <1>3, RingSize DEF Init, ReaderInv, Reading
<1>9. CopyInv
  BY <1>3 DEF Init, CopyInv, Holding
<1> QED
  BY <1>1, <1>m, <1>4, <1>5, <1>6, <1>7, <1>8, <1>9 DEF PlayInv

(* While the window follows the stream to a chapter, the reader waits for the
   answer. *)
LEMMA MovingWaits == PlayInv /\ ~Awaiting => ~Moving /\ fpc # "reseat"
BY DEF PlayInv, MoveInv, AskInv, Moving, Executed, Refusing

(* The mailbox: the stream goes to the chapter the reader asked for, and the
   stores of the window's new bounds agree with it. *)
LEMMA MoveKept ==
  ASSUME PlaybackOnly, PlayInv, Player \/ ReaderStep \/ FillerStep
  PROVE  MoveInv'
<1>0. /\ TypeOK /\ MoveInv /\ AskInv
      /\ AskTypes /\ ~Interrupts /\ Next
  BY DEF PlayInv, MoveInv, TypeOK, ControlType, AskTypes, PlaybackOnly, Next
<1>1. AskInv'
  BY <1>0, AskStep
<1>2. asked'[1] = SeekChapter => asked'[2] \in Chapters
  <2>1. CASE asked' = asked
    BY <1>0, <2>1 DEF MoveInv
  <2>2. ASSUME NEW a \in Chapters, StartControl(SeekChapter, a)
        PROVE  asked'[1] = SeekChapter => asked'[2] \in Chapters
    BY <2>2 DEF StartControl
  <2>3. CASE StartControl(NumChapters, 0)
    BY <2>3 DEF StartControl, SeekChapter, NumChapters
  <2>4. CASE StartRead \/ (\E t \in SeekTargets : StartSeek(t)) \/ ReaderStep
    <3>1. asked' = asked
      BY <2>4 DEF StartRead, StartSeek, ReaderStep, PrefillWait, SeekClearEof, TestMax, TestMin,
           TestEof, Retry, LoadNewb, LoadOffset, Copy, CopyFault, Advance, Deliver, PostControl,
           ControlWait, ControlRetry, ControlAnswered, others, ctl
    <3> QED
      BY <2>1, <3>1
  <2>5. CASE FillerStep
    <3>1. asked' = asked
      BY <2>5 DEF FillerStep, LoadRead, StartFlush, FillSeek, BufferFull, PlanFill, FlushStore,
           Publish, FillRead, NoControl, Refuse, ExecuteControl, Reseat, Acknowledge, rest, ctl
    <3> QED
      BY <2>1, <3>1
  <2> QED
    BY <2>2, <2>3, <2>4, <2>5 DEF Player
<1> DEFINE Rest == /\ Moving' => control' = SeekChapter /\ control_res' = Ok /\ spos' <= FileSize
                   /\ fpc' = "reseat" => /\ flushval' = spos' /\ read_filepos' = spos'
                                         /\ "max" \notin pend' => max_filepos' = spos'
                                         /\ "min" \notin pend' => min_filepos' = spos'
                                         /\ "offset" \notin pend' => offset' = spos'
<1>3. Rest
  <2>0. CASE ControlWait \/ ControlRetry
    BY <1>0, <2>0 DEF ControlWait, ControlRetry, others, shared, ctl, stream, filler, MoveInv, Moving
  <2>1. CASE (Player \/ ReaderStep) /\ ~ControlWait /\ ~ControlRetry
    <3>1. fpc' = fpc /\ (~Awaiting \/ control = Idle)
      BY <2>1 DEF Awaiting, Player, StartRead, StartSeek, StartControl, ReaderStep, PrefillWait, SeekClearEof,
           TestMax, TestMin, TestEof, Retry, LoadNewb, LoadOffset, Copy, CopyFault, Advance,
           Deliver, PostControl, ControlAnswered, others, filler
    <3>2. ~Moving
      BY <1>0, <3>1 DEF MoveInv, AskInv, Idle, Reset, SeekChapter
    <3> QED
      BY <3>1, <3>2 DEF Moving
  <2>2. CASE ExecuteControl
    <3>1. CASE control = SeekChapter /\ spos' = control_uint_arg
      <4>1. Awaiting /\ ~Executed
        BY <1>0, <2>2, <3>1 DEF AskInv, ExecuteControl, Executed, Idle, Reset, SeekChapter
      <4>2. control_uint_arg = asked[2] /\ asked[1] = SeekChapter
        BY <1>0, <3>1, <4>1 DEF AskInv, ArgStored, Idle, SeekChapter
      <4>3. spos' \in Chapters
        BY <1>0, <3>1, <4>2 DEF MoveInv
      <4>4. spos' <= FileSize
        BY <4>3, ConstantsAssumption DEF PlaybackOnly
      <4> QED
        BY <2>2, <3>1, <4>4 DEF ExecuteControl, Moving, Ok, Unsupported
    <3>2. CASE ~(control = SeekChapter /\ spos' = control_uint_arg)
      BY <2>2, <3>2 DEF ExecuteControl, Moving
    <3> QED
      BY <3>1, <3>2
  <2>3. CASE Reseat
    BY <1>0, <2>3 DEF Reseat, MoveInv, Moving, ReseatFields, ctl, stream
  <2>4. ASSUME NEW f \in {"max", "min", "offset", "eof"}, FlushStore(f) PROVE Rest
    BY <1>0, <2>4 DEF FlushStore, MoveInv, Moving, ctl, stream
  <2>5. CASE FillerStep /\ ~ExecuteControl /\ ~Reseat
             /\ ~ \E f \in {"max", "min", "offset", "eof"} : FlushStore(f)
    <3>1. fpc' \notin {"moved", "reseat"}
      BY <2>5 DEF FillerStep, LoadRead, StartFlush, FillSeek, BufferFull, PlanFill, Publish, FillRead,
           NoControl, Refuse, Acknowledge
    <3> QED
      BY <3>1 DEF Moving
  <2> QED
    BY <2>0, <2>1, <2>2, <2>3, <2>4, <2>5
<1> QED
  BY <1>1, <1>2, <1>3 DEF MoveInv

(* A step of the reader leaves the window, its cells and the write alone; eof
   it only clears. *)
LEMMA WindowKept ==
  ASSUME PlayInv, UNCHANGED <<buffer, min_filepos, max_filepos, offset, stream, filler>>,
         eof' => eof
  PROVE  WindowInv' /\ WriteInv' /\ CellsInv'
<1>1. /\ NewMax' = NewMax /\ NewOffset' = NewOffset /\ (Flushing' <=> Flushing)
      /\ (Moving' <=> Moving)
      /\ UNCHANGED <<min_filepos, max_filepos, offset, buffer, spos, fpc, wpos, space, len>>
  BY DEF NewMax, NewOffset, Flushing, Moving, stream, filler
<1>2. WindowInv'
  BY <1>1 DEF PlayInv, WindowInv
<1>3. WriteInv'
  BY <1>1 DEF PlayInv, WriteInv
<1>4. CellsInv'
  BY <1>1 DEF PlayInv, CellsInv, Wrap
<1> QED
  BY <1>2, <1>3, <1>4

(* A step of the reader that leaves its position alone keeps the filler's turn,
   unless it stops waiting while the filler flushes. *)
LEMMA TurnKept ==
  ASSUME PlayInv, UNCHANGED <<min_filepos, max_filepos, offset, read_filepos, spos, filler>>,
         eof' => eof, Flushing => rpc' \in Waiting /\ (eof' => rpc' = "seek")
  PROVE  TurnInv'
<1>1. /\ (Flushing' <=> Flushing)
      /\ UNCHANGED <<min_filepos, max_filepos, offset, read_filepos, spos, fpc, fread, flushval, pend>>
  BY DEF Flushing, filler
<1> QED
  BY <1>1 DEF PlayInv, TurnInv

-----------------------------------------------------------------------------
(* The reader. *)

(* What each step of the reader has to show, the rest being kept. *)
LEMMA ReaderPart ==
  ASSUME PlayInv, ReaderStep \/ Player, PlaybackOnly,
         UNCHANGED <<buffer, min_filepos, max_filepos, offset, stream, filler>>,
         eof' => eof, TurnInv', ReaderInv', CopyInv'
  PROVE  PlayInv'
<1>1. TypeOK'
  BY TypeReader, TypePlayer DEF PlayInv
<1>2. WindowInv' /\ WriteInv' /\ CellsInv'
  BY WindowKept
<1>3. MoveInv'
  BY MoveKept
<1> QED
  BY <1>1, <1>2, <1>3 DEF PlayInv

(* The reader's own variables move, and no shared one. *)
LEMMA OwnPart ==
  ASSUME PlayInv, ReaderStep \/ Player, PlaybackOnly, UNCHANGED others,
         Flushing => rpc' \in Waiting /\ (eof => rpc' = "seek"), ReaderInv', CopyInv'
  PROVE  PlayInv'
<1>1. /\ UNCHANGED <<buffer, min_filepos, max_filepos, offset, read_filepos, stream, filler>>
      /\ eof' = eof
  BY DEF others, shared
<1>2. TurnInv'
  BY <1>1, TurnKept DEF stream
<1> QED
  BY <1>1, <1>2, ReaderPart

(* The types of what the reader's conditions compare. *)
LEMMA Types ==
  ASSUME TypeOK
  PROVE  /\ min_filepos \in Int /\ max_filepos \in Nat /\ offset \in Nat
         /\ read_filepos \in Nat /\ pos \in Nat /\ newb \in Int /\ cell \in Int
         /\ want \in 0 .. SectorSize /\ got \in Seq(Nat \cup {Junk}) /\ Len(got) \in Nat
         /\ spos \in Nat /\ fread \in Nat /\ flushval \in Nat /\ len \in Nat
         /\ wpos \in Int /\ space \in Int
         /\ eof \in BOOLEAN /\ seof \in BOOLEAN
         /\ NewMax \in Nat /\ NewOffset \in Nat
<1>1. max_filepos + len \in Nat /\ offset + BufferSize \in Nat
  BY RingSize DEF TypeOK, SharedType, FillerType
<1> QED
  BY <1>1 DEF TypeOK, SharedType, ReaderType, FillerType, NewMax, NewOffset

(* What a reader that does not wait knows of the window. *)
LEMMA NotWaiting ==
  ASSUME PlayInv, rpc \notin Waiting, ~Moving
  PROVE  /\ ~Flushing /\ read_filepos <= max_filepos /\ max_filepos <= NewMax
         /\ min_filepos <= read_filepos
         /\ Fits(min_filepos, NewMax, offset)
<1>1. ~Flushing
  BY DEF PlayInv, TurnInv
<1>2. read_filepos <= max_filepos /\ min_filepos <= read_filepos
  <2>1. read_filepos \in Int /\ max_filepos \in Int
    BY Types DEF PlayInv
  <2> QED
    BY <2>1 DEF PlayInv, ReaderInv, Moving
<1>3. max_filepos <= NewMax
  <2>1. max_filepos \in Nat /\ len \in Nat
    BY Types DEF PlayInv
  <2> QED
    BY <2>1 DEF NewMax
<1>4. NewOffset = offset \/ NewOffset = offset + BufferSize
  BY DEF NewOffset
<1>5. Fits(min_filepos, NewMax, offset)
  <2>1. /\ NewMax - min_filepos <= BufferSize
        /\ 0 <= NewMax - NewOffset /\ NewMax - NewOffset < BufferSize
    BY <1>1 DEF PlayInv, WindowInv
  <2>2. /\ NewMax \in Int /\ min_filepos \in Int /\ offset \in Int /\ NewOffset \in Int
        /\ BufferSize \in Nat
    BY Types, RingSize DEF PlayInv
  <2> QED
    BY <1>4, <2>1, <2>2 DEF Fits
<1> QED
  BY <1>1, <1>2, <1>3, <1>5

(* Steps that only look, or end a call. *)
LEMMA PlayLook ==
  ASSUME PlaybackOnly, PlayInv,
         PrefillWait \/ TestMax \/ TestMin \/ TestEof \/ Retry \/ Deliver
  PROVE  PlayInv'
<1> USE DEF tell, copy
<1>0. /\ ReaderInv /\ CopyInv /\ TypeOK /\ (EofMeansEnd /\ eof => spos >= FileSize)
      /\ (rpc \notin Waiting => ~Flushing)
      /\ (Flushing => (eof => rpc = "seek") /\ max_filepos <= read_filepos)
  <2>1. Flushing => max_filepos <= read_filepos
    <3>1. read_filepos \in Int /\ max_filepos \in Int /\ fread \in Int
      BY Types DEF PlayInv
    <3> QED
      BY <3>1 DEF PlayInv, TurnInv, Flushing
  <2> QED
    BY <2>1 DEF PlayInv, WindowInv, TurnInv
<1>1. ReaderStep /\ UNCHANGED others /\ ~Awaiting /\ rpc # "seek" /\ ~Awaiting'
  BY DEF ReaderStep, PrefillWait, TestMax, TestMin, TestEof, Retry, Deliver, Awaiting
<1>2. UNCHANGED <<buffer, min_filepos, max_filepos, offset, eof, read_filepos, spos, fpc>>
  BY <1>1 DEF others, shared, stream, filler
<1>m. fpc # "reseat" /\ ~Relocated /\ ~Relocated'
  BY <1>1, MovingWaits DEF Relocated
<1>3. CASE PrefillWait
  <2>1. (Flushing => rpc' \in Waiting /\ (eof => rpc' = "seek")) /\ ReaderInv' /\ CopyInv'
    BY <1>0, <1>1, <1>m, <1>2, <1>3 DEF PrefillWait, ReaderInv, CopyInv, Waiting, Holding, Reading
  <2> QED
    BY <1>1, <2>1, OwnPart
<1>4. CASE TestMax
  <2>1. Flushing => rpc' \in Waiting /\ (eof => rpc' = "seek")
    BY <1>0, <1>1, <1>4, Types DEF TestMax, Waiting
  <2>2. /\ rpc = "max" /\ rpc' = (IF read_filepos >= max_filepos THEN "empty" ELSE "min")
        /\ newb' = (IF read_filepos >= max_filepos THEN 0 ELSE max_filepos - read_filepos)
        /\ UNCHANGED <<pos, got, cell>>
    BY <1>4 DEF TestMax
  <2>3. read_filepos \in Int /\ max_filepos \in Int
    BY <1>0, Types
  <2>4. ReaderInv'
    BY <1>0, <1>1, <1>m, <1>2, <2>2, <2>3 DEF ReaderInv, Waiting, Reading
  <2>5. CopyInv'
    BY <1>0, <1>1, <1>m, <1>2, <2>2, <2>3 DEF CopyInv, Holding
  <2> QED
    BY <1>1, <2>1, <2>4, <2>5, OwnPart
<1>5. CASE TestMin
  <2>1. rpc' = "newb" /\ newb' = newb
    <3>1. min_filepos <= read_filepos
      BY <1>0, <1>m DEF ReaderInv
    <3>2. min_filepos \in Int /\ read_filepos \in Int
      BY <1>0, Types
    <3>3. ~(read_filepos < min_filepos)
      BY <3>1, <3>2
    <3> QED
      BY <1>5, <3>3 DEF TestMin
  <2>2. (Flushing => rpc' \in Waiting /\ (eof => rpc' = "seek")) /\ ReaderInv' /\ CopyInv'
    BY <1>0, <1>1, <1>m, <1>2, <1>5, <2>1 DEF TestMin, ReaderInv, CopyInv, Waiting, Holding, Reading
  <2> QED
    BY <1>1, <2>2, OwnPart
<1>6. CASE TestEof
  <2>1. rpc = "empty" /\ rpc' = (IF eof THEN "deliver" ELSE "sleep")
        /\ UNCHANGED <<pos, want, got, newb, cell>>
    BY <1>6 DEF TestEof
  <2>2. (Flushing => rpc' \in Waiting /\ (eof => rpc' = "seek")) /\ ReaderInv' /\ CopyInv'
    BY <1>0, <1>1, <1>m, <1>2, <2>1 DEF ReaderInv, CopyInv, Waiting, Holding, Reading
  <2> QED
    BY <1>1, <2>2, OwnPart
<1>7. CASE Retry
  <2>1. (Flushing => rpc' \in Waiting /\ (eof => rpc' = "seek")) /\ ReaderInv' /\ CopyInv'
    BY <1>0, <1>1, <1>m, <1>2, <1>7 DEF Retry, ReaderInv, CopyInv, Waiting, Holding, Reading
  <2> QED
    BY <1>1, <2>1, OwnPart
<1>8. CASE Deliver
  <2>1. /\ rpc = "deliver" /\ rpc' = "idle" /\ pos' = pos + Len(got) /\ got' = <<>>
        /\ UNCHANGED <<newb, cell>>
    BY <1>8 DEF Deliver
  <2>2. Len(got') = 0 /\ pos' = read_filepos
    BY <1>0, <2>1 DEF ReaderInv, Reading
  <2>3. (Flushing => rpc' \in Waiting /\ (eof => rpc' = "seek")) /\ ReaderInv' /\ CopyInv'
    BY <1>0, <1>1, <1>m, <1>2, <2>1, <2>2 DEF ReaderInv, CopyInv, Waiting, Holding, Reading
  <2> QED
    BY <1>1, <2>3, OwnPart
<1> QED
  BY <1>3, <1>4, <1>5, <1>6, <1>7, <1>8

(* The cell a reader that does not wait stands at. *)
LEMMA HeldCell ==
  ASSUME PlayInv, rpc \in Holding
  PROVE  Wrap(read_filepos - offset) \in 0 .. BufferSize - 1
<1>1. rpc \notin Waiting /\ ~Moving
  BY MovingWaits DEF Holding, Waiting, Awaiting
<1>2. /\ read_filepos <= max_filepos /\ max_filepos <= NewMax
      /\ min_filepos <= read_filepos /\ Fits(min_filepos, NewMax, offset)
  BY <1>1, NotWaiting
<1>n. /\ min_filepos \in Int /\ NewMax \in Int /\ offset \in Int /\ read_filepos \in Int
      /\ max_filepos \in Int
  BY Types DEF PlayInv
<1>3. read_filepos <= NewMax
  BY <1>2, <1>n
<1> QED
  BY <1>2, <1>3, <1>n, WrapIsCell

(* The steps from the test to the copy: they hold cells of the window. *)
LEMMA PlayCopy ==
  ASSUME PlaybackOnly, PlayInv, LoadNewb \/ LoadOffset \/ Copy \/ CopyFault
  PROVE  PlayInv'
<1> USE DEF tell, copy
<1>0. /\ ReaderInv /\ CopyInv /\ TypeOK /\ ReaderStep /\ UNCHANGED others
      /\ rpc \in Holding /\ rpc \notin Waiting
  BY DEF PlayInv, ReaderStep, LoadNewb, LoadOffset, Copy, CopyFault, Holding, Waiting
<1>2. UNCHANGED <<buffer, min_filepos, max_filepos, offset, eof, read_filepos, spos, fpc>>
      /\ fpc # "reseat" /\ ~Moving
  BY <1>0, MovingWaits DEF others, shared, stream, filler, Holding, Awaiting
<1>1. ~Flushing /\ read_filepos <= max_filepos /\ max_filepos <= NewMax
      /\ min_filepos <= read_filepos /\ Fits(min_filepos, NewMax, offset)
  BY <1>0, <1>2, NotWaiting
<1>3. 0 <= newb /\ newb <= max_filepos - read_filepos
  BY <1>0 DEF CopyInv
<1>n. /\ min_filepos \in Int /\ max_filepos \in Int /\ NewMax \in Int /\ offset \in Int
      /\ read_filepos \in Int /\ pos \in Int /\ newb \in Int /\ cell \in Int
      /\ want \in Nat /\ BufferSize \in Nat
  BY <1>0, Types, RingSize
<1>s. got \in Seq(Nat \cup {Junk}) /\ Len(got) \in Nat
  BY <1>0, Types
<1>c. CellsInv
  BY DEF PlayInv
<1>f. Fits(min_filepos, NewMax, offset)
  BY <1>1
<1>o. /\ read_filepos <= max_filepos /\ max_filepos <= NewMax /\ min_filepos <= read_filepos
  BY <1>1
<1>4. CASE LoadNewb
  <2>1. 0 <= newb' /\ newb' <= max_filepos - read_filepos
    <3>1. newb' \in {newb, max_filepos - read_filepos}
      BY <1>4 DEF LoadNewb
    <3> QED
      BY <1>3, <1>n, <1>o, <3>1
  <2>2. /\ rpc = "newb" /\ rpc' = "cell" /\ UNCHANGED <<pos, got>>
    BY <1>4 DEF LoadNewb
  <2>3. ReaderInv'
    BY <1>0, <1>2, <2>2 DEF ReaderInv, Waiting, Reading
  <2>4. CopyInv'
    BY <1>0, <1>2, <2>1, <2>2 DEF CopyInv, Holding
  <2> QED
    BY <1>0, <1>1, <2>3, <2>4, OwnPart
<1>5. CASE LoadOffset
  <2> DEFINE c == Wrap(read_filepos - offset)
  <2>1. c \in 0 .. BufferSize - 1
    BY <1>n, <1>o, <1>f, WrapIsCell
  <2>2. /\ rpc = "cell" /\ rpc' = "copy" /\ cell' = c /\ newb' = Piece(c)
        /\ UNCHANGED <<pos, want, got>>
    BY <1>5 DEF LoadOffset
  <2> HIDE DEF c
  <2>3. 0 <= newb' /\ newb' <= newb /\ cell' + newb' <= BufferSize
    BY <1>n, <1>3, <2>1, <2>2 DEF Piece, Min2
  <2>4. newb' <= max_filepos - read_filepos
    BY <1>n, <1>3, <2>1, <2>2 DEF Piece, Min2
  <2>5. cell' = Wrap(read_filepos' - offset')
    BY <1>2, <2>2 DEF c
  <2>6. ReaderInv' /\ CopyInv'
    BY <1>0, <1>1, <1>2, <2>2, <2>3, <2>4, <2>5 DEF ReaderInv, CopyInv, Waiting, Holding, Reading
  <2> QED
    BY <1>0, <1>1, <2>6, OwnPart
<1>6. CASE Copy
  <2> DEFINE f == [i \in 1 .. newb |->
                     IF cell + i - 1 \in Cells THEN buffer[cell + i - 1] ELSE Junk]
  <2>1. /\ rpc = "copy" /\ rpc' = "advance" /\ got' = got \o f
        /\ UNCHANGED <<pos, want, newb, cell>>
    BY <1>6 DEF Copy
  <2>2. cell = Wrap(read_filepos - offset) /\ cell + newb <= BufferSize
        /\ read_filepos = pos + Len(got)
    BY <1>0, <2>1 DEF CopyInv, ReaderInv, Reading
  <2>3. cell \in 0 .. BufferSize - 1
    <3>1. Wrap(read_filepos - offset) \in 0 .. BufferSize - 1
      BY <1>n, <1>o, <1>f, WrapIsCell
    <3> QED
      BY <2>2, <3>1
  <2>4. ASSUME NEW i \in 1 .. newb
        PROVE  f[i] = read_filepos + i - 1
    <3>1. cell + i - 1 \in Cells
      BY <1>3, <1>n, <2>2, <2>3 DEF Cells
    <3>2. i - 1 \in Nat /\ read_filepos + (i - 1) <= NewMax /\ read_filepos + (i - 1) < NewMax
      BY <1>n, <1>o, <1>3
    <3>3. Wrap(read_filepos - offset) + (i - 1) < BufferSize
      BY <1>n, <2>2
    <3>4. Wrap(read_filepos + (i - 1) - offset) = Wrap(read_filepos - offset) + (i - 1)
      <4>1. min_filepos <= read_filepos /\ read_filepos + (i - 1) <= NewMax /\ i - 1 \in Nat
        BY <1>o, <3>2
      <4> QED
        BY <1>n, <1>f, <3>3, <4>1, WrapRun
    <3>5. read_filepos + (i - 1) \in min_filepos .. NewMax - 1
      BY <1>n, <1>o, <3>2
    <3>6. buffer[Wrap(read_filepos + (i - 1) - offset)] = read_filepos + (i - 1)
      <4> DEFINE q == read_filepos + (i - 1)
      <4>1. \A p \in min_filepos .. NewMax - 1 : buffer[Wrap(p - offset)] = p
        BY <1>1, <1>2, <1>c DEF CellsInv
      <4>2. q \in min_filepos .. NewMax - 1
        BY <3>5
      <4> HIDE DEF q
      <4>3. buffer[Wrap(q - offset)] = q
        BY <4>1, <4>2
      <4> QED
        BY <1>n, <4>3 DEF q
    <3>7. cell + i - 1 = Wrap(read_filepos + (i - 1) - offset)
      BY <1>n, <2>2, <3>4
    <3> QED
      BY <1>n, <3>1, <3>6, <3>7
  <2>5. /\ newb \in Nat /\ f \in Seq(Nat \cup {Junk}) /\ Len(f) = newb
        /\ f \in [1 .. newb -> Nat \cup {Junk}]
    <3>1. newb \in Nat
      BY <1>0, <1>3, Types
    <3>2. f \in [1 .. newb -> Nat \cup {Junk}]
      BY <1>0, <3>1 DEF TypeOK, SharedType
    <3> HIDE DEF f
    <3> QED
      BY <3>1, <3>2
  <2> HIDE DEF f
  <2>6. Len(got') = Len(got) + newb
    BY <1>s, <2>1, <2>5, AppendRun
  <2>7. ASSUME NEW i \in 1 .. Len(got')
        PROVE  got'[i] = pos + i - 1
    <3>1. CASE i <= Len(got)
      <4>1. got'[i] = got[i] /\ i \in 1 .. Len(got)
        BY <1>s, <2>1, <2>5, <3>1
      <4> QED
        BY <1>0, <4>1 DEF CopyInv
    <3>2. CASE i > Len(got)
      <4>1. i - Len(got) \in 1 .. newb /\ got'[i] = f[i - Len(got)]
        BY <1>s, <2>1, <2>5, <2>6, <3>2
      <4> QED
        BY <1>n, <1>s, <2>2, <2>4, <4>1
    <3> QED
      BY <1>s, <3>1, <3>2
  <2>8. ReaderInv'
    <3>1. read_filepos' + newb' = pos' + Len(got')
      BY <1>n, <1>s, <1>2, <2>1, <2>2, <2>6
    <3>2. ~(read_filepos' > max_filepos')
      BY <1>n, <1>o, <1>2
    <3> QED
      BY <1>0, <1>2, <2>1, <3>1, <3>2 DEF ReaderInv, Reading
  <2>9. CopyInv'
    BY <1>2, <1>3, <2>1, <2>2, <2>7 DEF CopyInv, Holding
  <2> QED
    BY <1>0, <1>1, <2>8, <2>9, OwnPart
<1>7. CASE CopyFault
  <2>1. newb < 0
    BY <1>7 DEF CopyFault
  <2> QED
    BY <1>3, <1>n, <2>1
<1> QED
  BY <1>4, <1>5, <1>6, <1>7

(* The reader's position moves past what it has copied. *)
LEMMA PlayAdvance == ASSUME PlaybackOnly, PlayInv, Advance PROVE PlayInv'
<1>1. /\ rpc = "advance" /\ read_filepos' = read_filepos + newb /\ want' = want - newb
      /\ rpc' = (IF want' > 0 THEN "max" ELSE "deliver")
      /\ UNCHANGED <<buffer, min_filepos, max_filepos, offset, stream, filler, pos, got>>
      /\ eof' = eof /\ ReaderStep
  BY DEF Advance, ReaderStep, tell
<1>2. ReaderInv /\ CopyInv /\ TurnInv /\ TypeOK
  BY DEF PlayInv
<1>n. /\ min_filepos \in Int /\ max_filepos \in Int /\ read_filepos \in Int /\ pos \in Int
      /\ newb \in Int /\ want \in Int /\ Len(got) \in Nat
  BY <1>2, Types
<1>m. ~Moving /\ fpc # "reseat"
  BY <1>1, MovingWaits DEF Awaiting
<1>3. ~Flushing /\ read_filepos <= max_filepos
  BY <1>1, <1>m, NotWaiting DEF Waiting
<1>4. 0 <= newb /\ newb <= max_filepos - read_filepos
  BY <1>1, <1>2 DEF CopyInv, Holding
<1>5. read_filepos' \in Int /\ read_filepos' <= max_filepos /\ read_filepos <= read_filepos'
  BY <1>n, <1>1, <1>4
<1>6. max_filepos <= FileSize
  <2>1. NewMax <= FileSize
    BY DEF PlayInv, WindowInv
  <2> QED
    <3>1. rpc \notin Waiting
      BY <1>1 DEF Waiting
    <3>2. max_filepos <= NewMax
      BY <1>m, <3>1, NotWaiting
    <3>3. NewMax \in Int /\ FileSize \in Int
      BY <1>2, Types, RingSize
    <3> QED
      BY <1>n, <2>1, <3>2, <3>3
<1>7. UNCHANGED <<fpc, fread, flushval, pend, spos>> /\ (Flushing' <=> Flushing)
  BY <1>1 DEF filler, stream, Flushing
<1>8. TurnInv'
  <2>1. fread <= read_filepos => fread <= read_filepos'
    <3>1. fread \in Int
      BY <1>2, Types
    <3> QED
      BY <3>1, <1>n, <1>5
  <2>2. fpc = "window" => fread <= max_filepos
    <3>1. fread \in Int
      BY <1>2, Types
    <3> QED
      BY <1>2, <1>n, <1>3, <3>1 DEF TurnInv
  <2>3. fpc = "window" => ~(fread > max_filepos)
    <3>1. fread \in Int
      BY <1>2, Types
    <3> QED
      BY <1>n, <2>2, <3>1
  <2> QED
    BY <1>1, <1>2, <1>3, <1>7, <2>1, <2>3 DEF TurnInv, Flushing
<1>9. ReaderInv'
  <2>1. min_filepos <= read_filepos' /\ read_filepos' <= FileSize /\ ~(read_filepos' > max_filepos)
    <3>1. min_filepos <= read_filepos /\ FileSize \in Int
      BY <1>2, <1>m, RingSize DEF ReaderInv
    <3> QED
      BY <3>1, <1>n, <1>5, <1>6
  <2>2. read_filepos' = pos + Len(got)
    BY <1>1, <1>2 DEF ReaderInv, Reading
  <2>3. want' <= 0 => Len(got) >= SectorSize
    BY <1>1, <1>2, <1>n, RingSize DEF TypeOK, Accounting, Reading
  <2>4. rpc' = "deliver" => ~(Len(got) < SectorSize)
    BY <1>1, <1>n, <2>3, RingSize
  <2> QED
    BY <1>1, <1>m, <1>5, <1>7, <2>1, <2>2, <2>4 DEF ReaderInv, Reading, Relocated, Awaiting
<1>10. CopyInv'
  BY <1>1, <1>2 DEF CopyInv, Holding
<1> QED
  BY <1>1, <1>8, <1>9, <1>10, ReaderPart

(* A seek's second store, and the controls: the answer to a chapter moves the
   reader to where the filler has put read_filepos. *)
LEMMA PlayControl ==
  ASSUME PlaybackOnly, PlayInv,
         SeekClearEof \/ PostControl \/ ControlWait \/ ControlRetry \/ ControlAnswered
  PROVE  PlayInv'
<1> USE DEF tell, copy
<1>0. /\ ReaderInv /\ CopyInv /\ TypeOK /\ TurnInv /\ MoveInv /\ AskInv /\ ReaderStep
  BY DEF PlayInv, MoveInv, ReaderStep
<1>1. CASE SeekClearEof
  <2>1. /\ rpc = "seek" /\ eof' = FALSE /\ rpc' = "max"
        /\ UNCHANGED <<buffer, min_filepos, max_filepos, offset, read_filepos, ctl, stream,
                       filler, pos, got, newb, cell>>
    BY <1>1 DEF SeekClearEof
  <2>2. fpc' = fpc /\ fpc # "reseat" /\ ~Relocated
    BY <2>1, MovingWaits DEF filler, Relocated, Awaiting
  <2>3. TurnInv'
    BY <2>1, TurnKept DEF Waiting, stream
  <2>4. got = <<>> /\ Len(got) = 0 /\ pos = read_filepos
    BY <1>0, <2>1, <2>2 DEF TypeOK, Accounting, ReaderInv, Reading
  <2>5. read_filepos = pos + Len(got)
    BY <1>0, <2>4, Types
  <2>6. ReaderInv' /\ CopyInv'
    BY <1>0, <2>1, <2>2, <2>5 DEF ReaderInv, CopyInv, Waiting, Holding, Reading
  <2> QED
    BY <1>0, <2>1, <2>3, <2>6, ReaderPart
<1>2. CASE PostControl \/ ControlAnswered
  <2>1. /\ rpc \in {"post", "answer"} /\ rpc' \in {"idle", "answer"}
        /\ UNCHANGED <<shared, stream, filler, got, newb, cell>>
    BY <1>2 DEF PostControl, ControlAnswered, others
  <2>2. /\ UNCHANGED <<buffer, min_filepos, max_filepos, offset, read_filepos, fpc>> /\ eof' = eof
    BY <2>1 DEF shared, filler
  <2>3. ~Moving /\ fpc # "reseat"
    <3>1. CASE PostControl
      BY <3>1, MovingWaits DEF PostControl, Awaiting
    <3>2. CASE ControlAnswered
      BY <1>0, <3>2 DEF ControlAnswered, MoveInv, AskInv, Moving, Executed, Refusing, Idle, SeekChapter,
         Commands, NumChapters
    <3> QED
      BY <1>2, <3>1, <3>2
  <2>4. ~Flushing
    BY <1>0, <2>1, <2>3, NotWaiting DEF Waiting
  <2>5. TurnInv'
    BY <2>1, <2>2, <2>4, TurnKept DEF stream
  <2>6. pos' = read_filepos
    <3>1. CASE PostControl
      BY <1>0, <3>1 DEF PostControl, ReaderInv, Reading, Relocated, Awaiting
    <3>2. CASE ControlAnswered /\ Moved
      BY <3>2 DEF ControlAnswered
    <3>3. CASE ControlAnswered /\ ~Moved
      BY <1>0, <3>3 DEF ControlAnswered, ReaderInv, Reading, Relocated
    <3> QED
      BY <1>2, <3>1, <3>2, <3>3
  <2>7. Len(got') = 0
    BY <1>0, <2>1 DEF TypeOK, Accounting, Reading
  <2>8. ReaderInv' /\ CopyInv'
    BY <1>0, <2>1, <2>2, <2>3, <2>6, <2>7 DEF ReaderInv, CopyInv, Waiting, Holding, Reading, stream
  <2> QED
    BY <1>0, <2>1, <2>2, <2>5, <2>8, ReaderPart
<1>3. CASE ControlWait \/ ControlRetry
  <2>1. /\ rpc \in {"answer", "nap"} /\ rpc' \in {"answer", "nap"} /\ UNCHANGED others
        /\ UNCHANGED <<pos, got, newb, cell>>
    BY <1>3 DEF ControlWait, ControlRetry
  <2>2. UNCHANGED <<min_filepos, max_filepos, offset, eof, read_filepos, control, control_res,
                    asked, spos, fpc>>
    BY <2>1 DEF others, shared, ctl, stream, filler
  <2>3. ~Flushing
    BY <1>0, <2>1 DEF TurnInv, Waiting
  <2>4. Relocated' <=> Relocated
    BY <2>1, <2>2 DEF Relocated, Moved, Awaiting, Executed
  <2>5. ReaderInv' /\ CopyInv'
    BY <1>0, <2>1, <2>2, <2>4 DEF ReaderInv, CopyInv, Waiting, Holding, Reading
  <2> QED
    BY <1>0, <2>1, <2>3, <2>5, OwnPart
<1> QED
  BY <1>1, <1>2, <1>3

(* The player's calls: reads, seeks ahead inside the medium, questions,
   chapters. *)
LEMMA PlayPlayer == ASSUME PlaybackOnly, PlayInv, Player PROVE PlayInv'
<1> USE DEF tell, copy
<1>0. ReaderInv /\ CopyInv /\ TypeOK /\ TurnInv
  BY DEF PlayInv
<1>1. rpc = "idle"
  BY DEF Player, StartRead, StartSeek, StartControl
<1>m. ~Moving /\ fpc # "reseat" /\ ~Relocated
  BY <1>1, MovingWaits DEF Relocated, Awaiting
<1>2. ~Flushing /\ read_filepos <= max_filepos /\ pos = read_filepos /\ got = <<>> /\ Len(got) = 0
  BY <1>0, <1>1, <1>m, NotWaiting DEF Waiting, ReaderInv, TypeOK, Accounting, Reading
<1>3. CASE StartRead
  <2>1. rpc' = "max" /\ UNCHANGED <<others, pos, got, newb, cell>>
    BY <1>3 DEF StartRead
  <2>2. UNCHANGED <<buffer, min_filepos, max_filepos, offset, eof, read_filepos, spos, fpc>>
    BY <2>1 DEF others, shared, stream, filler
  <2>3. read_filepos = pos + Len(got)
    BY <1>0, <1>2, Types
  <2>4. ReaderInv' /\ CopyInv'
    BY <1>0, <1>1, <1>m, <2>1, <2>2, <2>3, Zenon DEF ReaderInv, CopyInv, Waiting, Holding, Reading
  <2> QED
    BY <1>2, <2>1, <2>4, OwnPart
<1>4. ASSUME NEW t \in SeekTargets, StartSeek(t)
      PROVE  PlayInv'
  <2>1. /\ Align(t) >= pos /\ pos' = Align(t) /\ read_filepos' = Align(t) /\ rpc' = "seek"
        /\ UNCHANGED <<buffer, min_filepos, max_filepos, offset, stream, filler, got, newb, cell>>
        /\ eof' = eof
    BY <1>4 DEF StartSeek, PlaybackOnly
  <2>2. Align(t) \in Nat /\ read_filepos <= Align(t) /\ Align(t) <= FileSize
    <3>1. t \in Nat /\ t < FileSize
      BY ConstantsAssumption DEF PlaybackOnly
    <3>2. Align(t) \in Nat /\ Align(t) <= t
      BY <3>1, AlignNat
    <3> QED
      BY <1>2, <2>1, <3>1, <3>2, RingSize
  <2>3. UNCHANGED <<fpc, fread, flushval, pend, spos>> /\ (Flushing' <=> Flushing)
    BY <2>1 DEF filler, stream, Flushing
  <2>4. TurnInv'
    <3>1. fread <= read_filepos => fread <= read_filepos'
      <4>1. read_filepos' = Align(t)
        BY <2>1
      <4>2. read_filepos \in Int /\ fread \in Int
        BY <1>0, Types
      <4> QED
        BY <2>2, <4>1, <4>2
    <3>2. fpc = "window" => ~(fread > max_filepos)
      <4>1. fread \in Int /\ max_filepos \in Int
        BY <1>0, Types
      <4> QED
        BY <1>0, <1>2, <4>1 DEF TurnInv
    <3> QED
      BY <1>0, <1>2, <2>1, <2>3, <3>1, <3>2 DEF TurnInv, Flushing
  <2>5. ReaderInv'
    <3>1. min_filepos <= read_filepos'
      <4>1. min_filepos \in Int /\ read_filepos \in Int /\ min_filepos <= read_filepos
        BY <1>0, <1>m, Types DEF ReaderInv
      <4> QED
        BY <2>1, <2>2, <4>1
    <3>2. ~ReadFails
      BY <1>4 DEF PlaybackOnly
    <3> QED
      BY <2>1, <2>2, <2>3, <3>1, <3>2 DEF ReaderInv, Waiting, Reading
  <2>6. CopyInv'
    BY <1>2, <2>1 DEF CopyInv, Holding
  <2> QED
    BY <1>0, <2>1, <2>4, <2>5, <2>6, ReaderPart
<1>5. ASSUME NEW c, NEW a, StartControl(c, a), Player PROVE PlayInv'
  <2>1. /\ rpc' = "post" /\ UNCHANGED <<shared, stream, filler, pos, got, newb, cell>>
    BY <1>5 DEF StartControl
  <2>2. /\ UNCHANGED <<buffer, min_filepos, max_filepos, offset, read_filepos, spos, fpc>>
        /\ eof' = eof
    BY <2>1 DEF shared, stream, filler
  <2>3. TurnInv'
    BY <1>2, <2>1, <2>2, TurnKept
  <2>4. ReaderInv' /\ CopyInv'
    BY <1>0, <1>1, <1>m, <2>1, <2>2, Zenon
    DEF ReaderInv, CopyInv, Waiting, Holding, Reading
  <2> QED
    BY <1>5, <2>1, <2>2, <2>3, <2>4, ReaderPart
<1> QED
  BY <1>3, <1>4, <1>5 DEF Player

LEMMA PlayReader == ASSUME PlaybackOnly, PlayInv, ReaderStep PROVE PlayInv'
BY PlayLook, PlayCopy, PlayAdvance, PlayControl DEF ReaderStep

-----------------------------------------------------------------------------
(* The filler. *)

(* A step that leaves the reader, the window and the medium alone keeps what
   is said of the reader. *)
LEMMA ReaderKept ==
  ASSUME PlayInv, UNCHANGED <<shared, spos, reader>>, fpc' # "reseat", fpc # "reseat",
         Relocated => Relocated'
  PROVE  ReaderInv' /\ CopyInv'
<1>1. UNCHANGED <<buffer, min_filepos, max_filepos, offset, eof, read_filepos, spos, rpc, pos,
                  got, newb, cell>>
  BY DEF shared, reader, tell, copy
<1>2. ReaderInv'
  BY <1>1 DEF PlayInv, ReaderInv
<1>3. CopyInv'
  BY <1>1 DEF PlayInv, CopyInv, Wrap
<1> QED
  BY <1>2, <1>3

(* The steps of a turn that change nothing of what is shared. *)
LEMMA QuietPart ==
  ASSUME PlaybackOnly, PlayInv, FillerStep, UNCHANGED <<shared, spos, reader>>,
         ~Flushing, ~Moving, fpc # "publish", fpc' \in {"window", "control", "load", "ack"},
         fpc' = "window" => fread' = read_filepos, Relocated => Relocated'
  PROVE  PlayInv'
<1>1. TypeOK' /\ MoveInv'
  BY TypeFiller, MoveKept DEF PlayInv
<1>2. /\ UNCHANGED <<buffer, min_filepos, max_filepos, offset, eof, read_filepos, spos>>
      /\ ~Flushing' /\ ~Moving' /\ NewMax' = NewMax /\ NewOffset' = NewOffset
      /\ fpc # "reseat" /\ fpc' # "reseat"
  BY DEF shared, Flushing, Moving, NewMax, NewOffset
<1>3. WindowInv'
  BY <1>2 DEF PlayInv, WindowInv
<1>4. TurnInv'
  <2>1. min_filepos <= read_filepos /\ read_filepos <= read_filepos
    BY <1>2, Types DEF PlayInv, ReaderInv
  <2> QED
    BY <1>2, <2>1 DEF TurnInv, Flushing
<1>5. WriteInv'
  BY DEF WriteInv
<1>6. CellsInv'
  BY <1>2 DEF PlayInv, CellsInv, Wrap
<1>7. ReaderInv' /\ CopyInv'
  BY <1>2, ReaderKept
<1> QED
  BY <1>1, <1>3, <1>4, <1>5, <1>6, <1>7 DEF PlayInv

(* The turn's looks at the mailbox.  A command that moves nothing is answered
   while the reader's position still is where it was. *)
LEMMA PlayQuiet ==
  ASSUME PlaybackOnly, PlayInv,
         LoadRead \/ BufferFull \/ NoControl \/ Refuse \/ ExecuteControl \/ Acknowledge
  PROVE  PlayInv'
<1> USE DEF rest, ctl, stream
<1>0. FillerStep /\ MoveInv /\ AskInv /\ ReaderInv
  BY DEF FillerStep, PlayInv, MoveInv
<1>1. CASE LoadRead
  BY <1>0, <1>1, QuietPart DEF LoadRead, Flushing, Moving, Relocated, Moved, Awaiting, Executed, reader
<1>2. CASE BufferFull
  BY <1>0, <1>2, QuietPart
  DEF BufferFull, AtPlan, Flushing, Moving, Relocated, Moved, Awaiting, Executed, reader
<1>3. CASE NoControl
  BY <1>0, <1>3, QuietPart DEF NoControl, Flushing, Moving, Relocated, Moved, Awaiting, Executed, reader
<1>4. CASE ExecuteControl /\ fpc' = "ack"
  <2>1. /\ fpc = "control" /\ control # Idle
        /\ UNCHANGED <<shared, spos, reader, control, asked, rpc>>
    BY <1>4 DEF ExecuteControl, reader
  <2>2. ~Relocated
    BY <2>1 DEF Relocated, Executed
  <2> QED
    BY <1>0, <1>4, <2>1, <2>2, QuietPart DEF Flushing, Moving
<1>5. CASE ExecuteControl /\ fpc' # "ack"
  <2>1. /\ fpc = "control" /\ control = SeekChapter /\ control_res' = Ok /\ fpc' = "moved"
        /\ UNCHANGED <<shared, reader, control, asked>>
    BY <1>5 DEF ExecuteControl
  <2>2. /\ UNCHANGED <<buffer, min_filepos, max_filepos, offset, eof, read_filepos, rpc, pos,
                       got, newb, cell>>
        /\ NewMax' = NewMax /\ ~Flushing /\ ~Flushing' /\ Moving' /\ ~Moving
    BY <2>1 DEF shared, reader, tell, copy, NewMax, Flushing, Moving
  <2>3. Awaiting /\ asked[1] = SeekChapter
    BY <1>0, <2>1 DEF AskInv, Idle, Reset, SeekChapter
  <2>4. Relocated' /\ Chapters # {}
    BY <1>0, <2>1, <2>2, <2>3 DEF Relocated, Moved, Awaiting, Executed, MoveInv
  <2>5. TypeOK' /\ MoveInv'
    BY <1>0, TypeFiller, MoveKept DEF PlayInv
  <2>6. WindowInv' /\ TurnInv' /\ WriteInv' /\ CellsInv'
    BY <2>1, <2>2, <2>4
    DEF PlayInv, WindowInv, TurnInv, WriteInv, CellsInv, Wrap, EofMeansEnd
  <2>7. ReaderInv' /\ CopyInv'
    BY <2>1, <2>2, <2>3, <2>4 DEF PlayInv, ReaderInv, CopyInv, Reading, Waiting, Holding, Awaiting,
       EofMeansEnd
  <2> QED
    BY <2>5, <2>6, <2>7 DEF PlayInv
<1>6. CASE Acknowledge
  <2>1. Relocated => Relocated'
    BY <1>6 DEF Acknowledge, Acknowledged, Relocated, Moved, Awaiting, reader
  <2> QED
    BY <1>0, <1>6, <2>1, QuietPart DEF Acknowledge, Flushing, Moving
<1>7. CASE Refuse
  <2>1. /\ fpc = "control" /\ (control = Idle => ~HasControl)
        /\ UNCHANGED <<shared, spos, reader, control, asked, rpc>>
    BY <1>7 DEF Refuse, reader, Idle, Reset
  <2>2. ~Relocated
    BY <1>0, <2>1 DEF Relocated, Moved, Executed, AskInv, Ok, Unsupported
  <2> QED
    BY <1>0, <1>7, <2>1, <2>2, QuietPart DEF Refuse, Flushing, Moving
<1> QED
  BY <1>1, <1>2, <1>3, <1>4, <1>5, <1>6, <1>7

(* The stream stands at a chapter: the reader is moved there, and the window
   begins anew. *)
LEMMA PlayReseat == ASSUME PlaybackOnly, PlayInv, Reseat PROVE PlayInv'
<1>0. /\ TypeOK' /\ MoveInv' /\ MoveInv /\ AskInv /\ WindowInv /\ ReaderInv /\ CopyInv /\ TypeOK
  BY TypeFiller, MoveKept DEF FillerStep, PlayInv, MoveInv
<1>1. /\ fpc = "moved" /\ fpc' = "reseat" /\ read_filepos' = spos
      /\ UNCHANGED <<buffer, min_filepos, max_filepos, offset, eof, control, control_res, asked,
                     spos, rpc, pos, got, newb, cell>>
  BY DEF Reseat, ctl, stream, reader, tell, copy
<1>2. control = SeekChapter /\ control_res = Ok /\ spos <= FileSize /\ Awaiting
  BY <1>0, <1>1 DEF MoveInv, Moving, AskInv, Idle, Reset, SeekChapter
<1>3. asked[1] = SeekChapter /\ Chapters # {}
  BY <1>0, <1>2 DEF MoveInv, AskInv, Idle, SeekChapter
<1>4. Relocated'
  BY <1>1, <1>2, <1>3 DEF Relocated, Moved, Awaiting, Executed
<1>5. NewMax' = NewMax /\ Moving' /\ ~Flushing'
  BY <1>1 DEF NewMax, Moving, Flushing
<1>6. WindowInv' /\ TurnInv' /\ WriteInv' /\ CellsInv'
  BY <1>0, <1>1, <1>3, <1>5 DEF WindowInv, TurnInv, WriteInv, CellsInv, EofMeansEnd
<1>7. ReaderInv' /\ CopyInv'
  BY <1>0, <1>1, <1>2, <1>4 DEF ReaderInv, CopyInv, Reading, Holding, Awaiting
<1> QED
  BY <1>0, <1>6, <1>7 DEF PlayInv

(* The window's bounds follow one by one; with the last of them it is empty and
   begins where the stream and the reader stand. *)
LEMMA PlayReseatStore ==
  ASSUME PlaybackOnly, PlayInv, fpc = "reseat",
         NEW f \in {"max", "min", "offset", "eof"}, FlushStore(f)
  PROVE  PlayInv'
<1>0. /\ TypeOK' /\ MoveInv' /\ MoveInv /\ AskInv /\ WindowInv /\ ReaderInv /\ CopyInv /\ TypeOK
  BY TypeFiller, MoveKept DEF FillerStep, PlayInv, MoveInv
<1>1. /\ max_filepos' = (IF f = "max" THEN spos ELSE max_filepos)
      /\ min_filepos' = (IF f = "min" THEN spos ELSE min_filepos)
      /\ offset' = (IF f = "offset" THEN spos ELSE offset)
      /\ pend' = pend \ {f}
      /\ fpc' = (IF pend' # {} THEN "reseat" ELSE "ack")
      /\ UNCHANGED <<buffer, read_filepos, control, control_res, asked, spos, rpc, pos, got, newb,
                     cell>>
  BY <1>0 DEF FlushStore, MoveInv, ctl, stream, reader, tell, copy
<1>2. /\ control = SeekChapter /\ control_res = Ok /\ spos <= FileSize /\ Awaiting
      /\ read_filepos = spos
  BY <1>0 DEF MoveInv, Moving, AskInv, Idle, Reset, SeekChapter
<1>3. asked[1] = SeekChapter /\ Chapters # {}
  BY <1>0, <1>2 DEF MoveInv, AskInv, Idle, SeekChapter
<1>4. Relocated'
  BY <1>1, <1>2, <1>3 DEF Relocated, Moved, Awaiting, Executed
<1>n. /\ spos \in Nat /\ min_filepos \in Int /\ max_filepos \in Int /\ BufferSize \in Nat \ {0}
  BY <1>0, Types, RingSize
<1>5. NewMax' = max_filepos' /\ NewMax = max_filepos /\ NewOffset' = offset' /\ ~Flushing'
  BY <1>1 DEF NewMax, NewOffset, Flushing
<1>6. fpc' = "ack" => max_filepos' = spos /\ min_filepos' = spos /\ offset' = spos
  <2>1. /\ "max" \notin pend => max_filepos = spos
        /\ "min" \notin pend => min_filepos = spos
        /\ "offset" \notin pend => offset = spos
    BY <1>0 DEF MoveInv
  <2>2. fpc' = "ack" => pend \subseteq {f}
    BY <1>1
  <2> QED
    BY <1>1, <2>1, <2>2
<1>7. WindowInv'
  <2>1. NewMax' <= FileSize /\ 0 <= min_filepos'
    BY <1>0, <1>1, <1>2, <1>5, <1>n DEF WindowInv
  <2>2. fpc' = "ack" => /\ spos' = NewMax' /\ NewMax' - min_filepos' <= BufferSize
                        /\ 0 <= NewMax' - NewOffset' /\ NewMax' - NewOffset' < BufferSize
    <3>1. spos - spos <= BufferSize /\ 0 <= spos - spos /\ spos - spos < BufferSize
      BY <1>n
    <3> QED
      BY <1>1, <1>5, <1>6, <3>1
  <2>3. Moving' \/ fpc' = "ack"
    BY <1>1 DEF Moving
  <2> QED
    BY <1>3, <2>1, <2>2, <2>3 DEF WindowInv, EofMeansEnd
<1>8. TurnInv' /\ WriteInv'
  BY <1>1, <1>5 DEF TurnInv, WriteInv
<1>9. CellsInv'
  <2>1. fpc' = "ack" => min_filepos' .. NewMax' - 1 = {}
    BY <1>5, <1>6, <1>n
  <2> QED
    BY <1>1, <2>1 DEF CellsInv
<1>10. ReaderInv'
  <2>1. fpc' = "ack" => /\ min_filepos' <= read_filepos' /\ read_filepos' <= max_filepos'
                        /\ ~(read_filepos' > max_filepos')
    BY <1>1, <1>2, <1>6, <1>n
  <2>2. rpc' \notin Reading
    BY <1>1, <1>2 DEF Awaiting, Reading
  <2> QED
    BY <1>0, <1>1, <1>2, <1>4, <2>1, <2>2 DEF ReaderInv, Reading
<1>11. CopyInv'
  BY <1>0, <1>1, <1>2 DEF CopyInv, Holding, Awaiting
<1> QED
  BY <1>0, <1>7, <1>8, <1>9, <1>10, <1>11 DEF PlayInv

(* A flush begins only when the reader waits ahead of the window: it is never
   behind it, and its position is the one the filler has loaded. *)
LEMMA FlushServes ==
  ASSUME PlayInv, fpc = "window", OutOfReach
  PROVE  /\ fread = read_filepos /\ max_filepos < fread
         /\ rpc \in Waiting /\ (eof => rpc = "seek") /\ spos < fread
<1>1. TypeOK /\ TurnInv /\ ReaderInv /\ WindowInv
  BY DEF PlayInv
<1>t. /\ fread \in Int /\ max_filepos \in Int /\ read_filepos \in Int /\ min_filepos \in Int
      /\ spos \in Int
  BY <1>1, Types
<1>2. fread > max_filepos /\ read_filepos = fread
  BY <1>1, <1>t DEF TurnInv, OutOfReach
<1>3. spos = max_filepos
  BY DEF PlayInv, WindowInv, Flushing, Moving, NewMax
<1>4. rpc \in Waiting /\ (eof => rpc = "seek")
  <2>1. read_filepos > max_filepos
    BY <1>2
  <2> QED
    BY <1>1, <2>1 DEF ReaderInv
<1> QED
  BY <1>2, <1>3, <1>4, <1>t

LEMMA PlayFlush ==
  ASSUME PlaybackOnly, PlayInv,
         StartFlush \/ \E f \in {"max", "min", "offset", "eof"} : FlushStore(f), fpc # "reseat"
  PROVE  PlayInv'
<1>0. TypeOK' /\ MoveInv' /\ WindowInv /\ TurnInv /\ ReaderInv /\ CopyInv /\ TypeOK
  BY TypeFiller, MoveKept DEF FillerStep, PlayInv
<1>1. CASE StartFlush
  <2>1. /\ fpc = "window" /\ OutOfReach /\ flushval' = read_filepos
        /\ pend' = {"max", "min", "offset"} /\ fpc' = "flush"
        /\ UNCHANGED <<shared, control, control_res, asked, stream, reader, fread>>
    BY <1>1 DEF StartFlush, rest, ctl
  <2>2. fread = read_filepos /\ max_filepos < fread /\ rpc \in Waiting
        /\ (eof => rpc = "seek") /\ spos < fread
    BY <2>1, FlushServes
  <2>3. /\ UNCHANGED <<buffer, min_filepos, max_filepos, offset, eof, read_filepos, spos, rpc>>
        /\ Flushing' /\ NewMax' = max_filepos /\ NewMax = max_filepos
        /\ Relocated' = Relocated
    BY <2>1 DEF shared, stream, reader, Flushing, NewMax, Relocated, Moved, Awaiting, Executed
  <2>4. WindowInv'
    BY <1>0, <2>1, <2>2, <2>3 DEF WindowInv
  <2>5. TurnInv'
    BY <2>1, <2>2, <2>3 DEF TurnInv
  <2>6. WriteInv' /\ CellsInv'
    BY <2>1, <2>3 DEF WriteInv, CellsInv
  <2>7. ReaderInv' /\ CopyInv'
    BY <2>1, <2>3, ReaderKept DEF stream
  <2> QED
    BY <1>0, <2>4, <2>5, <2>6, <2>7 DEF PlayInv
<1>2. ASSUME NEW f \in {"max", "min", "offset", "eof"}, FlushStore(f)
      PROVE  PlayInv'
  <2>1. fpc = "flush" /\ Flushing
    BY <1>2 DEF FlushStore, Flushing
  <2>2. /\ flushval = fread /\ read_filepos = fread /\ rpc \in Waiting
        /\ (eof => rpc = "seek") /\ spos < fread
        /\ pend \subseteq {"max", "min", "offset"}
    BY <1>0, <2>1 DEF TurnInv
  <2>3. f \in {"max", "min", "offset"}
    BY <1>2, <2>2 DEF FlushStore
  <2>4. /\ max_filepos' = (IF f = "max" THEN fread ELSE max_filepos)
        /\ min_filepos' = (IF f = "min" THEN fread ELSE min_filepos)
        /\ offset' = (IF f = "offset" THEN fread ELSE offset)
        /\ eof' = eof /\ pend' = pend \ {f}
        /\ fpc' = (IF pend' # {} THEN "flush" ELSE "seek")
    BY <1>2, <2>1, <2>2, <2>3 DEF FlushStore
  <2>5. /\ UNCHANGED <<buffer, read_filepos, control, control_res, asked, spos, fread, flushval>>
        /\ UNCHANGED <<rpc, pos, got, newb, cell>>
    BY <1>2 DEF FlushStore, ctl, stream, reader, tell, copy
  <2>6. Flushing' /\ NewMax' = max_filepos' /\ NewMax = max_filepos /\ ~Relocated'
    BY <2>1, <2>2, <2>4, <2>5 DEF Flushing, NewMax, Relocated, Waiting, Awaiting
  <2>n. /\ min_filepos \in Int /\ max_filepos \in Int /\ fread \in Nat /\ FileSize \in Int
    BY <1>0, Types, RingSize
  <2>7. fread <= FileSize /\ min_filepos <= fread
    BY <1>0, <2>1, <2>2 DEF ReaderInv
  <2>8. WindowInv'
    <3>1. max_filepos' <= FileSize /\ 0 <= min_filepos'
      BY <1>0, <2>4, <2>6, <2>7, <2>n DEF WindowInv
    <3> QED
      BY <1>0, <2>2, <2>4, <2>5, <2>6, <3>1 DEF WindowInv
  <2>9. TurnInv'
    <3>1. fpc' = "seek" => "max" \notin pend' /\ "min" \notin pend' /\ "offset" \notin pend'
      BY <2>4
    <3>2. /\ "max" \notin pend' => max_filepos' = fread
          /\ "min" \notin pend' => min_filepos' = fread
          /\ "offset" \notin pend' => offset' = fread
          /\ "max" \in pend' => max_filepos' < fread
      BY <1>0, <2>1, <2>3, <2>4 DEF TurnInv
    <3> QED
      BY <2>2, <2>4, <2>5, <2>6, <3>1, <3>2 DEF TurnInv
  <2>10. WriteInv' /\ CellsInv'
    BY <2>4, <2>6 DEF WriteInv, CellsInv
  <2>11. ReaderInv' /\ CopyInv'
    <3>1. min_filepos' <= read_filepos
      BY <2>2, <2>4, <2>7, <2>n
    <3>w. ~Awaiting /\ (rpc \notin Reading => pos = read_filepos)
      BY <1>0, <2>2 DEF ReaderInv, Relocated, Awaiting, Waiting
    <3>r. ReadFails => read_filepos' <= max_filepos'
      BY <1>0, <2>1, <2>2, <2>4, <2>5, <2>n DEF ReaderInv
    <3>2. ReaderInv'
      BY <1>0, <2>1, <2>2, <2>4, <2>5, <2>6, <3>1, <3>w, <3>r DEF ReaderInv
    <3>3. CopyInv'
      BY <1>0, <2>2, <2>5 DEF CopyInv, Waiting, Holding
    <3> QED
      BY <3>2, <3>3
  <2> QED
    BY <1>0, <2>8, <2>9, <2>10, <2>11 DEF PlayInv
<1> QED
  BY <1>1, <1>2

(* The medium follows: the window is empty and begins where the reader waits. *)
LEMMA PlayFillSeek == ASSUME PlaybackOnly, PlayInv, FillSeek PROVE PlayInv'
<1>0. TypeOK' /\ MoveInv' /\ WindowInv /\ TurnInv /\ ReaderInv /\ CopyInv /\ TypeOK
  BY TypeFiller, MoveKept DEF FillerStep, PlayInv
<1>1. /\ fpc = "seek" /\ fpc' = "plan" /\ spos' = fread
      /\ UNCHANGED <<shared, control, asked, reader, fread>>
  BY DEF FillSeek, PlaybackOnly, ctl
<1>2. UNCHANGED <<buffer, min_filepos, max_filepos, offset, eof, read_filepos, rpc, pos, got,
                newb, cell>>
  BY <1>1 DEF shared, reader, tell, copy
<1>3. /\ max_filepos = fread /\ min_filepos = fread /\ offset = fread
      /\ read_filepos = fread /\ rpc \in Waiting /\ (eof => rpc = "seek") /\ spos < fread
  BY <1>0, <1>1 DEF TurnInv, Flushing
<1>e. EofMeansEnd => ~eof
  <2>1. read_filepos <= FileSize
    BY <1>0 DEF ReaderInv
  <2>2. spos \in Int /\ fread \in Int /\ FileSize \in Int
    BY <1>0, Types, RingSize
  <2>3. ~(spos >= FileSize)
    BY <1>3, <2>1, <2>2
  <2> QED
    BY <1>0, <2>3 DEF WindowInv
<1>4. ~Flushing' /\ NewMax' = fread /\ NewOffset' = fread /\ NewMax = max_filepos /\ fread \in Int
  BY <1>0, <1>1, <1>2, <1>3, Types DEF Flushing, NewMax, NewOffset
<1>5. WindowInv'
  <2>1. fread - fread <= BufferSize /\ 0 <= fread - fread /\ fread - fread < BufferSize
    BY <1>4, RingSize
  <2> QED
    BY <1>0, <1>1, <1>2, <1>3, <1>4, <1>e, <2>1 DEF WindowInv
<1>6. TurnInv'
  BY <1>1, <1>2, <1>3, <1>4 DEF TurnInv
<1>7. WriteInv' /\ CellsInv'
  BY <1>1, <1>2, <1>3, <1>4 DEF WriteInv, CellsInv
<1>8. ReaderInv' /\ CopyInv'
  <2>1. ReaderInv'
    BY <1>0, <1>1, <1>2, <1>3, <1>4 DEF ReaderInv, Relocated, Awaiting, Waiting
  <2>2. CopyInv'
    BY <1>0, <1>2, <1>3 DEF CopyInv, Waiting, Holding
  <2> QED
    BY <2>1, <2>2
<1> QED
  BY <1>0, <1>5, <1>6, <1>7, <1>8 DEF PlayInv

(* What a fill may write and what it gives up: the new bytes fit the ring with
   what is kept, and nothing the reader may still want is given up. *)
LEMMA PlanFits ==
  ASSUME TypeOK, 0 <= max_filepos - offset, max_filepos - offset < BufferSize,
         Free >= FillLimit
  PROVE  /\ FillAt = max_filepos - offset
         /\ Room \in 1 .. BufferSize
         /\ NewMin \in Int /\ min_filepos <= NewMin
         /\ NewMin <= min_filepos \/ NewMin <= fread
         /\ max_filepos + Room - NewMin <= BufferSize
<1>n. /\ min_filepos \in Int /\ max_filepos \in Int /\ offset \in Int /\ fread \in Int
      /\ BufferSize \in Nat /\ FillLimit \in Nat /\ SectorSize \in Nat \ {0}
      /\ SectorSize <= FillLimit /\ ReadChunk \in Nat \ {0} /\ BackSize \in Nat
  BY Types, RingSize, Sizes, ConstantsAssumption
<1>1. FillAt = max_filepos - offset
  BY <1>n DEF FillAt
<1>2. /\ Newb \in Nat /\ max_filepos - fread <= Newb
      /\ Newb = 0 \/ Newb = max_filepos - fread
  BY <1>n DEF Newb, Max2
<1>3. Back \in Nat
  BY <1>n DEF Back, Max2, Min2
<1>4. Free \in Int /\ Free + Newb <= BufferSize /\ SectorSize <= Free
  BY <1>n, <1>2, <1>3 DEF Free
<1>5. Room \in Int /\ 1 <= Room /\ Room <= Free
  BY <1>n, <1>1, <1>4 DEF Room, Min2
<1>6. Room \in 1 .. BufferSize
  BY <1>n, <1>2, <1>4, <1>5
<1>7. /\ NewMin \in Int /\ min_filepos <= NewMin
      /\ fread - (BufferSize - (Room + Newb)) <= NewMin
      /\ NewMin = min_filepos \/ NewMin = fread - (BufferSize - (Room + Newb))
  BY <1>n, <1>2, <1>5 DEF NewMin, Max2
<1>8. NewMin <= min_filepos \/ NewMin <= fread
  BY <1>n, <1>2, <1>4, <1>5, <1>7
<1>9. max_filepos + Room - NewMin <= BufferSize
  BY <1>n, <1>2, <1>5, <1>7
<1> QED
  BY <1>1, <1>6, <1>7, <1>8, <1>9

LEMMA PlayPlan == ASSUME PlaybackOnly, PlayInv, PlanFill PROVE PlayInv'
<1>0. TypeOK' /\ MoveInv' /\ WindowInv /\ TurnInv /\ CellsInv /\ ReaderInv /\ CopyInv /\ TypeOK
  BY TypeFiller, MoveKept DEF FillerStep, PlayInv
<1>1. /\ fpc \in {"window", "plan"} /\ Free >= FillLimit /\ fpc' = "read"
      /\ wpos' = FillAt /\ space' = Room /\ min_filepos' = NewMin
      /\ UNCHANGED <<buffer, max_filepos, offset, eof, read_filepos, control, control_res, asked, spos,
                     rpc, pos, got, newb, cell>>
  BY DEF PlanFill, AtPlan, ctl, stream, reader, tell, copy
<1>2. ~Flushing /\ NewMax = max_filepos /\ NewOffset = offset
      /\ ~Flushing' /\ NewMax' = max_filepos /\ NewOffset' = offset
      /\ ~Moving /\ ~Moving' /\ Relocated' = Relocated
  BY <1>1 DEF Flushing, Moving, NewMax, NewOffset, Relocated, Moved, Awaiting, Executed
<1>3. /\ spos = max_filepos
      /\ 0 <= max_filepos - offset /\ max_filepos - offset < BufferSize
  BY <1>0, <1>2 DEF WindowInv
<1>4. /\ FillAt = max_filepos - offset
      /\ Room \in 1 .. BufferSize
      /\ NewMin \in Int /\ min_filepos <= NewMin
      /\ NewMin <= min_filepos \/ NewMin <= fread
      /\ max_filepos + Room - NewMin <= BufferSize
  BY <1>0, <1>1, <1>3, PlanFits
<1>n. /\ min_filepos \in Int /\ max_filepos \in Int /\ fread \in Int /\ read_filepos \in Int
      /\ BufferSize \in Nat /\ Room \in Int
  BY <1>0, <1>4, Types, RingSize
<1>5. WindowInv'
  <2>1. max_filepos - NewMin <= BufferSize
    BY <1>n, <1>4
  <2>2. 0 <= NewMin
    BY <1>0, <1>n, <1>4 DEF WindowInv
  <2> QED
    BY <1>0, <1>1, <1>2, <1>3, <2>1, <2>2 DEF WindowInv
<1>6. TurnInv'
  BY <1>1, <1>2 DEF TurnInv
<1>7. WriteInv'
  BY <1>1, <1>4 DEF WriteInv
<1>8. CellsInv'
  <2>1. \A p \in NewMin .. max_filepos - 1 : p \in min_filepos .. max_filepos - 1
    BY <1>n, <1>4
  <2>2. \A p \in min_filepos .. max_filepos - 1 : buffer[Wrap(p - offset)] = p
    BY <1>0, <1>1, <1>2 DEF CellsInv
  <2> QED
    BY <1>1, <1>2, <2>1, <2>2 DEF CellsInv, Wrap
<1>9. ReaderInv' /\ CopyInv'
  <2>1. NewMin <= read_filepos
    BY <1>0, <1>1, <1>n, <1>4 DEF TurnInv, ReaderInv
  <2>2. ReaderInv'
    BY <1>0, <1>1, <1>2, <2>1 DEF ReaderInv
  <2>3. CopyInv'
    BY <1>0, <1>1 DEF CopyInv, Wrap
  <2> QED
    BY <2>2, <2>3
<1> QED
  BY <1>0, <1>5, <1>6, <1>7, <1>8, <1>9 DEF PlayInv

(* What a fill of n bytes leaves in the ring: the window, and the new bytes
   behind it. *)
LEMMA WrittenHolds ==
  ASSUME NEW b \in Int, TypeOK, spos = max_filepos, wpos = max_filepos - offset,
         0 <= wpos, wpos < BufferSize, NEW n \in Nat, n <= BufferSize,
         max_filepos + n - b <= BufferSize,
         \A p \in b .. max_filepos - 1 : buffer[Wrap(p - offset)] = p,
         NEW q \in b .. max_filepos + n - 1
  PROVE  Written(n)[Wrap(q - offset)] = q
<1>n. /\ max_filepos \in Int /\ offset \in Int /\ wpos \in Int /\ BufferSize \in Nat \ {0}
      /\ q \in Int /\ b <= q /\ q < max_filepos + n
  <2>1. /\ max_filepos \in Int /\ offset \in Int /\ wpos \in Int /\ BufferSize \in Nat \ {0}
    BY Types, RingSize
  <2> QED
    BY <2>1
<1> DEFINE at(c) == IF c >= wpos THEN c - wpos ELSE c - wpos + BufferSize
           c == Wrap(q - offset)
<1>1. CASE q >= max_filepos
  <2>1. c \in 0 .. BufferSize - 1 /\ at(c) = q - max_filepos
    BY <1>n, <1>1 DEF Wrap
  <2>2. at(c) \in 0 .. n - 1 /\ spos + at(c) = q
    BY <1>n, <1>1, <2>1
  <2> HIDE DEF c, at
  <2>3. Written(n)[c] = IF at(c) \in 0 .. n - 1 THEN spos + at(c) ELSE buffer[c]
    BY <2>1 DEF Written, Cells, at
  <2> QED
    BY <2>2, <2>3 DEF c
<1>2. CASE q < max_filepos
  <2>1. c \in 0 .. BufferSize - 1 /\ at(c) = BufferSize - (max_filepos - q)
    BY <1>n, <1>2 DEF Wrap
  <2>2. at(c) \notin 0 .. n - 1
    BY <1>n, <1>2, <2>1
  <2>3. buffer[Wrap(q - offset)] = q
    <3>1. q \in b .. max_filepos - 1
      BY <1>n, <1>2
    <3> QED
      BY <3>1
  <2> HIDE DEF c, at
  <2>4. Written(n)[c] = IF at(c) \in 0 .. n - 1 THEN spos + at(c) ELSE buffer[c]
    BY <2>1 DEF Written, Cells, at
  <2> QED
    BY <2>2, <2>3, <2>4 DEF c
<1> QED
  BY <1>n, <1>1, <1>2

LEMMA PlayFillRead ==
  ASSUME PlaybackOnly, PlayInv, NEW n \in 0 .. BufferSize, FillRead(n)
  PROVE  PlayInv'
<1>0. TypeOK' /\ MoveInv' /\ WindowInv /\ WriteInv /\ CellsInv /\ ReaderInv /\ CopyInv /\ TypeOK
  BY TypeFiller, MoveKept DEF FillerStep, PlayInv
<1>1. /\ fpc = "read" /\ fpc' = "publish" /\ n <= space /\ n <= Max2(FileSize - spos, 0)
      /\ n = 0 => spos >= FileSize \/ ReadFails
      /\ buffer' = Written(n) /\ spos' = spos + n /\ len' = n
      /\ pend' = {"eof", "max"} \cup (IF wpos + n >= BufferSize THEN {"offset"} ELSE {})
      /\ UNCHANGED <<min_filepos, max_filepos, offset, eof, read_filepos, control, control_res, asked,
                     rpc, pos, got, newb, cell>>
  BY DEF FillRead, PositionLost, PlaybackOnly, reader, tell, copy
<1>2. ~Flushing /\ NewMax = max_filepos /\ NewOffset = offset
      /\ ~Flushing' /\ NewMax' = max_filepos + n
      /\ NewOffset' = (IF wpos + n >= BufferSize THEN offset + BufferSize ELSE offset)
      /\ ~Moving /\ ~Moving' /\ Relocated' = Relocated
  BY <1>1 DEF Flushing, Moving, NewMax, NewOffset, Relocated, Moved, Awaiting, Executed
<1>3. /\ spos = max_filepos /\ wpos = max_filepos - offset
      /\ 0 <= wpos /\ wpos < BufferSize
      /\ space \in 1 .. BufferSize
      /\ max_filepos + space - min_filepos <= BufferSize
  BY <1>0, <1>1, <1>2 DEF WindowInv, WriteInv
<1>n. /\ min_filepos \in Int /\ max_filepos \in Int /\ offset \in Int /\ spos \in Int
      /\ wpos \in Int /\ BufferSize \in Nat \ {0} /\ n \in Nat /\ FileSize \in Nat
      /\ Len(got) \in Nat
  BY <1>0, Types, RingSize
<1>4. n <= BufferSize /\ max_filepos + n - min_filepos <= BufferSize
  BY <1>n, <1>1, <1>3
<1>5. spos' >= FileSize <=> spos + n >= FileSize
  BY <1>1
<1>6. spos >= FileSize => spos' >= FileSize
  BY <1>n, <1>5
<1>7. WindowInv'
  <2>1. max_filepos <= FileSize
    BY <1>0, <1>2 DEF WindowInv
  <2>2. max_filepos + n <= FileSize
    BY <1>n, <1>1, <1>3, <2>1 DEF Max2
  <2>3. 0 <= NewMax' - NewOffset' /\ NewMax' - NewOffset' < BufferSize
    BY <1>n, <1>2, <1>3, <1>4
  <2>4. spos' = NewMax' /\ NewMax' - min_filepos' <= BufferSize /\ NewMax' <= FileSize
    <3>1. spos' = spos + n /\ min_filepos' = min_filepos
      BY <1>1
    <3>2. spos + n = max_filepos + n
      BY <1>3
    <3>3. spos' = NewMax'
      BY <1>2, <3>1, <3>2
    <3>4. NewMax' - min_filepos' <= BufferSize
      <4>1. NewMax' = max_filepos + n /\ min_filepos' = min_filepos
        BY <1>1, <1>2
      <4> QED
        BY <1>n, <1>4, <4>1
    <3> QED
      BY <1>2, <2>2, <3>3, <3>4
  <2>5. EofMeansEnd /\ eof' => spos' >= FileSize
    BY <1>0, <1>1, <1>6 DEF WindowInv
  <2>6. 0 <= min_filepos'
    BY <1>0, <1>1 DEF WindowInv
  <2> QED
    BY <2>3, <2>4, <2>5, <2>6 DEF WindowInv
<1>8. TurnInv'
  BY <1>1, <1>2 DEF TurnInv
<1>9. WriteInv'
  BY <1>n, <1>1, <1>6 DEF WriteInv
<1>10. CellsInv'
  <2>1. \A p \in min_filepos .. max_filepos - 1 : buffer[Wrap(p - offset)] = p
    BY <1>0, <1>1, <1>2 DEF CellsInv
  <2>2. \A q \in min_filepos .. max_filepos + n - 1 : Written(n)[Wrap(q - offset)] = q
    BY <1>0, <1>n, <1>3, <1>4, <2>1, WrittenHolds
  <2>3. \A p : Wrap(p - offset)' = Wrap(p - offset)
    BY <1>1 DEF Wrap
  <2>4. \A q \in min_filepos' .. NewMax' - 1 : buffer'[Wrap(q - offset)'] = q
    <3>1. NewMax' = max_filepos + n /\ min_filepos' = min_filepos /\ buffer' = Written(n)
      BY <1>1, <1>2
    <3> QED
      BY <1>n, <2>2, <2>3, <3>1
  <2> QED
    BY <1>2, <2>4 DEF CellsInv
<1>11. ReaderInv'
  BY <1>0, <1>1, <1>2, <1>6 DEF ReaderInv
<1>12. CopyInv'
  BY <1>0, <1>1 DEF CopyInv, Wrap
<1> QED
  BY <1>0, <1>7, <1>8, <1>9, <1>10, <1>11, <1>12 DEF PlayInv

(* What is within reach stays so when the window grows. *)
LEMMA Further ==
  ASSUME NEW r \in Int, NEW m \in Int, NEW m1 \in Int, NEW k \in Int, m <= m1
  PROVE  k <= m - r => k <= m1 - r
OBVIOUS

(* The stores of a fill, in any order: max_filepos lets the reader in, offset
   moves no byte to another cell, eof comes true only at the medium's end. *)
LEMMA PlayPublish ==
  ASSUME PlaybackOnly, PlayInv, NEW f \in {"max", "min", "offset", "eof"}, Publish(f)
  PROVE  PlayInv'
<1>0. TypeOK' /\ MoveInv' /\ WindowInv /\ WriteInv /\ CellsInv /\ ReaderInv /\ CopyInv /\ TypeOK
  BY TypeFiller, MoveKept DEF FillerStep, PlayInv
<1>1. /\ fpc = "publish" /\ f \in pend /\ pend' = pend \ {f}
      /\ eof' = (IF f = "eof" THEN EofIfNone ELSE eof)
      /\ max_filepos' = (IF f = "max" THEN max_filepos + len ELSE max_filepos)
      /\ offset' = (IF f = "offset" THEN offset + BufferSize ELSE offset)
      /\ fpc' = (IF pend' # {} THEN "publish" ELSE "control")
      /\ UNCHANGED <<buffer, min_filepos, read_filepos, control, control_res, asked, spos, len,
                     rpc, pos, got, newb, cell>>
  BY DEF Publish, ctl, stream, reader, tell, copy
<1>n. /\ min_filepos \in Int /\ max_filepos \in Nat /\ offset \in Int /\ spos \in Int
      /\ read_filepos \in Int /\ newb \in Int /\ NewMax \in Int /\ NewOffset \in Int
      /\ len \in Nat /\ BufferSize \in Nat \ {0} /\ FileSize \in Nat
  BY <1>0, Types, RingSize
<1>2. /\ ~Flushing /\ ~Flushing' /\ NewMax' = NewMax /\ NewOffset' = NewOffset
      /\ ~Moving /\ ~Moving' /\ Relocated' = Relocated
  BY <1>1 DEF Flushing, Moving, NewMax, NewOffset, Relocated, Moved, Awaiting, Executed
<1>3. /\ spos = NewMax /\ NewMax - min_filepos <= BufferSize /\ NewMax <= FileSize
      /\ 0 <= NewMax - NewOffset /\ NewMax - NewOffset < BufferSize
  BY <1>0, <1>2 DEF WindowInv
<1>4. max_filepos <= max_filepos' /\ max_filepos <= NewMax /\ max_filepos' \in Int
  BY <1>n, <1>1 DEF NewMax
<1>5. f = "offset" => NewOffset = offset + BufferSize
  BY <1>1 DEF NewOffset
<1>6. ASSUME NEW p \in Int, min_filepos <= p, p <= NewMax
      PROVE  Wrap(p - offset') = Wrap(p - offset)
  <2>1. CASE f = "offset"
    <3>1. BufferSize <= NewMax - offset /\ NewMax - offset < 2 * BufferSize
      BY <1>n, <1>3, <1>5, <2>1
    <3> QED
      BY <1>1, <1>n, <1>3, <1>6, <2>1, <3>1, WrapTurn
  <2>2. CASE f # "offset"
    BY <1>1, <2>2
  <2> QED
    BY <2>1, <2>2
<1>7. eof' => eof \/ (f = "eof" /\ len = 0)
  BY <1>1 DEF EofIfNone
<1>8. f = "eof" /\ len = 0 => (spos >= FileSize \/ ReadFails) /\ max_filepos = NewMax
  BY <1>0, <1>1, <1>n DEF WriteInv, NewMax
<1>9. WindowInv'
  BY <1>0, <1>1, <1>2, <1>3, <1>7, <1>8 DEF WindowInv, EofMeansEnd
<1>10. TurnInv'
  BY <1>1, <1>2 DEF TurnInv, Flushing
<1>11. WriteInv'
  BY <1>0, <1>1 DEF WriteInv
<1>12. CellsInv'
  <2>1. ASSUME NEW p \in min_filepos .. NewMax - 1
        PROVE  buffer[Wrap(p - offset')] = p
    <3>1. p \in Int /\ min_filepos <= p /\ p <= NewMax
      BY <1>n
    <3>2. Wrap(p - offset') = Wrap(p - offset)
      BY <1>6, <3>1
    <3>3. buffer[Wrap(p - offset)] = p
      BY <1>0, <1>1, <1>2 DEF CellsInv
    <3> QED
      BY <3>2, <3>3
  <2>2. CellsInv' <=> \A p \in min_filepos .. NewMax - 1 : buffer[Wrap(p - offset')] = p
    BY <1>1, <1>2 DEF CellsInv, Wrap
  <2> QED
    BY <2>1, <2>2
<1>13. ReaderInv'
  <2>1. read_filepos > max_filepos' => read_filepos > max_filepos
    BY <1>n, <1>4
  <2>2. ReadFails => read_filepos <= max_filepos /\ read_filepos <= max_filepos'
    BY <1>0, <1>1, <1>n, <1>4 DEF ReaderInv
  <2>3. read_filepos > max_filepos => ~(f = "eof" /\ len = 0)
    BY <1>0, <1>1, <1>n, <1>3, <1>8, <2>2 DEF ReaderInv
  <2> QED
    BY <1>0, <1>1, <1>2, <1>7, <2>1, <2>2, <2>3 DEF ReaderInv
<1>14. CopyInv'
  <2>1. newb <= max_filepos - read_filepos => newb <= max_filepos' - read_filepos
    <3>1. newb \in Int /\ max_filepos \in Int /\ read_filepos \in Int
      BY <1>n
    <3>2. max_filepos <= max_filepos' /\ max_filepos' \in Int
      BY <1>4
    <3> QED
      BY <3>1, <3>2, Further
  <2>2. rpc \in {"copy", "advance"} => Wrap(read_filepos - offset') = Wrap(read_filepos - offset)
    <3>1. rpc \in {"copy", "advance"} => min_filepos <= read_filepos /\ read_filepos <= NewMax
      BY <1>0, <1>1, <1>n, <1>4 DEF ReaderInv, Waiting
    <3> QED
      BY <1>n, <1>6, <3>1
  <2>3. CopyInv' <=>
          /\ rpc \in {"min"} \cup Holding => 0 <= newb /\ newb <= max_filepos' - read_filepos
          /\ rpc \in {"copy", "advance"} => /\ cell = Wrap(read_filepos - offset')
                                            /\ cell + newb <= BufferSize
          /\ \A i \in 1 .. Len(got) : got[i] = pos + i - 1
    BY <1>1 DEF CopyInv, Wrap
  <2> QED
    BY <1>0, <2>1, <2>2, <2>3 DEF CopyInv
<1> QED
  BY <1>0, <1>9, <1>10, <1>11, <1>12, <1>13, <1>14 DEF PlayInv

LEMMA PlayFiller == ASSUME PlaybackOnly, PlayInv, FillerStep PROVE PlayInv'
<1>1. ASSUME NEW f \in {"max", "min", "offset", "eof"}, FlushStore(f) PROVE PlayInv'
  BY <1>1, PlayFlush, PlayReseatStore
<1>2. CASE StartFlush
  BY <1>2, PlayFlush DEF StartFlush
<1> QED
  BY <1>1, <1>2, PlayQuiet, PlayFillSeek, PlayPlan, PlayFillRead, PlayPublish, PlayReseat
  DEF FillerStep

-----------------------------------------------------------------------------
(* A step of the program keeps PlayInv. *)
LEMMA PlayStep == PlaybackOnly /\ PlayInv /\ [Next]_vars => PlayInv'
<1> SUFFICES ASSUME PlaybackOnly, PlayInv, [Next]_vars PROVE PlayInv'
  OBVIOUS
<1>1. ~Interrupt
  BY DEF Interrupt, PrefillInterrupt, ReadInterrupt, ControlInterrupt, PlaybackOnly
<1>2. CASE UNCHANGED vars
  BY <1>2 DEF vars, shared, ctl, stream, reader, tell, copy, filler, PlayInv, TypeOK, SharedType,
       ControlType, ReaderType, FillerType, Accounting, MoveInv, AskInv, AnswerIsOwn,
       ArgStored, Awaiting, Executed, Refusing, Refused, Relocated, Moved, Moving, WindowInv, TurnInv, WriteInv, CellsInv,
       ReaderInv, CopyInv, NewMax, NewOffset, Flushing, Wrap
<1> QED
  BY <1>1, <1>2, PlayPlayer, PlayReader, PlayFiller DEF Next

(* While the player only reads, asks and seeks ahead, every interleaving of
   its calls with the loop of cache_mainloop keeps the window, the ring and
   the copy in agreement: the claim of "doesn't require locking" for playback
   (cache2.c:68-95, 176-227, 235-368).  Reads may fail if there are no seeks ahead,
   and chapters may lead anywhere. *)
THEOREM PlaybackSafe == PlaybackOnly => (Spec => []PlayInv)
<1> SUFFICES ASSUME PlaybackOnly PROVE Spec => []PlayInv
  OBVIOUS
<1>1. Init => PlayInv
  BY PlayInit
<1>2. PlayInv /\ [Next]_vars => PlayInv'
  BY PlayStep
<1> QED
  BY <1>1, <1>2, PTL DEF Spec

(* The bytes handed to the player are the medium's at the stream's position
   (cache2.c:219-226, 674). *)
THEOREM PlaybackDelivers == PlaybackOnly => (Spec => []DeliveredIsFile)
<1> SUFFICES ASSUME PlaybackOnly PROVE Spec => []DeliveredIsFile
  OBVIOUS
<1>1. PlayInv => DeliveredIsFile
  BY DEF PlayInv, CopyInv, DeliveredIsFile
<1> QED
  BY <1>1, PlaybackSafe, PTL

(* The memcpy of cache_read stays in the ring although the length is loaded
   and the offset read without a lock (cache2.c:204-219). *)
THEOREM PlaybackInBounds == PlaybackOnly => (Spec => []CopyInBounds)
<1> SUFFICES ASSUME PlaybackOnly PROVE Spec => []CopyInBounds
  OBVIOUS
<1>1. PlayInv => CopyInBounds
  <2> SUFFICES ASSUME PlayInv, rpc = "copy" PROVE CopyInBounds
    BY DEF CopyInBounds
  <2>1. /\ 0 <= newb /\ newb <= max_filepos - read_filepos
        /\ cell = Wrap(read_filepos - offset) /\ cell + newb <= BufferSize
    BY DEF PlayInv, CopyInv, Holding
  <2>2. cell \in 0 .. BufferSize - 1
    BY <2>1, HeldCell DEF Holding
  <2>3. newb \in Int /\ BufferSize \in Nat
    BY Types, RingSize DEF PlayInv
  <2> QED
    BY <2>1, <2>2, <2>3 DEF CopyInBounds
<1> QED
  BY <1>1, PlaybackSafe, PTL

(* Reader and filler are never at the same cell (cache2.c:219 and 344). *)
THEOREM PlaybackApart == PlaybackOnly => (Spec => []NoOverlap)
<1> SUFFICES ASSUME PlaybackOnly PROVE Spec => []NoOverlap
  OBVIOUS
<1>1. PlayInv => NoOverlap
  <2> SUFFICES ASSUME PlayInv, rpc = "copy", fpc = "read", NEW c \in Cells,
                      WrapsTo(c, cell, newb), WrapsTo(c, wpos, space)
               PROVE  FALSE
    BY DEF NoOverlap
  <2>1. /\ 0 <= newb /\ newb <= max_filepos - read_filepos
        /\ cell = Wrap(read_filepos - offset) /\ cell + newb <= BufferSize
        /\ min_filepos <= read_filepos
    BY DEF PlayInv, CopyInv, ReaderInv, Holding
  <2>2. /\ wpos = max_filepos - offset /\ space \in 1 .. BufferSize
        /\ max_filepos + space - min_filepos <= BufferSize
        /\ 0 <= max_filepos - offset /\ max_filepos - offset < BufferSize
    BY DEF PlayInv, WriteInv, WindowInv, Flushing, Moving, NewMax, NewOffset
  <2>n. /\ min_filepos \in Int /\ max_filepos \in Int /\ offset \in Int
        /\ read_filepos \in Int /\ newb \in Int /\ BufferSize \in Nat \ {0}
    BY Types, RingSize DEF PlayInv
  <2>3. cell \in 0 .. BufferSize - 1
    BY <2>1, HeldCell DEF Holding
  <2>4. PICK i \in 0 .. newb - 1 : c = (IF cell + i >= BufferSize THEN cell + i - BufferSize
                                                                  ELSE cell + i)
    BY DEF WrapsTo
  <2>5. PICK j \in 0 .. space - 1 : c = (IF wpos + j >= BufferSize THEN wpos + j - BufferSize
                                                                   ELSE wpos + j)
    BY DEF WrapsTo
  <2>6. c = cell + i
    BY <2>1, <2>3, <2>4, <2>n
  <2> QED
    BY <2>1, <2>2, <2>3, <2>5, <2>6, <2>n DEF Wrap
<1> QED
  BY <1>1, PlaybackSafe, PTL

(* On a medium whose reads do not fail, a call comes back short only when the
   filler has met the medium's end: the eof tested is not one of an earlier turn,
   nor one believed before the bytes it follows (cache2.c:184-186, 310-312, 670). *)
THEOREM PlaybackEof == PlaybackOnly /\ EofMeansEnd => (Spec => []EofAfterEnd)
<1> SUFFICES ASSUME PlaybackOnly, EofMeansEnd PROVE Spec => []EofAfterEnd
  OBVIOUS
<1>1. PlayInv => EofAfterEnd
  BY DEF PlayInv, ReaderInv, EofAfterEnd
<1> QED
  BY <1>1, PlaybackSafe, PTL

(* Between flushes the window holds the medium's bytes (cache2.c:88). *)
THEOREM PlaybackWindow == PlaybackOnly => (Spec => []WindowIsFile)
<1> SUFFICES ASSUME PlaybackOnly PROVE Spec => []WindowIsFile
  OBVIOUS
<1>1. PlayInv => WindowIsFile
  <2> SUFFICES ASSUME PlayInv, fpc \notin {"flush", "reseat"}, NEW p \in min_filepos .. max_filepos - 1
               PROVE  buffer[Wrap(p - offset)] = p
    BY DEF WindowIsFile
  <2>n. /\ min_filepos \in Int /\ max_filepos \in Int /\ NewMax \in Int /\ len \in Nat
    BY Types DEF PlayInv
  <2>1. ~Flushing
    <3>1. fpc = "seek" => min_filepos = max_filepos
      BY DEF PlayInv, TurnInv
    <3> QED
      BY <2>n, <3>1 DEF Flushing
  <2>2. max_filepos <= NewMax
    BY <2>n DEF NewMax
  <2>3. p \in min_filepos .. NewMax - 1
    BY <2>n, <2>2
  <2> QED
    BY <2>1, <2>3 DEF PlayInv, CellsInv
<1> QED
  BY <1>1, PlaybackSafe, PTL

-----------------------------------------------------------------------------
(* The cache implements the plain reader of MediumReader. *)

LEMMA MediumInit == Init => Medium!Init
BY DEF Init, Medium!Init

(* A step that touches neither the call in progress nor the stream. *)
LEMMA MediumIdle ==
  ASSUME UNCHANGED <<pos, got, spos>>
  PROVE  UNCHANGED Medium!vars
BY DEF Medium!vars

LEMMA MediumCopy ==
  ASSUME PlayInv, PlayInv', Copy
  PROVE  Medium!Fetch \/ UNCHANGED Medium!vars
<1> DEFINE f == [i \in 1 .. newb |->
                   IF cell + i - 1 \in Cells THEN buffer[cell + i - 1] ELSE Junk]
           g == [i \in 1 .. newb |-> pos + Len(got) + i - 1]
<1>1. /\ rpc = "copy" /\ newb >= 0 /\ got' = got \o f /\ UNCHANGED <<pos, spos>>
  BY DEF Copy, others, stream, tell
<1>2. newb \in 0 .. SectorSize - Len(got)
  <2>1. newb <= want /\ Len(got) + want = SectorSize
    BY <1>1 DEF PlayInv, TypeOK, Accounting, Reading
  <2>2. newb \in Int /\ want \in Int /\ Len(got) \in Int /\ SectorSize \in Int
    BY Types, RingSize DEF PlayInv
  <2> QED
    BY <1>1, <2>1, <2>2
<1>3. newb \in Nat /\ got \in Seq(Nat \cup {Junk}) /\ Len(got) \in Nat /\ pos \in Nat
  BY <1>1, Types DEF PlayInv
<1>4. f \in [1 .. newb -> Nat \cup {Junk}]
  BY DEF PlayInv, TypeOK, SharedType
<1>5. f \in Seq(Nat \cup {Junk}) /\ Len(f) = newb /\ DOMAIN f = 1 .. newb
  BY <1>3, <1>4
<1> HIDE DEF f
<1>6. Len(got') = Len(got) + newb
  BY <1>1, <1>3, <1>4, AppendRun
<1>7. ASSUME NEW i \in 1 .. newb PROVE f[i] = g[i]
  <2>1. Len(got) + i \in 1 .. Len(got')
    BY <1>3, <1>6
  <2>2. got'[Len(got) + i] = pos + (Len(got) + i) - 1
    BY <1>1, <2>1 DEF PlayInv, CopyInv
  <2>3. got'[Len(got) + i] = f[i]
    BY <1>1, <1>3, <1>5
  <2> QED
    BY <1>3, <2>2, <2>3
<1>8. f = g
  BY <1>4, <1>7
<1>9. CASE newb = 0
  <2>1. got' = got
    BY <1>1, <1>3, <1>5, <1>9
  <2> QED
    BY <1>1, <2>1, MediumIdle
<1>10. CASE newb # 0
  <2>1. newb \in 1 .. SectorSize - Len(got)
    BY <1>2, <1>3, <1>10
  <2>2. got' = got \o g
    BY <1>1, <1>8
  <2> QED
    BY <1>1, <2>1, <2>2 DEF Medium!Fetch
<1> QED
  BY <1>9, <1>10

LEMMA MediumReaderStep ==
  ASSUME PlayInv, PlayInv', PlaybackOnly, Chapters = {}, ReaderStep
  PROVE  Medium!Next \/ UNCHANGED Medium!vars
<1> USE DEF others, shared, ctl, stream, filler, tell, copy
<1>1. CASE Copy
  BY <1>1, MediumCopy DEF Medium!Next
<1>2. CASE Deliver
  <2>1. /\ pos' = pos + Len(got) /\ got' = <<>> /\ spos' = spos /\ rpc = "deliver"
    BY <1>2 DEF Deliver
  <2>2. Len(got) < SectorSize => spos >= FileSize \/ ReadFails
    BY <2>1 DEF PlayInv, ReaderInv, EofMeansEnd
  <2> QED
    BY <2>1, <2>2 DEF Medium!Next, Medium!Hand
<1>3. CASE ControlAnswered
  <2>1. ~Moved
    BY DEF Moved, PlayInv, MoveInv
  <2>2. UNCHANGED <<pos, got, spos>>
    BY <1>3, <2>1 DEF ControlAnswered
  <2> QED
    BY <2>2, MediumIdle
<1>4. CASE ReaderStep /\ ~Copy /\ ~Deliver /\ ~ControlAnswered
  <2>1. UNCHANGED <<pos, got, spos>>
    BY <1>4 DEF ReaderStep, PrefillWait, SeekClearEof, TestMax, TestMin, TestEof, Retry,
         LoadNewb, LoadOffset, CopyFault, Advance, PostControl, ControlWait, ControlRetry
  <2> QED
    BY <2>1, MediumIdle
<1> QED
  BY <1>1, <1>2, <1>3, <1>4

LEMMA MediumPlayer ==
  ASSUME PlayInv, PlaybackOnly, Chapters = {}, Player
  PROVE  Medium!Next \/ UNCHANGED Medium!vars
<1> USE DEF others, shared, ctl, stream, filler, tell, copy
<1>1. CASE StartRead \/ (Queries /\ StartControl(NumChapters, 0))
  BY <1>1, MediumIdle DEF StartRead, StartControl
<1>2. CASE \E t \in SeekTargets : StartSeek(t)
  <2> PICK t \in SeekTargets : StartSeek(t)
    BY <1>2
  <2>1. /\ rpc = "idle" /\ pos' = Align(t) /\ got' = got /\ spos' = spos
    BY DEF StartSeek
  <2>2. got = <<>>
    BY <2>1 DEF PlayInv, TypeOK, Accounting, Reading
  <2>3. Align(t) \in Nat
    BY AlignNat, ConstantsAssumption
  <2> QED
    BY <2>1, <2>2, <2>3 DEF Medium!Next, Medium!Seek
<1>3. ~ \E a \in Chapters : StartControl(SeekChapter, a)
  OBVIOUS
<1>4. Player <=> \/ StartRead
                 \/ Queries /\ StartControl(NumChapters, 0)
                 \/ \E t \in SeekTargets : StartSeek(t)
  BY <1>3 DEF Player
<1> QED
  BY <1>1, <1>2, <1>4

(* The stream only moves ahead, so the medium's end, once met, stays met. *)
LEMMA MediumFiller ==
  ASSUME PlayInv, PlaybackOnly, Chapters = {}, FillerStep
  PROVE  Medium!Next \/ UNCHANGED Medium!vars
<1> USE DEF rest, shared, ctl, stream, reader, tell, copy
<1>0. control # SeekChapter /\ ~Moving
  BY DEF PlayInv, MoveInv, AskInv, Idle, Reset, SeekChapter
<1>1. UNCHANGED <<pos, got>>
  BY DEF FillerStep, LoadRead, StartFlush, FillSeek, BufferFull, PlanFill, FlushStore, Publish,
       FillRead, NoControl, Refuse, ExecuteControl, Reseat, Acknowledge
<1>2. spos' \in Nat /\ spos <= spos'
  <2>n. spos \in Nat
    BY Types DEF PlayInv
  <2>1. CASE FillSeek
    <3>1. spos' = fread /\ fpc = "seek"
      BY <2>1 DEF FillSeek, PlaybackOnly
    <3>2. spos < fread /\ fread \in Nat
      BY <3>1, Types DEF PlayInv, TurnInv, Flushing
    <3> QED
      BY <2>n, <3>1, <3>2
  <2>2. CASE \E n \in 0 .. BufferSize : FillRead(n)
    <3>1. PICK n \in 0 .. BufferSize : FillRead(n)
      BY <2>2
    <3>2. spos' = spos + n /\ n \in Nat
      BY <3>1, RingSize DEF FillRead, PositionLost, PlaybackOnly
    <3> QED
      BY <2>n, <3>2
  <2>3. CASE ExecuteControl
    <3>1. control # SeekChapter
      BY <1>0
    <3>2. spos' = spos
      BY <2>3, <3>1 DEF ExecuteControl
    <3> QED
      BY <2>n, <3>2
  <2>4. CASE Reseat
    BY <1>0, <2>4 DEF Reseat, Moving
  <2>5. CASE LoadRead \/ StartFlush \/ BufferFull \/ PlanFill \/ NoControl \/ Refuse \/ Acknowledge
             \/ \E f \in {"max", "min", "offset", "eof"} : FlushStore(f) \/ Publish(f)
    BY <2>5, <2>n DEF LoadRead, StartFlush, BufferFull, PlanFill, NoControl, Refuse, Acknowledge,
         FlushStore, Publish
  <2> QED
    BY <2>1, <2>2, <2>3, <2>4, <2>5 DEF FillerStep
<1>3. FileSize \in Nat /\ spos \in Nat
  BY RingSize, Types DEF PlayInv
<1>4. CASE spos >= FileSize \/ spos' < FileSize
  <2>1. (spos' >= FileSize) = (spos >= FileSize)
    BY <1>2, <1>3, <1>4
  <2> QED
    BY <1>1, <2>1 DEF Medium!vars
<1>5. CASE ~(spos >= FileSize) /\ spos' >= FileSize
  BY <1>1, <1>5 DEF Medium!Next, Medium!End
<1> QED
  BY <1>2, <1>3, <1>4, <1>5

(* cache_stream_fill_buffer and cache_stream_seek_long over the shared ring
   give the player what reading the medium directly would have (cache2.c:655-718
   over 176-368), a medium whose reads fail included as long as there are no seeks:
   every step of both threads is a step of MediumReader or none. *)
THEOREM PlaybackRefines == PlaybackOnly /\ Chapters = {} => (Spec => ReadsMedium)
<1> SUFFICES ASSUME PlaybackOnly, Chapters = {} PROVE Spec => ReadsMedium
  OBVIOUS
<1>1. PlayInv /\ PlayInv' /\ [Next]_vars => [Medium!Next]_(Medium!vars)
  <2> SUFFICES ASSUME PlayInv, PlayInv', [Next]_vars
               PROVE  Medium!Next \/ UNCHANGED Medium!vars
    OBVIOUS
  <2>1. ~Interrupt
    BY DEF Interrupt, PrefillInterrupt, ReadInterrupt, ControlInterrupt, PlaybackOnly
  <2>2. CASE UNCHANGED vars
    BY <2>2, MediumIdle DEF vars, stream, reader, tell, copy
  <2> QED
    BY <2>1, <2>2, MediumReaderStep, MediumPlayer, MediumFiller DEF Next
<1> QED
  BY MediumInit, <1>1, PlaybackSafe, PTL DEF Spec, ReadsMedium, Medium!Spec

=============================================================================
