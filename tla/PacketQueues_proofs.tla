------------------------- MODULE PacketQueues_proofs -------------------------
(***************************************************************************)
(* Proofs about PacketQueues for files of any length and content, any      *)
(* limits and any decoders: a packet's count is at every moment the number *)
(* of streams that have it, what is read of a buffer belongs to a packet   *)
(* that lives, a stream's bytes reach its decoder whole and in order, and  *)
(* the player stops when both streams have been read to their end.         *)
(***************************************************************************)
EXTENDS PacketQueues, Flattening, FiniteSetTheorems

\* No packet is in a queue twice.
Distinct(packets) == \A i, j \in 1 .. Len(packets) : i # j => packets[i] # packets[j]

Ops == {"none", "data", "packet", "sub", "pts"}
Calls == [op : Ops, ds : Streams, left : Nat, at : {"look", "fill", "full"}]

Typed ==
  /\ file \in Seq([to : SUBSET Streams, len : Nat])
  /\ next \in Nat \ {0} /\ next <= Len(file) + 1
  /\ refcount \in [1 .. Len(file) -> Int]
  /\ queue \in [Streams -> Seq(Nat)]
  /\ current \in [Streams -> Nat \cup {None}]
  /\ buffer_pos \in [Streams -> Nat] /\ buffer_size \in [Streams -> Nat]
  /\ call \in Calls

\* What a stream has was read of the file, and it has no packet twice.
Apart ==
  \A s \in Streams :
    /\ Distinct(queue[s])
    /\ \A i \in Range(queue[s]) : 0 < i /\ i < next
    /\ current[s] # None => 0 < current[s] /\ current[s] < next /\ current[s] \notin Range(queue[s])

\* A stream that is being filled has let go of the packet it has read.
CallInv ==
  /\ call.op = "none" => call.at = "look"
  /\ call.at = "fill" => current[call.ds] = None

IInv == Typed /\ Apart /\ CallInv /\ BuffersValid

-----------------------------------------------------------------------------
(* Queues and counts. *)

LEMMA QueueEmpty == Distinct(<< >>) /\ Range(<< >>) = {} /\ << >> \in Seq(Nat)
  BY DEF Distinct, Range

LEMMA QueueTaken ==
  ASSUME NEW packets \in Seq(Nat), packets # << >>, Distinct(packets)
  PROVE  /\ Head(packets) \in Nat /\ Tail(packets) \in Seq(Nat) /\ Distinct(Tail(packets))
         /\ Range(packets) = Range(Tail(packets)) \cup {Head(packets)}
         /\ Head(packets) \notin Range(Tail(packets))
<1> DEFINE rest == Tail(packets)
<1>1. /\ Len(packets) \in Nat /\ Len(packets) >= 1 /\ rest \in Seq(Nat)
      /\ Len(rest) = Len(packets) - 1 /\ Head(packets) = packets[1]
      /\ DOMAIN packets = 1 .. Len(packets) /\ DOMAIN rest = 1 .. Len(rest)
  OBVIOUS
<1>2. \A i \in 1 .. Len(rest) : rest[i] = packets[i + 1]
  OBVIOUS
<1> HIDE DEF rest
<1>3. \A i \in 1 .. Len(rest) : i + 1 \in 1 .. Len(packets) /\ i + 1 # 1
  BY <1>1
<1>4. \A i \in 1 .. Len(packets) : i # 1 => i - 1 \in 1 .. Len(rest) /\ packets[i] = rest[i - 1]
  <2> SUFFICES ASSUME NEW i \in 1 .. Len(packets), i # 1
               PROVE  i - 1 \in 1 .. Len(rest) /\ packets[i] = rest[i - 1]
    OBVIOUS
  <2>1. i - 1 \in 1 .. Len(rest) /\ (i - 1) + 1 = i
    BY <1>1
  <2> QED
    BY <1>2, <2>1
<1>5. 1 \in 1 .. Len(packets)
  BY <1>1
<1>6. ASSUME NEW i \in 1 .. Len(rest), NEW j \in 1 .. Len(rest), i # j
      PROVE  rest[i] # rest[j]
  <2>1. i + 1 # j + 1 /\ i + 1 \in 1 .. Len(packets) /\ j + 1 \in 1 .. Len(packets)
    BY <1>3, <1>6
  <2> QED
    BY <1>2, <2>1 DEF Distinct
<1>7. Distinct(rest)
  BY <1>6 DEF Distinct
<1>8. Head(packets) \notin Range(rest)
  <2> SUFFICES ASSUME NEW i \in 1 .. Len(rest), rest[i] = packets[1] PROVE FALSE
    BY <1>1 DEF Range
  <2> QED
    BY <1>2, <1>3, <1>5 DEF Distinct
<1>9. Range(packets) = Range(rest) \cup {Head(packets)}
  <2> HIDE DEF Distinct
  <2>1. ASSUME NEW i \in 1 .. Len(packets) PROVE packets[i] \in Range(rest) \cup {Head(packets)}
    BY <1>1, <1>4 DEF Range
  <2>2. ASSUME NEW i \in 1 .. Len(rest) PROVE rest[i] \in Range(packets)
    BY <1>1, <1>2, <1>3 DEF Range
  <2>3. Head(packets) \in Range(packets)
    BY <1>1, <1>5 DEF Range
  <2> QED
    BY <1>1, <2>1, <2>2, <2>3 DEF Range
<1> QED
  BY <1>1, <1>7, <1>8, <1>9 DEF rest

LEMMA QueueAdded ==
  ASSUME NEW packets \in Seq(Nat), Distinct(packets), NEW i \in Nat, i \notin Range(packets)
  PROVE  /\ Append(packets, i) \in Seq(Nat) /\ Distinct(Append(packets, i))
         /\ Range(Append(packets, i)) = Range(packets) \cup {i}
<1> DEFINE more == Append(packets, i)
           n == Len(packets)
<1>1. /\ n \in Nat /\ more \in Seq(Nat) /\ Len(more) = n + 1 /\ more[n + 1] = i
      /\ DOMAIN packets = 1 .. n /\ DOMAIN more = 1 .. n + 1
  OBVIOUS
<1>2. \A k \in 1 .. n : more[k] = packets[k]
  OBVIOUS
<1>3. \A k \in 1 .. n : packets[k] # i
  BY <1>1 DEF Range
<1> HIDE DEF more
<1>4. Distinct(more)
  <2>1. \A k \in 1 .. n + 1 : k \in 1 .. n \/ k = n + 1
    BY <1>1
  <2> QED
    BY <1>1, <1>2, <1>3, <2>1 DEF Distinct
<1>5. Range(more) = Range(packets) \cup {i}
  <2>1. \A k \in 1 .. n + 1 : k \in 1 .. n \/ k = n + 1
    BY <1>1
  <2>2. n + 1 \in 1 .. n + 1 /\ \A k \in 1 .. n : k \in 1 .. n + 1
    BY <1>1
  <2> HIDE DEF n
  <2> QED
    BY <1>1, <1>2, <2>1, <2>2 DEF Range
<1> QED
  BY <1>1, <1>4, <1>5 DEF more

LEMMA NoneIs == None \notin Nat
  BY PacketAssumption

LEMMA At1 == ASSUME NEW T, NEW f \in Seq(T), NEW i \in 1 .. Len(f) PROVE f[i] \in T
  OBVIOUS

LEMMA SomeStreams ==
  ASSUME NEW S, S \subseteq Streams
  PROVE  IsFiniteSet(S) /\ Cardinality(S) \in Nat
<1>1. IsFiniteSet({"audio"})
  BY FS_Singleton
<1>2. IsFiniteSet({"audio"} \cup {"video"})
  BY <1>1, FS_AddElement
<1>3. IsFiniteSet(({"audio"} \cup {"video"}) \cup {"sub"})
  BY <1>2, FS_AddElement
<1>4. Streams = ({"audio"} \cup {"video"}) \cup {"sub"}
  BY DEF Streams
<1>5. IsFiniteSet(S)
  BY <1>3, <1>4, FS_Subset
<1> QED
  BY <1>5, FS_CardinalityType

LEMMA HoldersAre ==
  ASSUME NEW i
  PROVE  /\ IsFiniteSet(Holders(i)) /\ Cardinality(Holders(i)) \in Nat
         /\ \A s \in Streams : s \in Holders(i) <=> i \in Range(queue[s]) \/ (i = current[s] /\ i # None)
         /\ Holders(i) \subseteq Streams
<1>1. Holders(i) \subseteq Streams
  BY DEF Holders
<1>2. \A s \in Streams : s \in Holders(i) <=> i \in Range(queue[s]) \/ (i = current[s] /\ i # None)
  BY DEF Holders, Held
<1> QED
  BY <1>1, <1>2, SomeStreams
-----------------------------------------------------------------------------
(* The steps, by what they touch. *)

\* A step that only calls or returns.
LEMMA OnlyCalls ==
  ASSUME IInv, UNCHANGED <<file, next, refcount, queue, current, buffer_pos, buffer_size>>,
         call' \in Calls, CallInv', call'.at = "full" => current[call'.ds] # None
  PROVE  IInv'
<1>1. Typed' /\ Apart'
  BY DEF IInv, Typed, Apart
<1>2. \A i : Holders(i)' = Holders(i)
  BY DEF Holders, Held
<1>3. \A s \in Streams : Held(s)' = Held(s) /\ Unread(s)' = Unread(s)
  BY DEF Held, Unread
<1>4. BuffersValid'
  BY <1>2, <1>3 DEF IInv, BuffersValid
<1> QED
  BY <1>1, <1>4 DEF IInv

\* A step that goes on in the buffer of the stream that is asked.
LEMMA GoesOn ==
  ASSUME IInv, UNCHANGED <<file, next, refcount, queue, current, buffer_size>>,
         NEW n \in Nat, n <= Unread(call.ds),
         buffer_pos' = [buffer_pos EXCEPT ![call.ds] = @ + n],
         call' \in Calls, call'.at = "look"
  PROVE  IInv'
<1>1. /\ buffer_pos \in [Streams -> Nat] /\ buffer_size \in [Streams -> Nat] /\ call.ds \in Streams
      /\ \A s \in Streams : buffer_pos[s] <= buffer_size[s] /\ (Unread(s) > 0 => current[s] # None)
  BY DEF IInv, Typed, Calls, BuffersValid
<1>2. buffer_pos' \in [Streams -> Nat]
  BY <1>1
<1>3. Typed' /\ Apart'
  BY <1>2 DEF IInv, Typed, Apart
<1>4. \A i : Holders(i)' = Holders(i)
  BY DEF Holders, Held
<1>5. ASSUME NEW s \in Streams
      PROVE  /\ buffer_pos'[s] \in 0 .. buffer_size'[s]
             /\ Unread(s)' > 0 => current'[s] # None
             /\ ~(call'.ds = s /\ call'.at = "full")
             /\ \A i \in Held(s)' : buffer_size'[s] = file'[i].len
  <2>1. CASE s = call.ds
    <3>1. buffer_pos'[s] = buffer_pos[s] + n
      BY <1>1, <2>1
    <3>2. buffer_pos'[s] \in 0 .. buffer_size[s]
      BY <1>1, <2>1, <3>1 DEF Unread
    <3>3. Unread(s)' > 0 => Unread(s) > 0
      BY <1>1, <3>1 DEF Unread
    <3> QED
      BY <1>1, <3>2, <3>3 DEF IInv, BuffersValid, Held
  <2>2. CASE s # call.ds
    <3>1. buffer_pos'[s] = buffer_pos[s]
      BY <1>1, <2>2
    <3> QED
      BY <1>1, <3>1 DEF IInv, BuffersValid, Held, Unread
  <2> QED
    BY <2>1, <2>2
<1>6. BuffersValid'
  BY <1>4, <1>5 DEF IInv, BuffersValid
<1>7. CallInv'
  BY DEF CallInv
<1> QED
  BY <1>3, <1>6, <1>7 DEF IInv

\* A step in which the demuxer reads a packet of the file.
LEMMA DemuxInd ==
  ASSUME IInv, ~AtEnd, Demuxed, UNCHANGED <<file, current, buffer_pos, buffer_size, call>>
  PROVE  IInv'
<1> DEFINE p == file[next]
<1>1. /\ next \in Nat \ {0} /\ next \in 1 .. Len(file) /\ Len(file) \in Nat
      /\ file \in Seq([to : SUBSET Streams, len : Nat])
  BY DEF IInv, Typed, AtEnd
<1>2. p.to \subseteq Streams
  <2>1. p \in [to : SUBSET Streams, len : Nat]
    BY <1>1, At1
  <2> HIDE DEF p
  <2> QED
    BY <2>1
<1>3. /\ next' = next + 1
      /\ queue' = [s \in Streams |-> IF s \in p.to THEN Append(queue[s], next) ELSE queue[s]]
      /\ refcount' = [refcount EXCEPT ![next] = Cardinality(p.to)]
  BY DEF Demuxed, References
<1> HIDE DEF p
<1>4. \A s \in Streams : /\ queue[s] \in Seq(Nat) /\ Distinct(queue[s])
                         /\ \A i \in Range(queue[s]) : 0 < i /\ i < next
                         /\ current[s] # None => 0 < current[s] /\ current[s] < next /\ current[s] \notin Range(queue[s])
                         /\ current[s] \in Nat \cup {None}
  BY DEF IInv, Typed, Apart
<1>5. \A s \in Streams : next \notin Range(queue[s]) /\ next # current[s] /\ next # None
  <2> SUFFICES ASSUME NEW s \in Streams
               PROVE  next \notin Range(queue[s]) /\ next # current[s] /\ next # None
    OBVIOUS
  <2>1. next # None
    BY <1>1, NoneIs
  <2>2. ~(next < next)
    BY <1>1
  <2> QED
    BY <1>4, <2>1, <2>2
<1>6. ASSUME NEW s \in Streams
      PROVE  /\ queue'[s] \in Seq(Nat) /\ Distinct(queue'[s])
             /\ Range(queue'[s]) = Range(queue[s]) \cup (IF s \in p.to THEN {next} ELSE {})
  <2>1. CASE s \in p.to
    <3>1. queue'[s] = Append(queue[s], next)
      BY <1>3, <2>1
    <3> QED
      BY <1>1, <1>4, <1>5, <2>1, <3>1, QueueAdded
  <2>2. CASE s \notin p.to
    BY <1>3, <1>4, <2>2
  <2> QED
    BY <2>1, <2>2
<1>7. Typed'
  <2>1. Cardinality(p.to) \in Int
    BY <1>2, SomeStreams
  <2>2. refcount' \in [1 .. Len(file) -> Int]
    BY <1>3, <2>1 DEF IInv, Typed
  <2>3. queue' \in [Streams -> Seq(Nat)]
    BY <1>3, <1>6
  <2> QED
    BY <1>1, <1>3, <2>2, <2>3 DEF IInv, Typed
<1>8. Apart'
  <2> SUFFICES ASSUME NEW s \in Streams
               PROVE  /\ Distinct(queue'[s])
                      /\ \A i \in Range(queue'[s]) : 0 < i /\ i < next'
                      /\ current'[s] # None => 0 < current'[s] /\ current'[s] < next' /\ current'[s] \notin Range(queue'[s])
    BY DEF Apart
  <2>1. \A i \in Range(queue[s]) : i \in Nat
    BY <1>4 DEF Range
  <2>2. ASSUME NEW i \in Nat, (0 < i /\ i < next) \/ i = next PROVE 0 < i /\ i < next'
    BY <1>1, <1>3, <2>2
  <2>3. \A i \in Range(queue'[s]) : 0 < i /\ i < next'
    BY <1>1, <1>4, <1>6, <2>1, <2>2
  <2>4. current[s] # None => 0 < current[s] /\ current[s] < next'
    BY <1>4, <2>2
  <2>5. current[s] # None => current[s] \notin Range(queue'[s])
    BY <1>4, <1>5, <1>6
  <2> QED
    BY <1>6, <2>3, <2>4, <2>5
<1>9. ASSUME NEW i \in DOMAIN refcount'
      PROVE  refcount'[i] = Cardinality(Holders(i)')
  <2>1. DOMAIN refcount' = 1 .. Len(file) /\ DOMAIN refcount = 1 .. Len(file)
    BY <1>7 DEF IInv, Typed
  <2>2. Holders(i)' = {s \in Streams : i \in Range(queue'[s]) \cup ({current[s]} \ {None})}
    BY DEF Holders, Held
  <2>3. CASE i = next
    <3>1. ASSUME NEW s \in Streams
          PROVE  i \in Range(queue'[s]) \cup ({current[s]} \ {None}) <=> s \in p.to
      <4>1. i \notin Range(queue[s]) /\ i # current[s]
        BY <1>5, <2>3
      <4>2. i \in Range(queue'[s]) <=> s \in p.to
        BY <1>6, <2>3, <4>1
      <4> QED
        BY <4>1, <4>2
    <3>2. Holders(i)' = p.to
      BY <1>2, <2>2, <3>1
    <3>3. refcount'[i] = Cardinality(p.to)
      BY <1>1, <1>3, <2>1, <2>3
    <3> QED
      BY <3>2, <3>3
  <2>4. CASE i # next
    <3>1. Holders(i)' = Holders(i)
      BY <1>6, <2>2, <2>4 DEF Holders, Held
    <3>2. refcount'[i] = refcount[i]
      BY <1>3, <2>1, <2>4
    <3> QED
      BY <2>1, <3>1, <3>2 DEF IInv, BuffersValid
  <2> QED
    BY <2>3, <2>4
<1>10. BuffersValid' /\ CallInv'
  <2>1. \A s \in Streams : Held(s)' = Held(s) /\ Unread(s)' = Unread(s)
    BY DEF Held, Unread
  <2> QED
    BY <1>9, <2>1 DEF IInv, BuffersValid, CallInv
<1> QED
  BY <1>7, <1>8, <1>10 DEF IInv

\* A step in which stream s lets go of the packet it has read.
LEMMA FillBeginsInd == ASSUME IInv, FillBegins PROVE IInv'
<1> DEFINE s == call.ds
<1>1. /\ s \in Streams /\ Unread(s) <= 0
      /\ refcount' = [i \in DOMAIN refcount |-> IF i \in Held(s) THEN refcount[i] - 1 ELSE refcount[i]]
      /\ current' = [current EXCEPT ![s] = None]
      /\ call' = [call EXCEPT !.at = "fill"] /\ call.op # "none"
      /\ UNCHANGED <<file, next, queue, buffer_pos, buffer_size>>
  BY DEF FillBegins, Released, At, In, history, main, IInv, Typed, Calls
<1> HIDE DEF s
<1>2. /\ current \in [Streams -> Nat \cup {None}] /\ refcount \in [1 .. Len(file) -> Int]
      /\ queue \in [Streams -> Seq(Nat)]
      /\ \A t \in Streams : current[t] \notin Range(queue[t]) \/ current[t] = None
  BY DEF IInv, Typed, Apart
<1>3. /\ current'[s] = None /\ \A t \in Streams : t # s => current'[t] = current[t]
      /\ current' \in [Streams -> Nat \cup {None}]
  BY <1>1, <1>2
<1>4. call' \in Calls /\ call'.at = "fill" /\ call'.op # "none" /\ call'.ds = s
  <2>1. call \in Calls
    BY DEF IInv, Typed
  <2> QED
    BY <1>1, <2>1 DEF Calls, s
<1>5. refcount' \in [1 .. Len(file) -> Int]
  BY <1>1, <1>2
<1>6. Typed' /\ Apart' /\ CallInv'
  BY <1>1, <1>3, <1>4, <1>5 DEF IInv, Typed, Apart, CallInv
<1>7. ASSUME NEW i \in DOMAIN refcount'
      PROVE  refcount'[i] = Cardinality(Holders(i)')
  <2>1. i \in DOMAIN refcount /\ i \in 1 .. Len(file) /\ refcount[i] = Cardinality(Holders(i))
    BY <1>2, <1>5 DEF IInv, BuffersValid
  <2>2. IsFiniteSet(Holders(i))
    BY HoldersAre
  <2>3. i # None
    BY <2>1, PacketAssumption DEF IInv, Typed
  <2>4. Holders(i)' = {t \in Streams : i \in Range(queue[t]) \cup ({current'[t]} \ {None})}
    BY <1>1 DEF Holders, Held
  <2>5. CASE i = current[s]
    <3>1. Holders(i)' = Holders(i) \ {s} /\ s \in Holders(i)
      BY <1>1, <1>2, <1>3, <2>3, <2>4, <2>5 DEF Holders, Held
    <3>2. refcount'[i] = refcount[i] - 1
      BY <1>1, <2>1, <2>3, <2>5 DEF Held
    <3> QED
      BY <2>1, <2>2, <3>1, <3>2, FS_RemoveElement
  <2>6. CASE i # current[s]
    <3>1. Holders(i)' = Holders(i)
      BY <1>1, <1>3, <2>4, <2>6 DEF Holders, Held
    <3>2. refcount'[i] = refcount[i]
      BY <1>1, <2>1, <2>6 DEF Held
    <3> QED
      BY <2>1, <3>1, <3>2
  <2> QED
    BY <2>5, <2>6
<1>8. ASSUME NEW t \in Streams
      PROVE  /\ buffer_pos'[t] \in 0 .. buffer_size'[t]
             /\ Unread(t)' > 0 => current'[t] # None
             /\ ~(call'.ds = t /\ call'.at = "full")
             /\ \A i \in Held(t)' : buffer_size'[t] = file'[i].len
  <2>1. Unread(t)' = Unread(t) /\ (t = s => ~(Unread(t) > 0))
    <3>1. buffer_size[t] - buffer_pos[t] \in Int
      BY DEF IInv, Typed
    <3> QED
      BY <1>1, <3>1 DEF Unread
  <2> QED
    BY <1>1, <1>3, <1>4, <2>1 DEF IInv, BuffersValid, Held
<1>9. BuffersValid'
  BY <1>7, <1>8 DEF BuffersValid
<1> QED
  BY <1>6, <1>9 DEF IInv

\* The next packet of the stream that is filled is the one it reads now.
LEMMA TakePacketInd == ASSUME IInv, TakePacket PROVE IInv'
<1> DEFINE s == call.ds
           i == Head(queue[s])
<1>1. /\ call.at = "fill" /\ s \in Streams /\ queue[s] # << >> /\ call.op # "none"
      /\ queue' = [queue EXCEPT ![s] = Tail(@)]
      /\ current' = [current EXCEPT ![s] = i]
      /\ buffer_pos' = [buffer_pos EXCEPT ![s] = 0]
      /\ buffer_size' = [buffer_size EXCEPT ![s] = file[i].len]
      /\ call' = [call EXCEPT !.at = IF call.op = "data" THEN "look" ELSE "full"]
      /\ UNCHANGED <<file, next, refcount>>
  BY DEF TakePacket, Filling, Length, At, NewPosition, history, main, IInv, Typed, Calls, CallInv
<1>2. call' \in Calls /\ call'.ds = s /\ call'.op # "none" /\ call'.at # "fill"
  <2>1. call \in Calls
    BY DEF IInv, Typed
  <2> QED
    BY <1>1, <2>1 DEF Calls
<1> HIDE DEF s, i
<1>3. /\ queue \in [Streams -> Seq(Nat)] /\ current \in [Streams -> Nat \cup {None}]
      /\ buffer_pos \in [Streams -> Nat] /\ buffer_size \in [Streams -> Nat]
      /\ Distinct(queue[s]) /\ queue[s] \in Seq(Nat) /\ current[s] = None /\ next \in Nat
  BY <1>1 DEF IInv, Typed, Apart, CallInv, s
<1>4. /\ i \in Nat /\ Tail(queue[s]) \in Seq(Nat) /\ Distinct(Tail(queue[s]))
      /\ Range(queue[s]) = Range(Tail(queue[s])) \cup {i} /\ i \notin Range(Tail(queue[s]))
  BY <1>1, <1>3, QueueTaken DEF i
<1>5. file[i].len \in Nat
  <2>1. 0 < i /\ i < next
    BY <1>1, <1>4 DEF IInv, Apart
  <2>2. next <= Len(file) + 1 /\ Len(file) \in Nat /\ file \in Seq([to : SUBSET Streams, len : Nat])
    BY DEF IInv, Typed
  <2>3. i \in 1 .. Len(file)
    BY <1>3, <1>4, <2>1, <2>2
  <2>4. file[i] \in [to : SUBSET Streams, len : Nat]
    BY <2>2, <2>3, At1
  <2> QED
    BY <2>4
<1>6. /\ queue'[s] = Tail(queue[s]) /\ current'[s] = i /\ i # None
      /\ buffer_pos'[s] = 0 /\ buffer_size'[s] = file[i].len
      /\ \A t \in Streams : t # s => /\ queue'[t] = queue[t] /\ current'[t] = current[t]
                                     /\ buffer_pos'[t] = buffer_pos[t] /\ buffer_size'[t] = buffer_size[t]
  BY <1>1, <1>3, <1>4, NoneIs
<1>7. Typed'
  <2>1. queue' \in [Streams -> Seq(Nat)] /\ current' \in [Streams -> Nat \cup {None}]
    BY <1>1, <1>3, <1>4
  <2>2. buffer_pos' \in [Streams -> Nat] /\ buffer_size' \in [Streams -> Nat]
    BY <1>1, <1>3, <1>5
  <2> QED
    BY <1>1, <1>2, <2>1, <2>2 DEF IInv, Typed
<1>8. Apart'
  <2> SUFFICES ASSUME NEW t \in Streams
               PROVE  /\ Distinct(queue'[t])
                      /\ \A j \in Range(queue'[t]) : 0 < j /\ j < next'
                      /\ current'[t] # None => 0 < current'[t] /\ current'[t] < next' /\ current'[t] \notin Range(queue'[t])
    BY DEF Apart
  <2>1. CASE t = s
    BY <1>1, <1>4, <1>6, <2>1 DEF IInv, Apart
  <2>2. CASE t # s
    BY <1>1, <1>6, <2>2 DEF IInv, Apart
  <2> QED
    BY <2>1, <2>2
<1>9. ASSUME NEW k
      PROVE  Holders(k)' = Holders(k)
  <2>1. ASSUME NEW t \in Streams
        PROVE  k \in Range(queue'[t]) \cup ({current'[t]} \ {None}) <=> k \in Range(queue[t]) \cup ({current[t]} \ {None})
    BY <1>3, <1>4, <1>6
  <2> QED
    BY <2>1 DEF Holders, Held
<1>10. ASSUME NEW t \in Streams
       PROVE  /\ buffer_pos'[t] \in 0 .. buffer_size'[t]
              /\ Unread(t)' > 0 => current'[t] # None
              /\ call'.ds = t /\ call'.at = "full" => current'[t] # None
              /\ \A k \in Held(t)' : buffer_size'[t] = file'[k].len
  <2>1. CASE t = s
    BY <1>1, <1>5, <1>6, <2>1 DEF Held
  <2>2. CASE t # s
    BY <1>1, <1>2, <1>6, <2>2 DEF IInv, BuffersValid, Held, Unread
  <2> QED
    BY <2>1, <2>2
<1>11. BuffersValid'
  BY <1>1, <1>9, <1>10 DEF IInv, BuffersValid
<1>12. CallInv'
  BY <1>2 DEF CallInv
<1> QED
  BY <1>7, <1>8, <1>11, <1>12 DEF IInv

LEMMA FillFailsInd == ASSUME IInv, FillFails PROVE IInv'
<1> DEFINE s == call.ds
<1>1. /\ s \in Streams /\ current[s] = None
      /\ buffer_pos' = [buffer_pos EXCEPT ![s] = 0] /\ buffer_size' = [buffer_size EXCEPT ![s] = 0]
      /\ call' = NoCall /\ UNCHANGED <<file, next, refcount, queue, current>>
  BY DEF FillFails, Filling, Return, history, main, IInv, Typed, Calls, CallInv
<1> HIDE DEF s
<1>2. call' \in Calls /\ call'.op = "none" /\ call'.at = "look"
  BY <1>1 DEF NoCall, Calls, Ops, Streams
<1>3. /\ buffer_pos' \in [Streams -> Nat] /\ buffer_size' \in [Streams -> Nat]
      /\ buffer_pos'[s] = 0 /\ buffer_size'[s] = 0
      /\ \A t \in Streams : t # s => buffer_pos'[t] = buffer_pos[t] /\ buffer_size'[t] = buffer_size[t]
  BY <1>1 DEF IInv, Typed
<1>4. Typed' /\ Apart' /\ CallInv'
  BY <1>1, <1>2, <1>3 DEF IInv, Typed, Apart, CallInv
<1>5. \A i : Holders(i)' = Holders(i)
  BY <1>1 DEF Holders, Held
<1>6. ASSUME NEW t \in Streams
      PROVE  /\ buffer_pos'[t] \in 0 .. buffer_size'[t]
             /\ Unread(t)' > 0 => current'[t] # None
             /\ \A i \in Held(t)' : buffer_size'[t] = file'[i].len
  <2>1. CASE t = s
    BY <1>1, <1>3, <2>1 DEF Held, Unread
  <2>2. CASE t # s
    BY <1>1, <1>3, <2>2 DEF IInv, BuffersValid, Held, Unread
  <2> QED
    BY <2>1, <2>2
<1>7. BuffersValid'
  BY <1>1, <1>2, <1>5, <1>6 DEF IInv, BuffersValid
<1> QED
  BY <1>4, <1>7 DEF IInv

\* Some streams forget all they have, and the file goes on at any place.
LEMMA FlushInd ==
  ASSUME IInv, NEW ss, ss \subseteq Streams, NEW i, Flush(ss, i), call.op = "none",
         next' \in Nat \ {0}, next' <= Len(file) + 1, ss = Streams \/ next' = next,
         UNCHANGED <<file, buffer_size, call>>
  PROVE  IInv'
<1>1. /\ queue' = [s \in Streams |-> IF s \in ss THEN << >> ELSE queue[s]]
      /\ current' = [s \in Streams |-> IF s \in ss THEN None ELSE current[s]]
      /\ buffer_pos' = [s \in Streams |-> IF s \in ss THEN buffer_size[s] ELSE buffer_pos[s]]
      /\ refcount' = [p \in DOMAIN refcount |->
                        refcount[p] - Cardinality({s \in ss : p \in Range(queue[s]) \cup Held(s)})]
  BY DEF Flush
<1>2. /\ queue \in [Streams -> Seq(Nat)] /\ current \in [Streams -> Nat \cup {None}]
      /\ buffer_pos \in [Streams -> Nat] /\ buffer_size \in [Streams -> Nat]
      /\ refcount \in [1 .. Len(file) -> Int] /\ call.at = "look"
  BY DEF IInv, Typed, CallInv
<1>3. ASSUME NEW p \in DOMAIN refcount
      PROVE  refcount'[p] \in Int /\ refcount'[p] = Cardinality(Holders(p)')
  <2> DEFINE gone == {s \in ss : p \in Range(queue[s]) \cup Held(s)}
  <2>1. gone = Holders(p) \cap ss
    BY DEF Holders
  <2>2. Holders(p)' = Holders(p) \ ss
    <3>1. Holders(p)' = {s \in Streams : p \in Range(queue'[s]) \cup ({current'[s]} \ {None})}
      BY DEF Holders, Held
    <3>2. ASSUME NEW s \in Streams
          PROVE  p \in Range(queue'[s]) \cup ({current'[s]} \ {None}) <=> s \in Holders(p) /\ s \notin ss
      BY <1>1, QueueEmpty DEF Holders, Held
    <3>3. Holders(p) \subseteq Streams
      BY DEF Holders
    <3> QED
      BY <3>1, <3>2, <3>3
  <2>3. refcount'[p] = refcount[p] - Cardinality(gone) /\ refcount[p] = Cardinality(Holders(p))
    BY <1>1 DEF IInv, BuffersValid
  <2>4. IsFiniteSet(Holders(p)) /\ Cardinality(Holders(p)) \in Nat
    BY HoldersAre
  <2>5. Cardinality(Holders(p) \ ss) = Cardinality(Holders(p)) - Cardinality(Holders(p) \cap ss)
    BY <2>4, FS_Difference
  <2>6. Cardinality(gone) \in Nat
    BY SomeStreams
  <2> HIDE DEF gone
  <2> QED
    BY <2>1, <2>2, <2>3, <2>4, <2>5, <2>6
<1>4. Typed'
  <2>1. refcount' \in [1 .. Len(file) -> Int]
    BY <1>1, <1>2, <1>3
  <2>2. queue' \in [Streams -> Seq(Nat)] /\ current' \in [Streams -> Nat \cup {None}]
    BY <1>1, <1>2
  <2>3. buffer_pos' \in [Streams -> Nat]
    BY <1>1, <1>2
  <2> QED
    BY <2>1, <2>2, <2>3 DEF IInv, Typed
<1>5. ASSUME NEW s \in Streams
      PROVE  IF s \in ss
             THEN queue'[s] = << >> /\ current'[s] = None /\ buffer_pos'[s] = buffer_size[s]
             ELSE next' = next /\ queue'[s] = queue[s] /\ current'[s] = current[s] /\ buffer_pos'[s] = buffer_pos[s]
  BY <1>1
<1>6. Apart'
  <2> SUFFICES ASSUME NEW s \in Streams
               PROVE  /\ Distinct(queue'[s])
                      /\ \A j \in Range(queue'[s]) : 0 < j /\ j < next'
                      /\ current'[s] # None => 0 < current'[s] /\ current'[s] < next' /\ current'[s] \notin Range(queue'[s])
    BY DEF Apart
  <2>1. CASE s \in ss
    BY <1>5, <2>1, QueueEmpty
  <2>2. CASE s \notin ss
    BY <1>5, <2>2 DEF IInv, Apart
  <2> QED
    BY <2>1, <2>2
<1>7. ASSUME NEW s \in Streams
      PROVE  /\ buffer_pos'[s] \in 0 .. buffer_size'[s]
             /\ Unread(s)' > 0 => current'[s] # None
             /\ \A j \in Held(s)' : buffer_size'[s] = file'[j].len
  <2>1. CASE s \in ss
    <3>1. buffer_size[s] \in Nat /\ buffer_pos'[s] = buffer_size[s] /\ current'[s] = None
      BY <1>2, <1>5, <2>1
    <3> QED
      BY <3>1 DEF Unread, Held
  <2>2. CASE s \notin ss
    BY <1>5, <2>2 DEF IInv, BuffersValid, Held, Unread
  <2> QED
    BY <2>1, <2>2
<1>8. BuffersValid'
  <2>1. DOMAIN refcount' = DOMAIN refcount
    BY <1>1
  <2> QED
    BY <1>2, <1>3, <1>7, <2>1 DEF BuffersValid
<1>9. CallInv'
  BY <1>2 DEF CallInv
<1> QED
  BY <1>4, <1>6, <1>8, <1>9 DEF IInv

LEMMA MinPair ==
  ASSUME NEW a \in Int, NEW b \in Int
  PROVE  Min({a, b}) \in {a, b} /\ Min({a, b}) <= a /\ Min({a, b}) <= b
<1>1. Min({a, b}) = CHOOSE x \in {a, b} : \A y \in {a, b} : x <= y
  BY DEF Min
<1>2. \E x \in {a, b} : \A y \in {a, b} : x <= y
  <2>1. CASE a <= b
    BY <2>1
  <2>2. CASE b <= a
    BY <2>2
  <2> QED
    BY <2>1, <2>2
<1> DEFINE m == CHOOSE x \in {a, b} : \A y \in {a, b} : x <= y
<1>3. m \in {a, b} /\ \A y \in {a, b} : m <= y
  BY <1>2
<1> HIDE DEF m
<1> QED
  BY <1>1, <1>3 DEF m

LEMMA CallStepInd == ASSUME IInv, CallStep PROVE IInv'
<1>1. /\ call \in Calls /\ call.ds \in Streams /\ call.left \in Nat /\ NoCall \in Calls
      /\ buffer_pos[call.ds] \in Nat /\ buffer_size[call.ds] \in Nat
      /\ buffer_pos[call.ds] <= buffer_size[call.ds]
      /\ \A s \in Streams : call.ds = s /\ call.at = "full" => current[s] # None
      /\ \A s \in Streams : Unread(s) > 0 => current[s] # None
  BY DEF IInv, Typed, Calls, BuffersValid, NoCall, Ops, Streams
<1>2. CASE ReadData
  <2> DEFINE n == Min({Unread(call.ds), call.left})
  <2>1. /\ call.at = "look" /\ buffer_pos' = [buffer_pos EXCEPT ![call.ds] = @ + n]
        /\ IF n = call.left THEN call' = NoCall ELSE call' = [call EXCEPT !.left = @ - n]
        /\ UNCHANGED <<file, next, refcount, queue, current, buffer_size>>
    BY <1>2 DEF ReadData, In, Deliver, Return, main
  <2>2. n \in Nat /\ n <= Unread(call.ds) /\ n <= call.left
    <3>1. Unread(call.ds) \in Nat
      BY <1>1 DEF Unread
    <3>2. n \in {Unread(call.ds), call.left} /\ n <= Unread(call.ds) /\ n <= call.left
      <4>1. Unread(call.ds) \in Int /\ call.left \in Int
        BY <1>1, <3>1
      <4> QED
        BY <4>1, MinPair, Zenon
    <3> HIDE DEF n
    <3> QED
      BY <1>1, <3>1, <3>2
  <2> HIDE DEF n
  <2>3. call' \in Calls /\ call'.at = "look"
    <3>1. CASE n = call.left
      BY <1>1, <2>1, <3>1 DEF NoCall
    <3>2. CASE n # call.left
      <4>1. call.left - n \in Nat
        BY <1>1, <2>2
      <4> QED
        BY <1>1, <2>1, <3>2, <4>1 DEF Calls
    <3> QED
      BY <3>1, <3>2
  <2> QED
    BY <2>1, <2>2, <2>3, GoesOn
<1>3. CASE GivePacket
  <2>1. /\ buffer_pos' = [buffer_pos EXCEPT ![call.ds] = @ + Unread(call.ds)]
        /\ call' = NoCall /\ UNCHANGED <<file, next, refcount, queue, current, buffer_size>>
    BY <1>3 DEF GivePacket, Deliver, Return, main
  <2>2. Unread(call.ds) \in Nat /\ Unread(call.ds) <= Unread(call.ds)
    BY <1>1 DEF Unread
  <2>3. call' \in Calls /\ call'.at = "look"
    BY <1>1, <2>1 DEF NoCall
  <2> QED
    BY <2>1, <2>2, <2>3, GoesOn
<1>4. CASE KeepPacket
  <2>1. /\ call.op # "none" /\ Unread(call.ds) > 0 /\ call' = [call EXCEPT !.at = "full"]
        /\ UNCHANGED <<file, next, refcount, queue, current, buffer_pos, buffer_size>>
    BY <1>4 DEF KeepPacket, In, At, ds, main
  <2>2. call' \in Calls /\ call'.op # "none" /\ call'.at = "full" /\ call'.ds = call.ds
    BY <1>1, <2>1 DEF Calls
  <2>3. current[call'.ds] # None
    BY <1>1, <2>1, <2>2
  <2>4. CallInv'
    BY <2>2 DEF CallInv
  <2> QED
    BY <2>1, <2>2, <2>3, <2>4, OnlyCalls
<1>5. CASE NoSubtitle \/ TooEarly \/ PtsReturns
  <2>1. call' = NoCall /\ UNCHANGED <<file, next, refcount, queue, current, buffer_pos, buffer_size>>
    BY <1>5 DEF NoSubtitle, TooEarly, PtsReturns, Return, ds, main
  <2>2. call' \in Calls /\ CallInv' /\ call'.at # "full"
    BY <1>1, <2>1 DEF NoCall, CallInv
  <2> QED
    BY <2>1, <2>2, OnlyCalls
<1>6. CASE FillReads \/ PtsReads
  BY <1>6, DemuxInd DEF FillReads, PtsReads, main
<1> QED
  BY <1>2, <1>3, <1>4, <1>5, <1>6, FillBeginsInd, TakePacketInd, FillFailsInd DEF CallStep

LEMMA MainInd ==
  ASSUME IInv, Player \/ ReadAudio \/ AudioDone \/ ReadVideo \/ FrameWaits
  PROVE  IInv'
<1> DEFINE Starts == call' = call \/ \E op \in Ops \ {"none"}, s \in Streams, n \in Nat : Begin(op, s, n)
<1>1. Starts /\ call.op = "none" /\ Reads /\ UNCHANGED file
  <2> USE DEF Main, Goes, Ops, Streams
  <2>1. CASE Open \/ Opened
    BY <2>1 DEF Open, Opened
  <2>2. CASE AudioRead \/ AudioDone \/ FrameWaits \/ VideoRead \/ SubtitleRead
    BY <2>2 DEF AudioRead, AudioDone, FrameWaits, VideoRead, SubtitleRead
  <2>3. CASE ReadAudio
    <3>1. \A n \in Wants : n \in Nat
      BY PacketAssumption
    <3> QED
      BY <2>3, <3>1 DEF ReadAudio
  <2>4. CASE ReadVideo \/ Subtitles \/ ReadSubtitle
    BY <2>4 DEF ReadVideo, Subtitles, ReadSubtitle
  <2> QED
    BY <2>1, <2>2, <2>3, <2>4 DEF Player
<1>2. UNCHANGED <<file, next, refcount, queue, current, buffer_pos, buffer_size>>
  BY <1>1 DEF Reads, ds
<1>3. call' \in Calls /\ call'.at = "look"
  <2>1. CASE call' = call
    BY <1>1, <2>1 DEF IInv, Typed, CallInv
  <2>2. ASSUME NEW op \in Ops \ {"none"}, NEW s \in Streams, NEW n \in Nat, Begin(op, s, n)
        PROVE  call' \in Calls /\ call'.at = "look"
    BY <2>2 DEF Begin, Calls
  <2> QED
    BY <1>1, <2>1, <2>2
<1>4. CallInv'
  BY <1>3 DEF CallInv
<1> QED
  BY <1>2, <1>3, <1>4, OnlyCalls

LEMMA JumpInd == ASSUME IInv, Seek \/ SwitchSubtitles PROVE IInv'
<1>1. CASE Seek
  <2>1. PICK i \in 1 .. Len(file) + 1 : next' = i /\ Flush(Streams, i)
    BY <1>1 DEF Seek
  <2>2. next' \in Nat \ {0} /\ next' <= Len(file) + 1
    BY <2>1 DEF IInv, Typed
  <2>3. call.op = "none" /\ UNCHANGED <<file, buffer_size, call>>
    BY <1>1 DEF Seek, Jump, Main
  <2> QED
    BY <2>1, <2>2, <2>3, FlushInd
<1>2. CASE SwitchSubtitles
  <2>1. /\ Flush({"sub"}, next) /\ call.op = "none" /\ UNCHANGED <<file, next, buffer_size, call>>
        /\ {"sub"} \subseteq Streams
    BY <1>2 DEF SwitchSubtitles, Jump, Main, Streams
  <2>2. next' \in Nat \ {0} /\ next' <= Len(file) + 1
    BY <2>1 DEF IInv, Typed
  <2> QED
    BY <2>1, <2>2, FlushInd
<1> QED
  BY <1>1, <1>2

LEMMA Initially == Init => IInv
<1> SUFFICES ASSUME Init PROVE IInv
  OBVIOUS
<1>1. /\ file \in Files /\ next = 1 /\ call = NoCall
      /\ refcount = [i \in DOMAIN file |-> 0]
      /\ queue = [s \in Streams |-> << >>] /\ current = [s \in Streams |-> None]
      /\ buffer_pos = [s \in Streams |-> 0] /\ buffer_size = [s \in Streams |-> 0]
  BY DEF Init
<1>2. file \in Seq([to : SUBSET Streams, len : Nat])
  BY <1>1, PacketAssumption
<1>3. DOMAIN file = 1 .. Len(file) /\ Len(file) \in Nat
  BY <1>2
<1>4. call \in Calls /\ call.at = "look"
  BY <1>1 DEF NoCall, Calls, Ops, Streams
<1>5. Typed
  <2>1. refcount \in [1 .. Len(file) -> Int]
    BY <1>1, <1>3
  <2>2. queue \in [Streams -> Seq(Nat)]
    BY <1>1, QueueEmpty
  <2>3. current \in [Streams -> Nat \cup {None}]
    BY <1>1
  <2>4. buffer_pos \in [Streams -> Nat] /\ buffer_size \in [Streams -> Nat]
    BY <1>1
  <2> QED
    BY <1>1, <1>2, <1>3, <1>4, <2>1, <2>2, <2>3, <2>4 DEF Typed
<1>6. Apart
  BY <1>1, QueueEmpty DEF Apart
<1>7. \A i : Holders(i) = {}
  BY <1>1, QueueEmpty DEF Holders, Held
<1>8. BuffersValid
  <2>1. \A i \in DOMAIN refcount : refcount[i] = Cardinality(Holders(i))
    BY <1>1, <1>7, FS_EmptySet
  <2>2. ASSUME NEW s \in Streams
        PROVE  /\ buffer_pos[s] \in 0 .. buffer_size[s] /\ ~(Unread(s) > 0) /\ Held(s) = {}
    BY <1>1 DEF Unread, Held
  <2> QED
    BY <1>4, <2>1, <2>2 DEF BuffersValid
<1> QED
  BY <1>4, <1>5, <1>6, <1>8 DEF IInv, CallInv

LEMMA AllStep == ASSUME IInv, [Next]_vars PROVE IInv'
<1>1. CASE UNCHANGED vars
  <2>1. /\ UNCHANGED <<file, next, refcount, queue, current, buffer_pos, buffer_size>>
        /\ call' = call
    BY <1>1 DEF vars
  <2>2. call' \in Calls /\ CallInv' /\ (call'.at = "full" => current[call'.ds] # None)
    BY <2>1 DEF IInv, Typed, Calls, CallInv, BuffersValid
  <2> QED
    BY <2>1, <2>2, OnlyCalls
<1> QED
  BY <1>1, CallStepInd, MainInd, JumpInd DEF Next

(* A packet that was cloned for two streams, or is read while it is queued no
   longer, is freed when the last stream lets go of it and not before
   (ds_fill_buffer and ds_free_packs in libmpdemux/demuxer.c), for every file
   and every order in which main reads, seeks and changes the subtitles. *)
THEOREM CountsAreExact == Spec => []BuffersValid
<1>1. IInv /\ [Next]_vars => IInv'
  BY AllStep
<1>2. IInv => BuffersValid
  BY DEF IInv
<1> QED
  BY <1>1, <1>2, Initially, PTL DEF Spec
-----------------------------------------------------------------------------
(* The bytes of packets. *)

Places == 1 .. Len(file)
AllBytes == Nat \X Nat
FileTyped == file \in Seq([to : SUBSET Streams, len : Nat])

LEMMA PacketTyped ==
  ASSUME FileTyped, NEW i \in Places
  PROVE  i \in Nat /\ file[i].len \in Nat /\ file[i].to \subseteq Streams
<1> DEFINE T == [to : SUBSET Streams, len : Nat]
<1>1. file \in Seq(T) /\ i \in 1 .. Len(file)
  BY DEF FileTyped, Places
<1>2. file[i] \in T /\ i \in Nat
  <2> HIDE DEF T
  <2> QED
    BY <1>1, ElementOfSeq
<1> QED
  BY <1>2

LEMMA BytesAre ==
  ASSUME FileTyped, NEW i \in Places, NEW n \in Nat, n <= file[i].len
  PROVE  /\ BytesOf(i, n) \in Seq(AllBytes) /\ Len(BytesOf(i, n)) = file[i].len - n
         /\ n = file[i].len => BytesOf(i, n) = << >>
<1> DEFINE k == file[i].len - n
<1>1. k \in Nat /\ i \in Nat
  BY PacketTyped
<1>2. BytesOf(i, n) = [b \in 1 .. k |-> <<i, n + b>>]
  BY DEF BytesOf
<1> HIDE DEF k
<1>3. [b \in 1 .. k |-> <<i, n + b>>] \in Seq(AllBytes) /\ Len([b \in 1 .. k |-> <<i, n + b>>]) = k
  <2>1. \A b \in 1 .. k : <<i, n + b>> \in AllBytes
    BY <1>1 DEF AllBytes
  <2> HIDE DEF AllBytes
  <2> QED
    BY <1>1, <2>1
<1>4. k = 0 => [b \in 1 .. k |-> <<i, n + b>>] = << >>
  BY <1>1
<1>5. n = file[i].len => k = 0
  BY PacketTyped DEF k
<1> QED
  BY <1>2, <1>3, <1>4, <1>5 DEF k

LEMMA BytesSplit ==
  ASSUME FileTyped, NEW i \in Places, NEW n \in Nat, NEW m \in Nat, n + m <= file[i].len
  PROVE  \E had \in Seq(AllBytes) : Len(had) = m /\ BytesOf(i, n) = had \o BytesOf(i, n + m)
<1> DEFINE had == [b \in 1 .. m |-> <<i, n + b>>]
           k == file[i].len
           rest == [b \in 1 .. k - (n + m) |-> <<i, (n + m) + b>>]
<1>1. i \in Nat /\ k \in Nat /\ k - n \in Nat /\ k - (n + m) \in Nat /\ m + (k - (n + m)) = k - n
  BY PacketTyped
<1>2. had \in Seq(AllBytes) /\ Len(had) = m
  <2>1. \A b \in 1 .. m : <<i, n + b>> \in AllBytes
    BY <1>1 DEF AllBytes
  <2> HIDE DEF AllBytes
  <2> QED
    BY <2>1
<1>3. rest \in Seq(AllBytes) /\ Len(rest) = k - (n + m)
  <2>1. \A b \in 1 .. k - (n + m) : <<i, (n + m) + b>> \in AllBytes
    BY <1>1 DEF AllBytes
  <2> HIDE DEF AllBytes
  <2> QED
    BY SMTT(30), <1>1, <2>1
<1>4. \A b \in 1 .. m : had[b] = <<i, n + b>>
  OBVIOUS
<1>5. \A b \in 1 .. k - (n + m) : rest[b] = <<i, (n + m) + b>>
  OBVIOUS
<1> DEFINE whole == [b \in 1 .. k - n |-> <<i, n + b>>]
<1>6. BytesOf(i, n) = whole /\ BytesOf(i, n + m) = rest
  BY DEF BytesOf
<1> DEFINE l == k - n
<1>10. whole \in Seq(AllBytes) /\ Len(whole) = l /\ \A b \in 1 .. l : whole[b] = <<i, n + b>>
  <2>1. \A b \in 1 .. l : <<i, n + b>> \in AllBytes
    BY <1>1 DEF AllBytes
  <2>2. l \in Nat
    BY <1>1
  <2> HIDE DEF AllBytes, l
  <2>3. [b \in 1 .. l |-> <<i, n + b>>] \in Seq(AllBytes)
    BY <2>1, <2>2
  <2>4. /\ Len([b \in 1 .. l |-> <<i, n + b>>]) = l
        /\ \A c \in 1 .. l : [b \in 1 .. l |-> <<i, n + b>>][c] = <<i, n + c>>
    BY <2>2
  <2> QED
    BY <2>3, <2>4 DEF l
<1> HIDE DEF had, rest, whole, k
<1>7. /\ had \o rest \in Seq(AllBytes) /\ Len(had \o rest) = k - n
      /\ \A b \in 1 .. k - n : (had \o rest)[b] = IF b <= m THEN had[b] ELSE rest[b - m]
  <2>1. had \o rest \in Seq(AllBytes) /\ Len(had \o rest) = Len(had) + Len(rest)
    BY <1>2, <1>3, ConcatProperties
  <2>2. \A b \in 1 .. Len(had) + Len(rest) :
          (had \o rest)[b] = IF b <= Len(had) THEN had[b] ELSE rest[b - Len(had)]
    BY SMTT(30), <1>2, <1>3
  <2> QED
    BY <1>1, <1>2, <1>3, <2>1, <2>2
<1>8. ASSUME NEW b \in 1 .. k - n PROVE (had \o rest)[b] = <<i, n + b>>
  <2>1. CASE b <= m
    <3>1. b \in 1 .. m
      BY <1>1, <2>1
    <3> QED
      BY <1>4, <1>7, <2>1, <3>1
  <2>2. CASE ~(b <= m)
    <3>1. b - m \in 1 .. k - (n + m) /\ (n + m) + (b - m) = n + b
      BY <1>1, <2>2
    <3>2. (had \o rest)[b] = rest[b - m]
      BY <1>7, <2>2
    <3>3. rest[b - m] = <<i, (n + m) + (b - m)>>
      BY <1>5, <3>1
    <3> QED
      BY <3>1, <3>2, <3>3
  <2> QED
    BY <2>1, <2>2
<1>9. had \o rest = whole
  BY <1>7, <1>8, <1>10, SeqEqual
<1> QED
  BY <1>2, <1>6, <1>9

\* What a stream has of a packet of the file.
Part(s, i) == IF s \in file[i].to THEN BytesOf(i, 0) ELSE << >>
Parts(s, i, j) == [k \in 1 .. j - i |-> Part(s, i + k - 1)]
Cut(packets) == [k \in 1 .. Len(packets) |-> BytesOf(packets[k], 0)]

LEMMA ConcatIs == \A packets : Concat(packets) = FlattenSeq(Cut(packets))
  BY DEF Concat, Cut

LEMMA InFileIs == \A s, i, j : InFile(s, i, j) = FlattenSeq(Parts(s, i, j))
  BY DEF InFile, Parts, Part

LEMMA PartTyped ==
  ASSUME FileTyped, NEW i \in Places, NEW s
  PROVE  BytesOf(i, 0) \in Seq(AllBytes) /\ Part(s, i) \in Seq(AllBytes)
<1>1. BytesOf(i, 0) \in Seq(AllBytes)
  BY PacketTyped, BytesAre
<1>2. << >> \in Seq(AllBytes)
  OBVIOUS
<1> QED
  BY <1>1, <1>2 DEF Part

\* A sequence is made of its elements.
LEMMA Made ==
  ASSUME NEW S, NEW n \in Nat, NEW f, f = [k \in 1 .. n |-> f[k]], \A k \in 1 .. n : f[k] \in S
  PROVE  f \in Seq(S) /\ Len(f) = n
  OBVIOUS

LEMMA Joined ==
  ASSUME NEW S, NEW s \in Seq(S), NEW t \in Seq(S)
  PROVE  /\ \A k \in 1 .. Len(s) : (s \o t)[k] = s[k]
         /\ \A k \in 1 .. Len(t) : (s \o t)[Len(s) + k] = t[k]
  OBVIOUS

LEMMA BytesJoin ==
  \A u, v, w \in Seq(AllBytes) : u \o v \in Seq(AllBytes) /\ (u \o v) \o w = u \o (v \o w)
<1>1. ASSUME NEW S, NEW u \in Seq(S), NEW v \in Seq(S), NEW w \in Seq(S)
      PROVE  u \o v \in Seq(S) /\ (u \o v) \o w = u \o (v \o w)
  BY ConcatProperties, ConcatAssociative
<1> QED
  BY <1>1

Associate(u, v, w) == (u \o v) \o w = u \o (v \o w)

LEMMA BytesAssociate ==
  ASSUME NEW u \in Seq(AllBytes), NEW v \in Seq(AllBytes), NEW w \in Seq(AllBytes)
  PROVE  Associate(u, v, w)
  BY SMTT(30), BytesJoin DEF Associate

LEMMA CutTyped ==
  ASSUME FileTyped, NEW packets \in Seq(Places)
  PROVE  /\ Cut(packets) \in Pieces(AllBytes) /\ Cut(packets) \in Seq(Seq(AllBytes))
         /\ Len(packets) \in Nat /\ Len(Cut(packets)) = Len(packets)
         /\ \A k \in 1 .. Len(packets) : Cut(packets)[k] = BytesOf(packets[k], 0)
<1> DEFINE S == Seq(AllBytes)
           n == Len(packets)
           f == Cut(packets)
<1>1. n \in Nat /\ \A k \in 1 .. n : packets[k] \in Places
  BY ElementOfSeq, LenProperties
<1>2. \A k \in 1 .. n : BytesOf(packets[k], 0) \in S
  BY <1>1, PartTyped
<1>3. f = [k \in 1 .. n |-> BytesOf(packets[k], 0)]
  BY DEF Cut
<1> HIDE DEF S, n, f
<1>4. f = [k \in 1 .. n |-> f[k]] /\ \A k \in 1 .. n : f[k] = BytesOf(packets[k], 0)
  BY <1>3
<1>5. f \in Seq(S) /\ Len(f) = n
  BY <1>1, <1>2, <1>4, Made
<1> QED
  BY <1>1, <1>4, <1>5 DEF S, n, f, Pieces

LEMMA PartsTyped ==
  ASSUME FileTyped, NEW s, NEW i \in Nat, NEW j \in Nat, 0 < i, i <= j, j <= Len(file) + 1
  PROVE  /\ Parts(s, i, j) \in Pieces(AllBytes) /\ Parts(s, i, j) \in Seq(Seq(AllBytes))
         /\ j - i \in Nat /\ Len(Parts(s, i, j)) = j - i
         /\ \A k \in 1 .. j - i : i + k - 1 \in Places /\ Parts(s, i, j)[k] = Part(s, i + k - 1)
<1> DEFINE S == Seq(AllBytes)
           n == j - i
           f == Parts(s, i, j)
<1>0. Len(file) \in Nat
  BY LenProperties DEF FileTyped
<1>1. n \in Nat /\ \A k \in 1 .. n : i + k - 1 \in Places
  BY <1>0 DEF Places
<1>2. \A k \in 1 .. n : Part(s, i + k - 1) \in S
  BY <1>1, PartTyped
<1>3. f = [k \in 1 .. n |-> Part(s, i + k - 1)]
  BY DEF Parts
<1> HIDE DEF S, n, f
<1>4. f = [k \in 1 .. n |-> f[k]] /\ \A k \in 1 .. n : f[k] = Part(s, i + k - 1)
  BY <1>3
<1>5. f \in Seq(S) /\ Len(f) = n
  BY <1>1, <1>2, <1>4, Made
<1> QED
  BY <1>1, <1>4, <1>5 DEF S, n, f, Pieces

LEMMA ConcatTyped ==
  ASSUME FileTyped, NEW packets \in Seq(Places)
  PROVE  Concat(packets) \in Seq(AllBytes)
  BY ConcatIs, CutTyped, FlattenType

LEMMA InFileTyped ==
  ASSUME FileTyped, NEW s, NEW i \in Nat, NEW j \in Nat, 0 < i, i <= j, j <= Len(file) + 1
  PROVE  InFile(s, i, j) \in Seq(AllBytes)
  BY InFileIs, PartsTyped, FlattenType

LEMMA ConcatEmpty == Concat(<< >>) = << >>
<1>1. Cut(<< >>) = << >>
  BY DEF Cut
<1> QED
  BY <1>1, ConcatIs, FlattenEmpty

LEMMA ConcatAdded ==
  ASSUME FileTyped, NEW packets \in Seq(Places), NEW i \in Places
  PROVE  Concat(Append(packets, i)) = Concat(packets) \o BytesOf(i, 0)
<1> DEFINE S == Seq(AllBytes)
           more == Append(packets, i)
           a == Cut(more)
           b == Append(Cut(packets), BytesOf(i, 0))
           n == Len(packets)
<1>1. /\ more \in Seq(Places) /\ Len(more) = n + 1 /\ more[n + 1] = i /\ n \in Nat
      /\ \A k \in 1 .. n : more[k] = packets[k]
  BY AppendProperties, LenProperties
<1>2. a \in Seq(S) /\ Len(a) = n + 1 /\ \A k \in 1 .. n + 1 : a[k] = BytesOf(more[k], 0)
  <2> HIDE DEF more
  <2> QED
    BY <1>1, CutTyped
<1>3. Cut(packets) \in Seq(S) /\ Len(Cut(packets)) = n /\ \A k \in 1 .. n : Cut(packets)[k] = BytesOf(packets[k], 0)
  BY CutTyped
<1>4. BytesOf(i, 0) \in S
  BY PartTyped
<1> HIDE DEF S
<1>5. b \in Seq(S) /\ Len(b) = n + 1 /\ b[n + 1] = BytesOf(i, 0) /\ \A k \in 1 .. n : b[k] = Cut(packets)[k]
  BY <1>3, <1>4, AppendProperties
<1> HIDE DEF a, b, more, n
<1>6. ASSUME NEW k \in 1 .. n + 1 PROVE a[k] = b[k]
  <2>1. k \in 1 .. n \/ k = n + 1
    BY <1>1
  <2> QED
    BY <1>1, <1>2, <1>3, <1>5, <2>1
<1>7. a = b
  BY <1>2, <1>5, <1>6, SeqEqual
<1>8. Cut(packets) \in Pieces(AllBytes) /\ BytesOf(i, 0) \in Seq(AllBytes)
  BY CutTyped, PartTyped
<1>9. FlattenSeq(b) = FlattenSeq(Cut(packets)) \o BytesOf(i, 0)
  BY <1>8, FlattenAppend DEF b
<1> QED
  BY <1>7, <1>9, ConcatIs DEF a, more

LEMMA ConcatTaken ==
  ASSUME FileTyped, NEW packets \in Seq(Places), packets # << >>
  PROVE  /\ Head(packets) \in Places /\ Tail(packets) \in Seq(Places)
         /\ Concat(packets) = BytesOf(Head(packets), 0) \o Concat(Tail(packets))
<1> DEFINE S == Seq(AllBytes)
           i == Head(packets)
           rest == Tail(packets)
           a == Cut(packets)
           one == <<BytesOf(i, 0)>>
           b == one \o Cut(rest)
           n == Len(rest)
<1>1. /\ i \in Places /\ rest \in Seq(Places) /\ Len(packets) = n + 1 /\ packets[1] = i /\ n \in Nat
      /\ \A k \in 1 .. n : rest[k] = packets[k + 1]
  <2>1. i \in Places /\ rest \in Seq(Places) /\ Len(rest) = Len(packets) - 1
        /\ \A k \in 1 .. Len(rest) : rest[k] = packets[k + 1]
    BY HeadTailProperties
  <2>2. Len(packets) \in Nat /\ Len(rest) \in Nat /\ packets[1] = i
    BY <2>1, LenProperties
  <2> QED
    BY <2>1, <2>2
<1>2. a \in Seq(S) /\ Len(a) = n + 1 /\ \A k \in 1 .. n + 1 : a[k] = BytesOf(packets[k], 0)
  <2> HIDE DEF n
  <2> QED
    BY <1>1, CutTyped
<1>3. Cut(rest) \in Seq(S) /\ Len(Cut(rest)) = n /\ \A k \in 1 .. n : Cut(rest)[k] = BytesOf(rest[k], 0)
  <2> HIDE DEF rest
  <2> QED
    BY <1>1, CutTyped
<1>4. BytesOf(i, 0) \in S
  <2> HIDE DEF i
  <2> QED
    BY <1>1, PartTyped
<1> HIDE DEF S, i, rest, n
<1>5. one \in Seq(S) /\ Len(one) = 1 /\ one[1] = BytesOf(i, 0)
  BY <1>4
<1> HIDE DEF one
<1>6. /\ b \in Seq(S) /\ Len(b) = n + 1 /\ b[1] = BytesOf(i, 0)
      /\ \A k \in 1 .. n : b[k + 1] = Cut(rest)[k]
  <2> DEFINE x == Cut(rest)
  <2>1. x \in Seq(S) /\ Len(x) = n /\ n \in Nat
    BY <1>1, <1>3
  <2> HIDE DEF x
  <2>2. one \o x \in Seq(S) /\ Len(one \o x) = Len(one) + Len(x)
    BY <1>5, <2>1, ConcatProperties
  <2>3. /\ \A k \in 1 .. Len(one) : (one \o x)[k] = one[k]
        /\ \A k \in 1 .. Len(x) : (one \o x)[Len(one) + k] = x[k]
    <3>1. one \in Seq(S) /\ x \in Seq(S)
      BY <1>5, <2>1
    <3> HIDE DEF one
    <3> QED
      BY <3>1, Joined
  <2>4. (one \o x)[1] = one[1]
    <3>1. 1 \in 1 .. Len(one)
      BY <1>5
    <3> QED
      BY <2>3, <3>1, Zenon
  <2>5. ASSUME NEW k \in 1 .. n PROVE (one \o x)[k + 1] = x[k]
    <3>1. k + 1 = 1 + k
      BY <2>1
    <3> QED
      BY <1>5, <2>1, <2>3, <3>1
  <2> QED
    BY <1>5, <2>1, <2>2, <2>4, <2>5 DEF x
<1> HIDE DEF a, b
<1>7. ASSUME NEW k \in 1 .. n + 1 PROVE a[k] = b[k]
  <2>1. CASE k = 1
    BY <1>1, <1>2, <1>6, <2>1
  <2>2. CASE k # 1
    <3> DEFINE m == k - 1
    <3>1. m \in 1 .. n /\ k = m + 1
      BY <1>1, <2>2
    <3> HIDE DEF m
    <3>2. a[k] = BytesOf(packets[m + 1], 0)
      BY <1>2, <3>1
    <3>3. b[k] = BytesOf(rest[m], 0)
      BY <1>3, <1>6, <3>1
    <3> QED
      BY <1>1, <3>1, <3>2, <3>3
  <2> QED
    BY <2>1, <2>2
<1>8. a = b
  BY <1>2, <1>6, <1>7, SeqEqual
<1>9. Cut(rest) \in Pieces(AllBytes) /\ BytesOf(i, 0) \in Seq(AllBytes)
  BY <1>1, CutTyped, PartTyped
<1>10. FlattenSeq(b) = BytesOf(i, 0) \o FlattenSeq(Cut(rest))
  BY <1>9, FlattenFront DEF b, one
<1> QED
  BY <1>1, <1>8, <1>10, ConcatIs DEF a, i, rest

LEMMA InFileEmpty == ASSUME NEW s, NEW i \in Nat PROVE InFile(s, i, i) = << >>
<1>1. i - i = 0
  OBVIOUS
<1>2. Parts(s, i, i) = [k \in 1 .. 0 |-> Part(s, i + k - 1)]
  BY <1>1 DEF Parts
<1>3. [k \in 1 .. 0 |-> Part(s, i + k - 1)] = << >>
  OBVIOUS
<1> QED
  BY <1>2, <1>3, InFileIs, FlattenEmpty

LEMMA InFileNext ==
  ASSUME FileTyped, NEW s, NEW i \in Nat, NEW j \in Nat, 0 < i, i <= j, j <= Len(file)
  PROVE  InFile(s, i, j + 1) = InFile(s, i, j) \o Part(s, j)
<1> DEFINE S == Seq(AllBytes)
           a == Parts(s, i, j + 1)
           c == Parts(s, i, j)
           b == Append(c, Part(s, j))
           n == j - i
<1>0. Len(file) \in Nat /\ j + 1 \in Nat /\ i <= j + 1 /\ j + 1 <= Len(file) + 1 /\ j <= Len(file) + 1
      /\ n \in Nat /\ (j + 1) - i = n + 1 /\ j \in Places /\ i + (n + 1) - 1 = j
  BY LenProperties DEF FileTyped, Places
<1>1. a \in Seq(S) /\ Len(a) = (j + 1) - i /\ \A k \in 1 .. (j + 1) - i : a[k] = Part(s, i + k - 1)
  <2> DEFINE l == j + 1
  <2> HIDE DEF l, S
  <2>1. /\ Parts(s, i, l) \in Seq(S) /\ Len(Parts(s, i, l)) = l - i
        /\ \A k \in 1 .. l - i : Parts(s, i, l)[k] = Part(s, i + k - 1)
    BY <1>0, PartsTyped DEF l, S
  <2> QED
    BY <2>1 DEF l
<1>2. c \in Seq(S) /\ Len(c) = n /\ \A k \in 1 .. n : c[k] = Part(s, i + k - 1)
  BY <1>0, PartsTyped
<1>3. Part(s, j) \in S
  BY <1>0, PartTyped
<1>4. c \in Pieces(AllBytes) /\ Part(s, j) \in Seq(AllBytes)
  BY <1>0, PartsTyped, PartTyped
<1> HIDE DEF S, a, c, n
<1>5. b \in Seq(S) /\ Len(b) = n + 1 /\ b[n + 1] = Part(s, j) /\ \A k \in 1 .. n : b[k] = c[k]
  BY <1>2, <1>3, AppendProperties
<1> HIDE DEF b
<1>6. ASSUME NEW k \in 1 .. n + 1 PROVE a[k] = b[k]
  <2>1. CASE k \in 1 .. n
    BY <1>0, <1>1, <1>2, <1>5, <2>1
  <2>2. CASE k = n + 1
    BY <1>0, <1>1, <1>5, <2>2
  <2> QED
    BY SMTT(30), <1>0, <2>1, <2>2
<1>7. a = b
  BY <1>0, <1>1, <1>5, <1>6, SeqEqual
<1>8. FlattenSeq(b) = FlattenSeq(c) \o Part(s, j)
  BY <1>4, FlattenAppend DEF b
<1> QED
  BY <1>7, <1>8, InFileIs DEF a, c

\* What lies from one place to another lies before and behind a place between.
LEMMA InFileSplit ==
  ASSUME FileTyped, NEW s, NEW i \in Nat, NEW j \in Nat, NEW k \in Nat,
         0 < i, i <= j, j <= k, k <= Len(file) + 1
  PROVE  InFile(s, i, k) = InFile(s, i, j) \o InFile(s, j, k)
<1> DEFINE For(n) == j + n <= Len(file) + 1 => InFile(s, i, j + n) = InFile(s, i, j) \o InFile(s, j, j + n)
           P == {n \in Nat : For(n)}
<1>0. Len(file) \in Nat /\ 0 < j
  BY LenProperties DEF FileTyped
<1>1. For(0)
  <2>1. j + 0 = j /\ j <= Len(file) + 1
    BY <1>0
  <2>2. InFile(s, i, j) \in Seq(AllBytes)
    BY <2>1, InFileTyped
  <2>3. InFile(s, i, j) \o << >> = InFile(s, i, j)
    BY <2>2
  <2> QED
    BY <2>1, <2>3, InFileEmpty
<1>2. ASSUME NEW n \in Nat, For(n) PROVE For(n + 1)
  <2> SUFFICES ASSUME j + (n + 1) <= Len(file) + 1
               PROVE  InFile(s, i, j + (n + 1)) = InFile(s, i, j) \o InFile(s, j, j + (n + 1))
    OBVIOUS
  <2> DEFINE l == j + n
  <2>1. l \in Nat /\ l <= Len(file) /\ l <= Len(file) + 1 /\ i <= l /\ j <= l /\ j + (n + 1) = l + 1
        /\ j <= Len(file) + 1 /\ l \in Places
    BY <1>0 DEF Places
  <2>2. InFile(s, i, l) = InFile(s, i, j) \o InFile(s, j, l)
    BY <1>2, <2>1
  <2> HIDE DEF l, For
  <2>3. InFile(s, i, l + 1) = InFile(s, i, l) \o Part(s, l)
    BY <2>1, InFileNext
  <2>4. InFile(s, j, l + 1) = InFile(s, j, l) \o Part(s, l)
    BY <1>0, <2>1, InFileNext
  <2>5. InFile(s, i, j) \in Seq(AllBytes) /\ InFile(s, j, l) \in Seq(AllBytes) /\ Part(s, l) \in Seq(AllBytes)
    BY <1>0, <2>1, InFileTyped, PartTyped
  <2>6. (InFile(s, i, j) \o InFile(s, j, l)) \o Part(s, l) = InFile(s, i, j) \o (InFile(s, j, l) \o Part(s, l))
    BY <2>5, BytesJoin, ZenonT(30)
  <2> QED
    BY <2>1, <2>2, <2>3, <2>4, <2>6
<1> HIDE DEF For
<1>3. 0 \in P /\ \A n \in Nat : n \in P => n + 1 \in P
  BY <1>1, <1>2
<1>4. Nat \subseteq P
  <2> HIDE DEF P
  <2> QED
    BY <1>3, Induction
<1>5. k - j \in Nat /\ j + (k - j) = k
  OBVIOUS
<1>6. For(k - j)
  BY <1>4, <1>5
<1> QED
  BY <1>5, <1>6 DEF For

-----------------------------------------------------------------------------
(* Every stream whole. *)

\* What decoders have had of a stream, before what is buffered and queued.
Had(s, had) ==
  /\ had \in Seq(AllBytes) /\ Len(had) = taken[s]
  /\ InFile(s, from[s], next) = had \o (Buffered(s) \o Concat(queue[s]))
Whole(s) ==
  /\ taken[s] \in Nat /\ from[s] \in Nat \ {0} /\ from[s] <= next
  /\ \E had : Had(s, had)
Flow ==
  /\ taken \in [Streams -> Nat] /\ from \in [Streams -> Nat \ {0}]
  /\ \A s \in Streams : Whole(s)

\* What a stream has, as far as the bytes go.
StreamTyped(s) ==
  /\ FileTyped /\ next \in Nat \ {0} /\ next <= Len(file) + 1
  /\ queue[s] \in Seq(Places)
  /\ buffer_pos[s] \in Nat /\ buffer_size[s] \in Nat /\ buffer_pos[s] <= buffer_size[s]
  /\ Unread(s) > 0 => current[s] \in Places /\ buffer_size[s] = file[current[s]].len

LEMMA StreamIs == ASSUME IInv, NEW s \in Streams PROVE StreamTyped(s) /\ s \in Streams
<1>1. /\ FileTyped /\ next \in Nat \ {0} /\ next <= Len(file) + 1
      /\ buffer_pos[s] \in Nat /\ buffer_size[s] \in Nat /\ queue[s] \in Seq(Nat)
      /\ current[s] \in Nat \cup {None}
  BY DEF IInv, Typed, FileTyped
<1>2. Len(file) \in Nat
  BY <1>1, LenProperties DEF FileTyped
<1>3. queue[s] \in Seq(Places)
  <2> DEFINE q == queue[s]
  <2>1. q \in Seq(Nat) /\ \A i \in Range(q) : 0 < i /\ i < next
    BY <1>1 DEF IInv, Apart
  <2> HIDE DEF q
  <2>2. Len(q) \in Nat /\ q \in [1 .. Len(q) -> Nat] /\ DOMAIN q = 1 .. Len(q)
    BY <2>1, LenProperties
  <2>3. ASSUME NEW k \in 1 .. Len(q) PROVE q[k] \in Places
    <3>1. q[k] \in Range(q) /\ q[k] \in Nat
      BY <2>2 DEF Range
    <3> QED
      BY <1>1, <1>2, <2>1, <3>1 DEF Places
  <2>4. q = [k \in 1 .. Len(q) |-> q[k]]
    BY <2>2
  <2>5. q \in Seq(Places)
    BY <2>2, <2>3, <2>4, Made
  <2> QED
    BY <2>5 DEF q
<1>4. buffer_pos[s] <= buffer_size[s]
  BY <1>1 DEF IInv, BuffersValid
<1>5. ASSUME Unread(s) > 0 PROVE current[s] \in Places /\ buffer_size[s] = file[current[s]].len
  <2>1. current[s] # None /\ current[s] \in Held(s)
    BY <1>5 DEF IInv, BuffersValid, Held
  <2>2. 0 < current[s] /\ current[s] < next /\ buffer_size[s] = file[current[s]].len
    BY <2>1 DEF IInv, Apart, BuffersValid
  <2>3. current[s] \in Nat
    BY <1>1, <2>1
  <2> QED
    BY <1>1, <1>2, <2>2, <2>3 DEF Places
<1> QED
  BY <1>1, <1>3, <1>4, <1>5 DEF StreamTyped

LEMMA BufferedTyped == ASSUME NEW s, StreamTyped(s) PROVE Buffered(s) \in Seq(AllBytes)
<1>1. CASE Unread(s) > 0
  <2>1. /\ current[s] \in Places /\ buffer_pos[s] \in Nat /\ buffer_pos[s] <= file[current[s]].len /\ FileTyped
    BY <1>1 DEF StreamTyped
  <2>2. BytesOf(current[s], buffer_pos[s]) \in Seq(AllBytes)
    BY <2>1, BytesAre
  <2> QED
    BY <1>1, <2>2 DEF Buffered
<1>2. CASE ~(Unread(s) > 0)
  BY <1>2 DEF Buffered
<1> QED
  BY <1>1, <1>2

\* A stream of which nothing is read.
LEMMA QuietWhole ==
  ASSUME NEW s, Whole(s), UNCHANGED <<file, next>>, queue'[s] = queue[s], taken'[s] = taken[s],
         from'[s] = from[s], Buffered(s)' = Buffered(s)
  PROVE  Whole(s)'
<1>1. Concat(queue[s])' = Concat(queue[s])
  BY DEF Concat, BytesOf
<1>2. InFile(s, from[s], next)' = InFile(s, from[s], next)
  BY DEF InFile, BytesOf
<1>3. \A had : Had(s, had)' <=> Had(s, had)
  BY <1>1, <1>2 DEF Had
<1> QED
  BY <1>3 DEF Whole

LEMMA SameWhole ==
  ASSUME NEW s, Whole(s), UNCHANGED <<file, next>>, queue'[s] = queue[s], taken'[s] = taken[s],
         from'[s] = from[s], current'[s] = current[s], buffer_pos'[s] = buffer_pos[s],
         buffer_size'[s] = buffer_size[s]
  PROVE  Whole(s)'
<1>1. Buffered(s)' = Buffered(s)
  BY DEF Buffered, Unread, BytesOf
<1> QED
  BY <1>1, QuietWhole

LEMMA ReadWhole ==
  ASSUME NEW s, StreamTyped(s), Whole(s), NEW n \in Nat, n <= Unread(s),
         UNCHANGED <<file, next>>, queue'[s] = queue[s], from'[s] = from[s],
         current'[s] = current[s], buffer_size'[s] = buffer_size[s],
         buffer_pos'[s] = buffer_pos[s] + n, taken'[s] = taken[s] + n
  PROVE  Whole(s)'
<1>1. taken[s] \in Nat /\ buffer_pos[s] \in Nat /\ buffer_size[s] \in Nat /\ FileTyped
  BY DEF Whole, StreamTyped
<1>2. CASE n = 0
  <2>1. taken'[s] = taken[s] /\ buffer_pos'[s] = buffer_pos[s]
    BY <1>1, <1>2
  <2> QED
    BY <2>1, SameWhole
<1>3. CASE n # 0
  <2> DEFINE i == current[s]
             pos == buffer_pos[s]
             r == BytesOf(i, pos + n)
             q == Concat(queue[s])
  <2>1. /\ Unread(s) > 0 /\ i \in Places /\ buffer_size[s] = file[i].len /\ pos + n \in Nat
        /\ pos + n <= file[i].len /\ pos \in Nat
    BY <1>1, <1>3 DEF StreamTyped, Unread
  <2>2. Buffered(s) = BytesOf(i, pos)
    BY <2>1 DEF Buffered
  <2>3. PICK d \in Seq(AllBytes) : Len(d) = n /\ BytesOf(i, pos) = d \o r
    <3> HIDE DEF i, pos
    <3> QED
      BY <1>1, <2>1, BytesSplit
  <2>4. Buffered(s)' = r
    <3>1. Unread(s)' = file[i].len - (pos + n)
      BY <2>1 DEF Unread
    <3>2. CASE file[i].len - (pos + n) > 0
      BY <2>1, <3>1, <3>2 DEF Buffered, BytesOf
    <3>3. CASE ~(file[i].len - (pos + n) > 0)
      <4>1. pos + n = file[i].len
        BY <2>1, <3>3, PacketTyped, <1>1
      <4>2. r = << >>
        <5> HIDE DEF i, pos
        <5> QED
          BY <1>1, <2>1, <4>1, BytesAre
      <4> QED
        BY <3>1, <3>3, <4>2 DEF Buffered
    <3> QED
      BY <3>2, <3>3
  <2>5. PICK had : Had(s, had)
    BY DEF Whole
  <2>6. r \in Seq(AllBytes) /\ q \in Seq(AllBytes) /\ had \in Seq(AllBytes)
    <3>1. r \in Seq(AllBytes)
      <4> HIDE DEF i, pos
      <4> QED
        BY <1>1, <2>1, BytesAre
    <3>2. q \in Seq(AllBytes)
      BY ConcatTyped, <1>1 DEF StreamTyped
    <3> QED
      BY <2>5, <3>1, <3>2 DEF Had
  <2>7. InFile(s, from[s], next)' = InFile(s, from[s], next) /\ Concat(queue[s])' = q
    BY DEF InFile, Concat, BytesOf
  <2>8. InFile(s, from[s], next) = had \o ((d \o r) \o q)
    BY <2>2, <2>3, <2>5 DEF Had
  <2> HIDE DEF i, pos, r, q
  <2>9. had \o ((d \o r) \o q) = (had \o d) \o (r \o q)
    <3>1. r \o q \in Seq(AllBytes) /\ (d \o r) \o q = d \o (r \o q)
      BY <2>3, <2>6, BytesJoin
    <3>2. (had \o d) \o (r \o q) = had \o (d \o (r \o q))
      <4> DEFINE x == r \o q
      <4> HIDE DEF x
      <4>1. x \in Seq(AllBytes)
        BY <3>1 DEF x
      <4>2. Associate(had, d, x)
        BY <2>3, <2>6, <4>1, BytesAssociate
      <4> QED
        BY <4>2 DEF x, Associate
    <3> QED
      BY <3>1, <3>2
  <2>10. had \o d \in Seq(AllBytes) /\ Len(had \o d) = taken[s] + n
    <3>1. Len(had) = taken[s]
      BY <2>5 DEF Had
    <3>2. had \o d \in Seq(AllBytes) /\ Len(had \o d) = Len(had) + Len(d)
      BY <2>3, <2>6, ConcatProperties
    <3> QED
      BY <2>3, <3>1, <3>2
  <2>11. Had(s, had \o d)'
    BY <2>4, <2>7, <2>8, <2>9, <2>10 DEF Had
  <2>12. taken'[s] \in Nat
    BY <1>1
  <2> QED
    BY <2>11, <2>12 DEF Whole
<1> QED
  BY <1>2, <1>3

LEMMA TakeWhole ==
  ASSUME NEW s, StreamTyped(s), Whole(s), Unread(s) <= 0, queue[s] # << >>,
         UNCHANGED <<file, next>>, taken'[s] = taken[s], from'[s] = from[s],
         queue'[s] = Tail(queue[s]), current'[s] = Head(queue[s]),
         buffer_pos'[s] = 0, buffer_size'[s] = file[Head(queue[s])].len
  PROVE  Whole(s)'
<1> DEFINE i == Head(queue[s])
           q == Concat(Tail(queue[s]))
<1>1. FileTyped /\ queue[s] \in Seq(Places) /\ Buffered(s) = << >>
  <2>1. ~(Unread(s) > 0)
    BY DEF StreamTyped, Unread
  <2> QED
    BY <2>1 DEF StreamTyped, Buffered
<1>2. i \in Places /\ Tail(queue[s]) \in Seq(Places) /\ Concat(queue[s]) = BytesOf(i, 0) \o q
  BY <1>1, ConcatTaken
<1>3. Concat(queue[s])' = q
  BY DEF Concat, BytesOf
<1>4. InFile(s, from[s], next)' = InFile(s, from[s], next)
  BY DEF InFile, BytesOf
<1>5. Buffered(s)' = BytesOf(i, 0)
  <2>1. file[i].len \in Nat /\ 0 \in Nat /\ 0 <= file[i].len
    BY <1>1, <1>2, PacketTyped
  <2>2. Unread(s)' = file[i].len
    BY <2>1 DEF Unread
  <2>3. CASE file[i].len > 0
    BY <2>2, <2>3 DEF Buffered, BytesOf
  <2>4. CASE file[i].len = 0
    <3>1. BytesOf(i, 0) = << >>
      <4> HIDE DEF i
      <4> QED
        BY <1>1, <1>2, <2>1, <2>4, BytesAre
    <3> QED
      BY <2>2, <2>4, <3>1 DEF Buffered
  <2> QED
    BY <2>1, <2>3, <2>4
<1>6. PICK had : Had(s, had)
  BY DEF Whole
<1>7. BytesOf(i, 0) \in Seq(AllBytes) /\ q \in Seq(AllBytes)
  <2> HIDE DEF i
  <2> QED
    BY <1>1, <1>2, PartTyped, ConcatTyped
<1> HIDE DEF i, q
<1>8. << >> \o (BytesOf(i, 0) \o q) = BytesOf(i, 0) \o q
  <2>1. BytesOf(i, 0) \o q \in Seq(AllBytes)
    BY <1>7, BytesJoin
  <2> QED
    BY <2>1, ConcatEmptySeq
<1>9. Had(s, had)'
  BY <1>1, <1>2, <1>3, <1>4, <1>5, <1>6, <1>8 DEF Had
<1> QED
  BY <1>9 DEF Whole

\* A packet of the file is read, for some streams.
LEMMA DemuxWhole ==
  ASSUME NEW s, StreamTyped(s), Whole(s), next <= Len(file),
         UNCHANGED file, next' = next + 1, taken'[s] = taken[s], from'[s] = from[s],
         current'[s] = current[s], buffer_pos'[s] = buffer_pos[s], buffer_size'[s] = buffer_size[s],
         queue'[s] = IF s \in file[next].to THEN Append(queue[s], next) ELSE queue[s]
  PROVE  Whole(s)'
<1> DEFINE more == Part(s, next)
           q == Concat(queue[s])
           b == Buffered(s)
<1>1. /\ FileTyped /\ queue[s] \in Seq(Places) /\ next \in Places /\ next \in Nat
      /\ from[s] \in Nat /\ 0 < from[s] /\ from[s] <= next
  <2>1. FileTyped /\ queue[s] \in Seq(Places) /\ next \in Nat \ {0} /\ from[s] \in Nat \ {0} /\ from[s] <= next
    BY DEF StreamTyped, Whole
  <2>2. Len(file) \in Nat
    BY <2>1, LenProperties DEF FileTyped
  <2> QED
    BY <2>1, <2>2 DEF Places
<1>2. InFile(s, from[s], next + 1) = InFile(s, from[s], next) \o more
  BY <1>1, InFileNext
<1>3. InFile(s, from[s], next)' = InFile(s, from[s], next + 1)
  BY DEF InFile, BytesOf
<1>4. b \in Seq(AllBytes) /\ q \in Seq(AllBytes) /\ more \in Seq(AllBytes)
  BY <1>1, BufferedTyped, ConcatTyped, PartTyped
<1>5. Concat(queue[s])' = q \o more
  <2>1. CASE s \in file[next].to
    <3>1. queue'[s] = Append(queue[s], next) /\ more = BytesOf(next, 0)
      BY <2>1 DEF Part
    <3>2. Concat(Append(queue[s], next)) = q \o BytesOf(next, 0)
      BY <1>1, ConcatAdded
    <3>3. Concat(queue[s])' = Concat(queue'[s])
      BY DEF Concat, BytesOf
    <3> QED
      BY <3>1, <3>2, <3>3
  <2>2. CASE s \notin file[next].to
    <3>1. queue'[s] = queue[s] /\ more = << >>
      BY <2>2 DEF Part
    <3>2. Concat(queue[s])' = q
      BY <3>1 DEF Concat, BytesOf
    <3> HIDE DEF q
    <3>3. q \o << >> = q
      BY <1>4, ConcatEmptySeq
    <3> QED
      BY <3>1, <3>2, <3>3
  <2> QED
    BY <2>1, <2>2
<1>6. Buffered(s)' = b
  BY DEF Buffered, Unread, BytesOf
<1>7. PICK had : Had(s, had)
  BY DEF Whole
<1>8. (had \o (b \o q)) \o more = had \o (b \o (q \o more))
  <2> HIDE DEF b, q, more
  <2>0. had \in Seq(AllBytes)
    BY <1>7 DEF Had
  <2>1. b \o q \in Seq(AllBytes) /\ (b \o q) \o more = b \o (q \o more)
    BY SMTT(30), <1>4, BytesJoin
  <2>2. (had \o (b \o q)) \o more = had \o ((b \o q) \o more)
    <3> DEFINE x == b \o q
    <3> HIDE DEF x
    <3>1. x \in Seq(AllBytes)
      BY <2>1 DEF x
    <3>2. Associate(had, x, more)
      BY <1>4, <2>0, <3>1, BytesAssociate
    <3> QED
      BY <3>2 DEF x, Associate
  <2> QED
    BY <2>1, <2>2
<1>9. InFile(s, from[s], next) = had \o (b \o q)
  BY <1>7 DEF Had
<1> HIDE DEF b, q, more
<1>10. Had(s, had)'
  BY <1>2, <1>3, <1>5, <1>6, <1>7, <1>8, <1>9 DEF Had
<1>11. from'[s] <= next'
  BY <1>1
<1> QED
  BY <1>10, <1>11 DEF Whole

\* A stream that has nothing and goes on elsewhere.
LEMMA FreshWhole ==
  ASSUME NEW s, file' = file, next' \in Nat \ {0}, from'[s] = next', taken'[s] = 0,
         queue'[s] = << >>, buffer_pos'[s] = buffer_size'[s], buffer_size'[s] \in Nat
  PROVE  Whole(s)'
<1>1. InFile(s, from[s], next)' = << >>
  <2>1. InFile(s, next', next') = << >>
    BY InFileEmpty
  <2>2. InFile(s, from[s], next)' = InFile(s, next', next')
    BY DEF InFile, BytesOf
  <2> QED
    BY <2>1, <2>2
<1>2. Concat(queue[s])' = << >>
  <2>1. Concat(queue[s])' = Concat(<< >>)
    BY DEF Concat, BytesOf
  <2> QED
    BY <2>1, ConcatEmpty
<1>3. Buffered(s)' = << >>
  BY DEF Buffered, Unread
<1>4. << >> \in Seq(AllBytes) /\ Len(<< >>) = 0 /\ << >> \o (<< >> \o << >>) = << >>
  OBVIOUS
<1>5. Had(s, << >>)'
  BY <1>1, <1>2, <1>3, <1>4 DEF Had
<1> QED
  BY <1>5 DEF Whole

\* A step that leaves alone what streams have and have had.
LEMMA FlowSame ==
  ASSUME Flow, UNCHANGED <<file, next, queue, current, buffer_pos, buffer_size, from, taken>>
  PROVE  Flow'
<1>1. ASSUME NEW s \in Streams PROVE Whole(s)'
  <2>1. Whole(s)
    BY DEF Flow
  <2> QED
    BY <2>1, SameWhole
<1> QED
  BY <1>1 DEF Flow

LEMMA FlowGoesOn ==
  ASSUME IInv, Flow, NEW n \in Nat, n <= Unread(call.ds),
         UNCHANGED <<file, next, queue, current, buffer_size, from>>,
         buffer_pos' = [buffer_pos EXCEPT ![call.ds] = @ + n],
         taken' = [taken EXCEPT ![call.ds] = @ + n]
  PROVE  Flow'
<1> DEFINE s == call.ds
<1>1. /\ s \in Streams /\ buffer_pos \in [Streams -> Nat] /\ taken \in [Streams -> Nat]
      /\ \A t \in Streams : Whole(t)
  BY DEF IInv, Typed, Calls, Flow
<1>2. StreamTyped(s) /\ n <= Unread(s)
  BY <1>1, StreamIs
<1> HIDE DEF s
<1>3. buffer_pos' = [buffer_pos EXCEPT ![s] = @ + n] /\ taken' = [taken EXCEPT ![s] = @ + n]
  BY DEF s
<1>4. /\ buffer_pos'[s] = buffer_pos[s] + n /\ taken'[s] = taken[s] + n
      /\ \A t \in Streams : t # s => buffer_pos'[t] = buffer_pos[t] /\ taken'[t] = taken[t]
  BY <1>1, <1>3
<1>5. taken' \in [Streams -> Nat]
  <2>1. taken[s] + n \in Nat
    BY <1>1
  <2> QED
    BY <1>1, <1>3, <2>1
<1>6. ASSUME NEW t \in Streams PROVE Whole(t)'
  <2>1. Whole(t) /\ from'[t] = from[t] /\ queue'[t] = queue[t] /\ current'[t] = current[t]
        /\ buffer_size'[t] = buffer_size[t]
    BY <1>1
  <2>2. CASE t = s
    <3>1. StreamTyped(t) /\ n <= Unread(t) /\ buffer_pos'[t] = buffer_pos[t] + n /\ taken'[t] = taken[t] + n
      BY <1>2, <1>4, <2>2
    <3> QED
      BY <2>1, <3>1, ReadWhole
  <2>3. CASE t # s
    BY <1>4, <2>1, <2>3, SameWhole
  <2> QED
    BY <2>2, <2>3
<1> QED
  BY <1>5, <1>6 DEF Flow

LEMMA FlowDemuxed ==
  ASSUME IInv, Flow, ~AtEnd, Demuxed,
         UNCHANGED <<file, current, buffer_pos, buffer_size, from, taken>>
  PROVE  Flow'
<1>1. /\ next \in Nat \ {0} /\ next <= Len(file) /\ Len(file) \in Nat
      /\ queue' = [s \in Streams |-> IF s \in file[next].to THEN Append(queue[s], next) ELSE queue[s]]
      /\ next' = next + 1
  BY DEF IInv, Typed, AtEnd, Demuxed
<1>2. ASSUME NEW s \in Streams PROVE Whole(s)'
  <2>1. StreamTyped(s) /\ Whole(s)
    BY StreamIs DEF Flow
  <2>2. queue'[s] = IF s \in file[next].to THEN Append(queue[s], next) ELSE queue[s]
    BY <1>1
  <2> QED
    BY <1>1, <2>1, <2>2, DemuxWhole
<1> QED
  BY <1>2 DEF Flow

LEMMA FilledNothing ==
  ASSUME IInv, call.at = "fill"
  PROVE  call.ds \in Streams /\ Unread(call.ds) <= 0
<1>1. /\ call.ds \in Streams /\ current[call.ds] = None
      /\ buffer_pos[call.ds] \in Nat /\ buffer_size[call.ds] \in Nat
  BY DEF IInv, Typed, Calls, CallInv
<1>2. ~(Unread(call.ds) > 0)
  BY <1>1 DEF IInv, BuffersValid
<1> QED
  BY <1>1, <1>2 DEF Unread

LEMMA FlowBegins == ASSUME IInv, Flow, FillBegins PROVE Flow'
<1> DEFINE s == call.ds
<1>1. /\ s \in Streams /\ ~(Unread(s) > 0) /\ current' = [current EXCEPT ![s] = None]
      /\ UNCHANGED <<file, next, queue, buffer_pos, buffer_size, from, taken>>
  <2>1. s \in Streams /\ buffer_pos[s] \in Nat /\ buffer_size[s] \in Nat
    BY DEF IInv, Typed, Calls
  <2> QED
    BY <2>1 DEF FillBegins, history, main, Unread
<1> HIDE DEF s
<1>2. \A t \in Streams : t # s => current'[t] = current[t]
  BY <1>1 DEF IInv, Typed
<1>3. ASSUME NEW t \in Streams PROVE Whole(t)'
  <2>1. Whole(t)
    BY DEF Flow
  <2>2. CASE t = s
    <3>1. Buffered(t) = << >> /\ Buffered(t)' = << >>
      BY <1>1, <2>2 DEF Buffered, Unread
    <3> QED
      BY <1>1, <2>1, <3>1, QuietWhole
  <2>3. CASE t # s
    BY <1>1, <1>2, <2>1, <2>3, SameWhole
  <2> QED
    BY <2>2, <2>3
<1> QED
  BY <1>1, <1>3 DEF Flow

LEMMA FlowTakes == ASSUME IInv, Flow, TakePacket PROVE Flow'
<1> DEFINE s == call.ds
           i == Head(queue[s])
<1>1. /\ s \in Streams /\ Unread(s) <= 0 /\ queue[s] # << >>
      /\ queue' = [queue EXCEPT ![s] = Tail(@)] /\ current' = [current EXCEPT ![s] = i]
      /\ buffer_pos' = [buffer_pos EXCEPT ![s] = 0] /\ buffer_size' = [buffer_size EXCEPT ![s] = file[i].len]
      /\ UNCHANGED <<file, next, from, taken>>
  <2>1. call.at = "fill"
    BY DEF TakePacket, Filling
  <2> QED
    BY <2>1, FilledNothing DEF TakePacket, Length, NewPosition, history, main
<1> HIDE DEF s
<1>2. /\ queue'[s] = Tail(queue[s]) /\ current'[s] = i /\ buffer_pos'[s] = 0 /\ buffer_size'[s] = file[i].len
      /\ \A t \in Streams : t # s => /\ queue'[t] = queue[t] /\ current'[t] = current[t]
                                     /\ buffer_pos'[t] = buffer_pos[t] /\ buffer_size'[t] = buffer_size[t]
  BY <1>1 DEF IInv, Typed
<1>3. ASSUME NEW t \in Streams PROVE Whole(t)'
  <2>1. Whole(t) /\ StreamTyped(t) /\ from'[t] = from[t] /\ taken'[t] = taken[t]
    BY <1>1, StreamIs DEF Flow
  <2>2. CASE t = s
    <3>1. /\ Unread(t) <= 0 /\ queue[t] # << >> /\ queue'[t] = Tail(queue[t]) /\ current'[t] = Head(queue[t])
          /\ buffer_pos'[t] = 0 /\ buffer_size'[t] = file[Head(queue[t])].len
      BY <1>1, <1>2, <2>2
    <3> QED
      BY <1>1, <2>1, <3>1, TakeWhole
  <2>3. CASE t # s
    BY <1>1, <1>2, <2>1, <2>3, SameWhole
  <2> QED
    BY <2>2, <2>3
<1> QED
  BY <1>1, <1>3 DEF Flow

LEMMA FlowFails == ASSUME IInv, Flow, FillFails PROVE Flow'
<1> DEFINE s == call.ds
<1>1. /\ s \in Streams /\ ~(Unread(s) > 0)
      /\ buffer_pos' = [buffer_pos EXCEPT ![s] = 0] /\ buffer_size' = [buffer_size EXCEPT ![s] = 0]
      /\ UNCHANGED <<file, next, queue, current, from, taken>>
  <2>1. call.at = "fill"
    BY DEF FillFails, Filling
  <2>2. s \in Streams /\ Unread(s) <= 0 /\ buffer_pos[s] \in Nat /\ buffer_size[s] \in Nat
    BY <2>1, FilledNothing DEF IInv, Typed
  <2> QED
    BY <2>2 DEF FillFails, history, main, Unread
<1> HIDE DEF s
<1>2. /\ buffer_pos'[s] = 0 /\ buffer_size'[s] = 0
      /\ \A t \in Streams : t # s => buffer_pos'[t] = buffer_pos[t] /\ buffer_size'[t] = buffer_size[t]
  BY <1>1 DEF IInv, Typed
<1>3. ASSUME NEW t \in Streams PROVE Whole(t)'
  <2>1. Whole(t)
    BY DEF Flow
  <2>2. CASE t = s
    <3>1. Buffered(t) = << >> /\ Buffered(t)' = << >>
      BY <1>1, <1>2, <2>2 DEF Buffered, Unread
    <3> QED
      BY <1>1, <2>1, <3>1, QuietWhole
  <2>3. CASE t # s
    BY <1>1, <1>2, <2>1, <2>3, SameWhole
  <2> QED
    BY <2>2, <2>3
<1> QED
  BY <1>1, <1>3 DEF Flow

LEMMA FlowFlushes ==
  ASSUME IInv, Flow, NEW ss, ss \subseteq Streams, NEW i \in Nat \ {0}, Flush(ss, i), next' = i,
         ss = Streams \/ next' = next, UNCHANGED <<file, buffer_size>>
  PROVE  Flow'
<1>1. /\ queue' = [s \in Streams |-> IF s \in ss THEN << >> ELSE queue[s]]
      /\ current' = [s \in Streams |-> IF s \in ss THEN None ELSE current[s]]
      /\ buffer_pos' = [s \in Streams |-> IF s \in ss THEN buffer_size[s] ELSE buffer_pos[s]]
      /\ from' = [s \in Streams |-> IF s \in ss THEN i ELSE from[s]]
      /\ taken' = [s \in Streams |-> IF s \in ss THEN 0 ELSE taken[s]]
  BY DEF Flush
<1>2. /\ buffer_size \in [Streams -> Nat] /\ taken \in [Streams -> Nat] /\ from \in [Streams -> Nat \ {0}]
      /\ \A s \in Streams : Whole(s)
  BY DEF IInv, Typed, Flow
<1>3. taken' \in [Streams -> Nat] /\ from' \in [Streams -> Nat \ {0}]
  BY <1>1, <1>2
<1>4. ASSUME NEW s \in Streams PROVE Whole(s)'
  <2>1. CASE s \in ss
    <3>1. /\ queue'[s] = << >> /\ buffer_pos'[s] = buffer_size'[s] /\ from'[s] = next' /\ taken'[s] = 0
          /\ buffer_size'[s] \in Nat /\ next' \in Nat \ {0}
      BY <1>1, <1>2, <2>1
    <3> QED
      BY <3>1, FreshWhole
  <2>2. CASE s \notin ss
    <3>1. /\ next' = next /\ queue'[s] = queue[s] /\ current'[s] = current[s] /\ buffer_pos'[s] = buffer_pos[s]
          /\ from'[s] = from[s] /\ taken'[s] = taken[s]
      BY <1>1, <2>2
    <3> QED
      BY <1>2, <3>1, SameWhole
  <2> QED
    BY <2>1, <2>2
<1> QED
  BY <1>3, <1>4 DEF Flow

LEMMA FlowCall == ASSUME IInv, Flow, CallStep PROVE Flow'
<1>1. /\ call.ds \in Streams /\ call.left \in Nat
      /\ buffer_pos[call.ds] \in Nat /\ buffer_size[call.ds] \in Nat
      /\ buffer_pos[call.ds] <= buffer_size[call.ds]
  BY DEF IInv, Typed, Calls, BuffersValid
<1>2. Unread(call.ds) \in Nat
  BY <1>1 DEF Unread
<1>3. CASE ReadData
  <2> DEFINE n == Min({Unread(call.ds), call.left})
  <2>1. /\ buffer_pos' = [buffer_pos EXCEPT ![call.ds] = @ + n] /\ taken' = [taken EXCEPT ![call.ds] = @ + n]
        /\ UNCHANGED <<file, next, queue, current, buffer_size, from>>
    BY <1>3 DEF ReadData, Deliver, main
  <2>2. n \in {Unread(call.ds), call.left} /\ n <= Unread(call.ds)
    <3>1. Unread(call.ds) \in Int /\ call.left \in Int
      BY <1>1, <1>2
    <3> QED
      BY <3>1, MinPair, Zenon
  <2> HIDE DEF n
  <2>3. n \in Nat
    BY <1>1, <1>2, <2>2
  <2> QED
    BY <2>1, <2>2, <2>3, FlowGoesOn
<1>4. CASE GivePacket
  <2> DEFINE n == Unread(call.ds)
  <2>1. /\ buffer_pos' = [buffer_pos EXCEPT ![call.ds] = @ + n] /\ taken' = [taken EXCEPT ![call.ds] = @ + n]
        /\ UNCHANGED <<file, next, queue, current, buffer_size, from>>
    BY <1>4 DEF GivePacket, Deliver, main
  <2>2. n \in Nat /\ n <= n /\ n <= Unread(call.ds)
    BY <1>2
  <2> HIDE DEF n
  <2> QED
    BY <2>1, <2>2, FlowGoesOn
<1>5. CASE KeepPacket \/ NoSubtitle \/ TooEarly \/ PtsReturns
  BY <1>5, FlowSame DEF KeepPacket, NoSubtitle, TooEarly, PtsReturns, ds, main, history
<1>6. CASE FillReads \/ PtsReads
  BY <1>6, FlowDemuxed DEF FillReads, PtsReads, main, history
<1> QED
  BY <1>3, <1>4, <1>5, <1>6, FlowBegins, FlowTakes, FlowFails DEF CallStep

LEMMA FlowMain ==
  ASSUME IInv, Flow, Player \/ ReadAudio \/ AudioDone \/ ReadVideo \/ FrameWaits
  PROVE  Flow'
<1>1. Reads /\ UNCHANGED file
  <2> USE DEF Goes
  <2>1. CASE Open \/ Opened \/ AudioRead \/ VideoRead \/ SubtitleRead
    BY <2>1 DEF Open, Opened, AudioRead, VideoRead, SubtitleRead
  <2>2. CASE AudioDone \/ FrameWaits \/ ReadAudio \/ ReadVideo \/ Subtitles \/ ReadSubtitle
    BY <2>2 DEF AudioDone, FrameWaits, ReadAudio, ReadVideo, Subtitles, ReadSubtitle
  <2> QED
    BY <2>1, <2>2 DEF Player
<1> QED
  BY <1>1, FlowSame DEF Reads, ds, history

LEMMA FlowJump == ASSUME IInv, Flow, Seek \/ SwitchSubtitles PROVE Flow'
<1>1. CASE Seek
  <2>1. PICK i \in 1 .. Len(file) + 1 : next' = i /\ Flush(Streams, i)
    BY <1>1 DEF Seek
  <2>2. i \in Nat \ {0} /\ Streams \subseteq Streams /\ UNCHANGED <<file, buffer_size>>
    BY <1>1 DEF Seek
  <2> QED
    BY <2>1, <2>2, FlowFlushes
<1>2. CASE SwitchSubtitles
  <2>1. /\ Flush({"sub"}, next) /\ UNCHANGED <<file, next, buffer_size>>
        /\ {"sub"} \subseteq Streams /\ next \in Nat \ {0}
    BY <1>2 DEF SwitchSubtitles, Streams, IInv, Typed
  <2> QED
    BY <2>1, FlowFlushes
<1> QED
  BY <1>1, <1>2

LEMMA FlowInit == ASSUME Init PROVE Flow
<1>1. /\ next = 1 /\ queue = [s \in Streams |-> << >>] /\ buffer_pos = [s \in Streams |-> 0]
      /\ buffer_size = [s \in Streams |-> 0] /\ from = [s \in Streams |-> 1] /\ taken = [s \in Streams |-> 0]
  BY DEF Init
<1>2. ASSUME NEW s \in Streams PROVE Whole(s)
  <2>1. queue[s] = << >> /\ ~(Unread(s) > 0) /\ from[s] = 1 /\ taken[s] = 0
    BY <1>1 DEF Unread
  <2>2. InFile(s, from[s], next) = << >>
    BY <1>1, <2>1, InFileEmpty
  <2>3. Buffered(s) = << >> /\ Concat(queue[s]) = << >>
    BY <2>1, ConcatEmpty DEF Buffered
  <2>4. << >> \in Seq(AllBytes) /\ Len(<< >>) = 0 /\ << >> \o (<< >> \o << >>) = << >>
    OBVIOUS
  <2>5. Had(s, << >>)
    BY <2>1, <2>2, <2>3, <2>4 DEF Had
  <2> QED
    BY <1>1, <2>1, <2>5 DEF Whole
<1> QED
  BY <1>1, <1>2 DEF Flow

LEMMA FlowStep == ASSUME IInv, Flow, [Next]_vars PROVE Flow'
<1>1. CASE UNCHANGED vars
  BY <1>1, FlowSame DEF vars
<1> QED
  BY <1>1, FlowCall, FlowMain, FlowJump DEF Next

\* The end of a sequence that is put together.
LEMMA Rest ==
  ASSUME NEW S, NEW s \in Seq(S), NEW t \in Seq(S), NEW all, all = s \o t
  PROVE  Len(s) <= Len(all) /\ SubSeq(all, Len(s) + 1, Len(all)) = t /\ Len(all) = Len(s) + Len(t)
<1>1. Len(all) = Len(s) + Len(t) /\ Len(s) \in Nat /\ Len(t) \in Nat
  BY ConcatProperties, LenProperties
<1>2. CASE t = << >>
  <2>1. Len(t) = 0
    BY <1>2
  <2>2. SubSeq(all, Len(s) + 1, Len(all)) = << >>
    BY <1>1, <2>1, SubSeqEmpty
  <2> QED
    BY <1>1, <1>2, <2>2
<1>3. CASE t # << >>
  <2>1. Len(t) # 0
    BY <1>3, EmptySeq
  <2>2. Len(s) + 1 \in Len(s) + 1 .. Len(s) + Len(t) /\ Len(all) \in Len(s) + 1 .. Len(s) + Len(t)
    BY <1>1, <2>1
  <2>3. SubSeq(s \o t, Len(s) + 1, Len(all)) = SubSeq(t, (Len(s) + 1) - Len(s), Len(all) - Len(s))
    BY <2>2, SubSeqOfConcat2
  <2>4. (Len(s) + 1) - Len(s) = 1 /\ Len(all) - Len(s) = Len(t)
    BY <1>1
  <2>5. SubSeq(t, 1, Len(t)) = t
    BY SubSeqFull
  <2> QED
    BY <1>1, <2>3, <2>4, <2>5
<1> QED
  BY <1>2, <1>3

LEMMA FlowIsWhole == ASSUME IInv, Flow PROVE WholeStream
<1> SUFFICES ASSUME NEW s \in Streams
             PROVE  /\ taken[s] <= Len(InFile(s, from[s], next))
                    /\ SubSeq(InFile(s, from[s], next), taken[s] + 1, Len(InFile(s, from[s], next)))
                         = Buffered(s) \o Concat(queue[s])
  BY DEF WholeStream
<1> DEFINE rest == Buffered(s) \o Concat(queue[s])
           all == InFile(s, from[s], next)
<1>1. PICK had : Had(s, had)
  BY DEF Flow, Whole
<1>2. rest \in Seq(AllBytes)
  <2>1. StreamTyped(s)
    BY StreamIs
  <2>2. Buffered(s) \in Seq(AllBytes) /\ Concat(queue[s]) \in Seq(AllBytes)
    BY <2>1, BufferedTyped, ConcatTyped DEF StreamTyped
  <2> QED
    BY <2>2, ConcatProperties
<1>3. had \in Seq(AllBytes) /\ Len(had) = taken[s] /\ all = had \o rest
  BY <1>1 DEF Had
<1> HIDE DEF rest, all
<1>4. Len(had) <= Len(all) /\ SubSeq(all, Len(had) + 1, Len(all)) = rest
  BY <1>2, <1>3, Rest
<1> QED
  BY <1>3, <1>4 DEF rest, all

(* Whoever made the demuxer read on, and however a packet was read in pieces,
   nothing of a stream is lost, doubled or out of order on its way to the decoder
   (ds_fill_buffer, demux_read_data and ds_get_packet in libmpdemux/demuxer.c),
   for every file, all limits and any seeks and changes of the subtitles. *)
THEOREM StreamsAreWhole == Spec => []WholeStream
<1>1. Init => IInv /\ Flow
  BY Initially, FlowInit
<1>2. IInv /\ Flow /\ [Next]_vars => (IInv /\ Flow)'
  BY AllStep, FlowStep
<1>3. IInv /\ Flow => WholeStream
  BY FlowIsWhole
<1> QED
  BY <1>1, <1>2, <1>3, PTL DEF Spec

-----------------------------------------------------------------------------
(* What waits for audio. *)

\* Video packets that were read since the last audio packet before place i.
Vain(i) == {v \in VideoBefore(i) : /\ file[v].len > Small
                                   /\ \A a \in v .. i - 1 : "audio" \notin file[a].to}
NoAudioIn(i, j) == \A a \in i .. j : "audio" \notin file[a].to
NoMoreAudio == queue["audio"] = << >> /\ NoAudioIn(next, Len(file))

LEMMA InterleavedIs ==
  Interleaved <=> \A i \in DOMAIN file : "audio" \in file[i].to =>
                    /\ Cardinality(Vain(i)) <= FillLimit
                    /\ Cardinality(VideoBefore(i)) < MaxPacks
                    /\ Len(InFile("video", 1, i)) < MaxBytes
  BY DEF Interleaved, Vain

LEMMA Limits ==
  /\ FillLimit \in Nat /\ Small \in Nat
  /\ MaxPacks \in Nat /\ MaxPacks # 0 /\ MaxBytes \in Nat /\ MaxBytes # 0
  BY PacketAssumption

LEMMA BeforeFinite ==
  ASSUME NEW i \in Nat
  PROVE  /\ IsFiniteSet(VideoBefore(i)) /\ Cardinality(VideoBefore(i)) \in Nat
         /\ IsFiniteSet(Vain(i)) /\ Cardinality(Vain(i)) \in Nat
         /\ VideoBefore(i) \subseteq 1 .. i - 1 /\ Vain(i) \subseteq VideoBefore(i)
<1>1. IsFiniteSet(1 .. i - 1)
  BY FS_Interval
<1>2. VideoBefore(i) \subseteq 1 .. i - 1 /\ Vain(i) \subseteq VideoBefore(i)
  BY DEF VideoBefore, Vain
<1>3. IsFiniteSet(VideoBefore(i))
  BY <1>1, <1>2, FS_Subset
<1>4. IsFiniteSet(Vain(i))
  BY <1>2, <1>3, FS_Subset
<1> QED
  BY <1>2, <1>3, <1>4, FS_CardinalityType

LEMMA VainGrows ==
  ASSUME NEW i \in Nat, NEW j \in Nat, i <= j, NoAudioIn(i, j - 1)
  PROVE  Cardinality(Vain(i)) <= Cardinality(Vain(j))
<1>1. Vain(i) \subseteq Vain(j)
  <2> SUFFICES ASSUME NEW v \in Vain(i) PROVE v \in Vain(j)
    OBVIOUS
  <2>1. v \in 1 .. i - 1 /\ "video" \in file[v].to /\ file[v].len > Small
    BY DEF Vain, VideoBefore
  <2>2. \A a \in v .. i - 1 : "audio" \notin file[a].to
    BY DEF Vain
  <2>3. \A a \in v .. j - 1 : a \in v .. i - 1 \/ a \in i .. j - 1
    BY <2>1
  <2>4. v \in 1 .. j - 1
    BY <2>1
  <2> QED
    BY <2>1, <2>2, <2>3, <2>4 DEF Vain, VideoBefore, NoAudioIn
<1> QED
  BY <1>1, BeforeFinite, FS_Subset

\* A video packet that counts is one more.
LEMMA VainCounts ==
  ASSUME NEW i \in Nat \ {0}, "audio" \notin file[i].to, "video" \in file[i].to, file[i].len > Small
  PROVE  Cardinality(Vain(i)) + 1 <= Cardinality(Vain(i + 1))
<1>1. Vain(i) \cup {i} \subseteq Vain(i + 1)
  <2>1. i \in Vain(i + 1)
    <3>1. i \in 1 .. (i + 1) - 1 /\ \A a \in i .. (i + 1) - 1 : a = i
      OBVIOUS
    <3> QED
      BY <3>1 DEF Vain, VideoBefore
  <2>2. ASSUME NEW v \in Vain(i) PROVE v \in Vain(i + 1)
    <3>1. v \in 1 .. i - 1 /\ "video" \in file[v].to /\ file[v].len > Small
      BY DEF Vain, VideoBefore
    <3>2. \A a \in v .. i - 1 : "audio" \notin file[a].to
      BY DEF Vain
    <3>3. \A a \in v .. (i + 1) - 1 : a \in v .. i - 1 \/ a = i
      BY <3>1
    <3>4. v \in 1 .. (i + 1) - 1
      BY <3>1
    <3> QED
      BY <3>1, <3>2, <3>3, <3>4 DEF Vain, VideoBefore
  <2> QED
    BY <2>1, <2>2
<1>2. i \notin Vain(i)
  BY BeforeFinite
<1>3. IsFiniteSet(Vain(i)) /\ Cardinality(Vain(i)) \in Nat
  BY BeforeFinite
<1>4. Cardinality(Vain(i) \cup {i}) = Cardinality(Vain(i)) + 1
  BY <1>2, <1>3, FS_AddElement
<1>5. i + 1 \in Nat /\ IsFiniteSet(Vain(i + 1))
  BY BeforeFinite
<1>6. Cardinality(Vain(i) \cup {i}) <= Cardinality(Vain(i + 1))
  BY <1>1, <1>5, FS_Subset
<1> QED
  BY <1>4, <1>6

\* Where there is a packet for audio ahead, there is a next one.
LEMMA NextAudio ==
  ASSUME NEW i \in Nat, NEW j \in Nat, ~NoAudioIn(i, j)
  PROVE  \E a \in i .. j : "audio" \in file[a].to /\ NoAudioIn(i, a - 1)
<1> DEFINE S == {a \in i .. j : "audio" \in file[a].to}
<1>1. S \subseteq Nat /\ S # {}
  BY DEF NoAudioIn
<1>2. PICK a \in S : \A b \in S : a <= b
  <2> HIDE DEF S
  <2> QED
    BY <1>1, Least
<1>3. ASSUME NEW b \in i .. a - 1 PROVE "audio" \notin file[b].to
  <2>1. b \in i .. j /\ ~(a <= b)
    BY <1>2
  <2> QED
    BY <1>2, <2>1
<1> QED
  BY <1>2, <1>3 DEF NoAudioIn

\* No more packets are queued than there are for the stream.
LEMMA QueueFits ==
  ASSUME NEW packets \in Seq(Nat), Distinct(packets), NEW S, IsFiniteSet(S), Range(packets) \subseteq S
  PROVE  Len(packets) <= Cardinality(S) /\ Len(packets) \in Nat
<1> DEFINE n == Len(packets)
           T == 1 .. n
<1>1. n \in Nat /\ packets \in [T -> Nat] /\ DOMAIN packets = T
  BY LenProperties
<1>2. IsFiniteSet(T) /\ Cardinality(T) = n
  <2>1. IsFiniteSet(1 .. n) /\ Cardinality(1 .. n) = IF 1 > n THEN 0 ELSE n - 1 + 1
    BY SMTT(30), <1>1, FS_Interval
  <2> QED
    BY <1>1, <2>1
<1>3. packets \in [T -> S]
  BY <1>1 DEF Range
<1>4. \A x, y \in T : x # y => packets[x] # packets[y]
  BY DEF Distinct
<1>5. Cardinality(S) \in Nat
  BY FS_CardinalityType
<1> HIDE DEF n, T
<1>6. ~(Cardinality(S) < Cardinality(T))
  BY <1>2, <1>3, <1>4, FS_PigeonHole
<1> QED
  BY <1>1, <1>2, <1>5, <1>6 DEF n

\* There is nothing of a stream in a part of the file where no packet is for it.
LEMMA InFileNone ==
  ASSUME FileTyped, NEW s, NEW i \in Nat, 0 < i, i <= Len(file) + 1,
         \A k \in i .. Len(file) : s \notin file[k].to
  PROVE  InFile(s, i, Len(file) + 1) = << >>
<1> DEFINE For(n) == i + n <= Len(file) + 1 => InFile(s, i, i + n) = << >>
           P == {n \in Nat : For(n)}
<1>0. Len(file) \in Nat
  BY LenProperties DEF FileTyped
<1>1. For(0)
  <2>1. i + 0 = i
    OBVIOUS
  <2> QED
    BY <2>1, InFileEmpty
<1>2. ASSUME NEW n \in Nat, For(n) PROVE For(n + 1)
  <2> SUFFICES ASSUME i + (n + 1) <= Len(file) + 1 PROVE InFile(s, i, i + (n + 1)) = << >>
    OBVIOUS
  <2> DEFINE l == i + n
  <2>1. l \in Nat /\ l <= Len(file) /\ i <= l /\ i + (n + 1) = l + 1 /\ l \in i .. Len(file) /\ l <= Len(file) + 1
    BY <1>0
  <2>2. InFile(s, i, l) = << >>
    BY <1>2, <2>1
  <2> HIDE DEF l, For
  <2>3. InFile(s, i, l + 1) = InFile(s, i, l) \o Part(s, l)
    BY <2>1, InFileNext
  <2>4. Part(s, l) = << >>
    BY <2>1 DEF Part
  <2>5. << >> \o << >> = << >>
    OBVIOUS
  <2> QED
    BY <2>1, <2>2, <2>3, <2>4, <2>5
<1> HIDE DEF For
<1>3. 0 \in P /\ \A n \in Nat : n \in P => n + 1 \in P
  BY <1>1, <1>2
<1>4. Nat \subseteq P
  <2> HIDE DEF P
  <2> QED
    BY <1>3, Induction
<1>5. (Len(file) + 1) - i \in Nat /\ i + ((Len(file) + 1) - i) = Len(file) + 1
  BY <1>0
<1>6. For((Len(file) + 1) - i)
  BY <1>4, <1>5
<1> QED
  BY <1>0, <1>5, <1>6 DEF For

-----------------------------------------------------------------------------
(* When streams say eof. *)

Ours == \A s \in Streams : \A i \in Range(queue[s]) : s \in file[i].to
Silence == \A s \in Streams : eof[s] => buffer_pos[s] = buffer_size[s]

\* What audio has waited for is in the file.
Waited == queue["audio"] = << >> => fill_count["audio"] <= Cardinality(Vain(next))
AudioOver == Interleaved /\ eof["audio"] => NoMoreAudio

\* Video can be read on, or there is none left.
Ready == AtEnd \/ (fill_count["video"] <= 0 /\ ~eof["video"])
VideoWaits == fill_count["audio"] > 0 /\ queue["audio"] = << >> => queue["video"] # << >> \/ Ready
VideoLeft == Interleaved /\ AudioAtEnd => queue["video"] # << >> \/ Ready

Counted == fill_count \in [Streams -> Int] /\ eof \in [Streams -> BOOLEAN]
Eofs == Counted /\ Ours /\ Silence /\ Waited /\ AudioOver /\ VideoWaits /\ VideoLeft

\* The call of ds_get_packet for video, and what it comes to.
Shown ==
  pc = "shown" =>
    /\ call.op = "none" \/ (call.op = "packet" /\ call.ds = "video")
    /\ call.op = "none" /\ answer = "failed" => queue["video"] = << >> /\ eof["video"]
Stopped == pc = "over" => call.op = "none"

EndInv == Eofs /\ Shown /\ Stopped /\ PlaysToTheEnd

LEMMA SameWindows ==
  ASSUME file' = file
  PROVE  Interleaved' = Interleaved /\ \A s : Has(s)' = Has(s)
<1>1. \A i : VideoBefore(i)' = VideoBefore(i)
  BY DEF VideoBefore
<1>2. \A i : InFile("video", 1, i)' = InFile("video", 1, i)
  BY DEF InFile, BytesOf
<1> QED
  BY <1>1, <1>2 DEF Interleaved, Has

LEMMA StreamNames == "audio" \in Streams /\ "video" \in Streams /\ "audio" # "video"
  BY DEF Streams

\* What IInv says of the queues and the place in the file.
LEMMA PlaceIs ==
  ASSUME IInv
  PROVE  /\ FileTyped /\ DOMAIN file = 1 .. Len(file) /\ Len(file) \in Nat
         /\ next \in Nat /\ next # 0 /\ 0 < next /\ next <= Len(file) + 1
         /\ \A s \in Streams : queue[s] \in Seq(Nat) /\ Distinct(queue[s])
                               /\ \A i \in Range(queue[s]) : i \in Nat /\ 0 < i /\ i < next
<1>1. /\ FileTyped /\ next \in Nat \ {0} /\ next <= Len(file) + 1
      /\ \A s \in Streams : queue[s] \in Seq(Nat)
  BY DEF IInv, Typed, FileTyped
<1>2. DOMAIN file = 1 .. Len(file) /\ Len(file) \in Nat
  BY <1>1, LenProperties DEF FileTyped
<1>3. \A s \in Streams : Distinct(queue[s]) /\ \A i \in Range(queue[s]) : 0 < i /\ i < next
  BY DEF IInv, Apart
<1>4. \A s \in Streams : \A i \in Range(queue[s]) : i \in Nat
  BY <1>1, RangeOfSeq
<1> QED
  BY <1>1, <1>2, <1>3, <1>4

\* The limits do not stop audio before the packet it waits for.
LEMMA VideoFits ==
  ASSUME IInv, Flow, Ours, Interleaved, NEW a \in next .. Len(file), "audio" \in file[a].to
  PROVE  ~Full("video") /\ Cardinality(Vain(a)) <= FillLimit
<1> DEFINE q == queue["video"]
<1>1. /\ FileTyped /\ Len(file) \in Nat /\ next \in Nat /\ 0 < next /\ next <= Len(file) + 1
      /\ q \in Seq(Nat) /\ Distinct(q) /\ (\A i \in Range(q) : i \in Nat /\ 0 < i /\ i < next)
      /\ a \in Nat /\ next <= a /\ a <= Len(file) /\ a \in DOMAIN file
  BY PlaceIs, StreamNames
<1>2. /\ Cardinality(Vain(a)) <= FillLimit /\ Cardinality(VideoBefore(a)) < MaxPacks
      /\ Len(InFile("video", 1, a)) < MaxBytes
  BY <1>1, InterleavedIs
<1>3. Length("video") < MaxPacks
  <2>1. Range(q) \subseteq VideoBefore(a)
    <3> SUFFICES ASSUME NEW i \in Range(q) PROVE i \in VideoBefore(a)
      OBVIOUS
    <3>1. "video" \in file[i].to
      BY StreamNames DEF Ours
    <3>2. i \in 1 .. a - 1
      BY <1>1
    <3> QED
      BY <3>1, <3>2 DEF VideoBefore
  <2>2. IsFiniteSet(VideoBefore(a)) /\ Cardinality(VideoBefore(a)) \in Nat
    BY <1>1, BeforeFinite
  <2> HIDE DEF q
  <2>3. Len(q) <= Cardinality(VideoBefore(a)) /\ Len(q) \in Nat
    BY <1>1, <2>1, <2>2, QueueFits
  <2>4. Len(q) < MaxPacks
    BY <1>2, <2>2, <2>3, Limits
  <2> QED
    BY <2>4 DEF Length, q
<1>4. Bytes("video") < MaxBytes
  <2> DEFINE f == from["video"]
             rest == Concat(q)
             read == InFile("video", f, next)
             b == Buffered("video")
  <2>1. Whole("video") /\ StreamTyped("video")
    BY StreamNames, StreamIs DEF Flow
  <2>2. PICK had : Had("video", had)
    BY <2>1 DEF Whole
  <2>3. f \in Nat /\ 0 < f /\ f <= next
    BY <2>1, <1>1 DEF Whole
  <2>4. b \in Seq(AllBytes) /\ rest \in Seq(AllBytes) /\ had \in Seq(AllBytes) /\ read = had \o (b \o rest)
    BY <2>1, <2>2, BufferedTyped, ConcatTyped DEF StreamTyped, Had
  <2>5. Len(rest) <= Len(read) /\ Len(rest) \in Nat /\ Len(read) \in Nat
    <3> HIDE DEF b, rest, read
    <3>1. b \o rest \in Seq(AllBytes) /\ Len(b \o rest) = Len(b) + Len(rest)
      BY <2>4, ConcatProperties
    <3>2. Len(read) = Len(had) + Len(b \o rest)
      BY <2>4, <3>1, ConcatProperties
    <3>3. Len(b) \in Nat /\ Len(rest) \in Nat /\ Len(had) \in Nat
      BY <2>4, LenProperties
    <3> QED
      BY <3>1, <3>2, <3>3
  <2> HIDE DEF f, q, read, rest
  <2>6. /\ InFile("video", 1, f) \in Seq(AllBytes) /\ InFile("video", f, a) \in Seq(AllBytes)
        /\ InFile("video", 1, a) = InFile("video", 1, f) \o InFile("video", f, a)
    <3>1. 1 \in Nat /\ 0 < 1 /\ 1 <= f /\ f <= a /\ a <= Len(file) + 1 /\ f <= Len(file) + 1
      BY <1>1, <2>3
    <3>2. FileTyped /\ 1 \in Nat /\ f \in Nat /\ a \in Nat
      BY <1>1, <2>3
    <3>3. InFile("video", 1, f) \in Seq(AllBytes) /\ InFile("video", f, a) \in Seq(AllBytes)
      BY <3>1, <3>2, InFileTyped
    <3>4. InFile("video", 1, a) = InFile("video", 1, f) \o InFile("video", f, a)
      BY ZenonT(30), <3>1, <3>2, InFileSplit
    <3> QED
      BY <3>3, <3>4
  <2>7. /\ InFile("video", next, a) \in Seq(AllBytes) /\ read \in Seq(AllBytes)
        /\ InFile("video", f, a) = read \o InFile("video", next, a)
    <3>1. a <= Len(file) + 1 /\ f <= Len(file) + 1
      BY <1>1, <2>3
    <3> QED
      BY <1>1, <2>3, <3>1, InFileTyped, InFileSplit DEF read
  <2>8. Len(InFile("video", f, a)) = Len(read) + Len(InFile("video", next, a))
    BY <2>7, ConcatProperties
  <2>9. Len(InFile("video", 1, a)) = Len(InFile("video", 1, f)) + Len(InFile("video", f, a))
    BY <2>6, ConcatProperties
  <2>10. /\ Len(InFile("video", 1, f)) \in Nat /\ Len(InFile("video", next, a)) \in Nat
         /\ Len(InFile("video", f, a)) \in Nat
    BY <2>6, <2>7, LenProperties
  <2>11. Len(rest) < MaxBytes
    BY <1>2, <2>5, <2>8, <2>9, <2>10, Limits
  <2> QED
    BY <2>11 DEF Bytes, rest, q
<1>5. Length("video") \in Int /\ Bytes("video") \in Int
  <2>1. StreamTyped("video")
    BY StreamNames, StreamIs
  <2>2. Concat(q) \in Seq(AllBytes)
    BY <2>1, ConcatTyped DEF StreamTyped
  <2> QED
    BY <1>1, <2>2, LenProperties DEF Length, Bytes
<1> QED
  BY <1>2, <1>3, <1>4, <1>5, Limits DEF Full

\* An empty queue is not too long.
LEMMA EmptyFits == ASSUME NEW s, queue[s] = << >> PROVE ~Full(s)
<1>1. Concat(queue[s]) = << >>
  BY ConcatEmpty
<1>2. Length(s) = 0 /\ Bytes(s) = 0
  BY <1>1 DEF Length, Bytes
<1> QED
  BY <1>2, Limits DEF Full

LEMMA AudioEnds ==
  ASSUME IInv, Flow, Eofs, Interleaved, queue["audio"] = << >>,
         fill_count["audio"] > FillLimit \/ eof["audio"] \/ TooMany \/ AtEnd
  PROVE  NoMoreAudio
<1> SUFFICES ASSUME ~NoAudioIn(next, Len(file)) PROVE FALSE
  BY DEF NoMoreAudio
<1>1. /\ next \in Nat /\ Len(file) \in Nat /\ DOMAIN file = 1 .. Len(file) /\ 0 < next
      /\ fill_count["audio"] \in Int
  BY PlaceIs, StreamNames DEF Eofs, Counted
<1>2. PICK a \in next .. Len(file) : "audio" \in file[a].to /\ NoAudioIn(next, a - 1)
  BY <1>1, NextAudio
<1>3. ~Full("video") /\ Cardinality(Vain(a)) <= FillLimit
  BY <1>2, VideoFits DEF Eofs
<1>4. ~TooMany
  BY <1>3, EmptyFits DEF TooMany
<1>5. a \in Nat /\ next <= a /\ a <= Len(file)
  BY <1>1
<1>6. ~AtEnd
  BY <1>1, <1>5 DEF AtEnd
<1>7. ~eof["audio"]
  BY DEF Eofs, AudioOver, NoMoreAudio
<1>8. fill_count["audio"] <= Cardinality(Vain(next))
  BY DEF Eofs, Waited
<1>9. Cardinality(Vain(next)) <= Cardinality(Vain(a))
  BY <1>1, <1>2, <1>5, VainGrows
<1>10. Cardinality(Vain(next)) \in Nat /\ Cardinality(Vain(a)) \in Nat
  BY <1>1, <1>5, BeforeFinite
<1>11. fill_count["audio"] <= FillLimit
  BY <1>1, <1>3, <1>8, <1>9, <1>10, Limits
<1> QED
  BY <1>1, <1>4, <1>6, <1>7, <1>11, Limits

LEMMA AudioAbsent == ASSUME IInv, Eofs, Interleaved, AudioAtEnd PROVE NoMoreAudio
<1>1. CASE eof["audio"]
  BY <1>1 DEF Eofs, AudioOver
<1>2. CASE ~Has("audio")
  <2>1. /\ DOMAIN file = 1 .. Len(file) /\ Len(file) \in Nat /\ next \in Nat /\ 0 < next /\ next <= Len(file) + 1
        /\ queue["audio"] \in Seq(Nat)
        /\ \A i \in Range(queue["audio"]) : i \in Nat /\ 0 < i /\ i < next
    BY PlaceIs, StreamNames
  <2>2. \A i \in 1 .. Len(file) : "audio" \notin file[i].to
    BY <1>2, <2>1 DEF Has
  <2>3. NoAudioIn(next, Len(file))
    BY <2>1, <2>2 DEF NoAudioIn
  <2>4. ASSUME NEW i \in Range(queue["audio"]) PROVE FALSE
    <3>1. "audio" \in file[i].to
      BY StreamNames DEF Eofs, Ours
    <3>2. i \in 1 .. Len(file)
      BY <2>1
    <3> QED
      BY <2>2, <3>1, <3>2
  <2>5. queue["audio"] = << >>
    <3> SUFFICES ASSUME queue["audio"] # << >> PROVE FALSE
      OBVIOUS
    <3>1. 1 \in DOMAIN queue["audio"]
      <4>1. Len(queue["audio"]) \in Nat \ {0} /\ DOMAIN queue["audio"] = 1 .. Len(queue["audio"])
        BY <2>1, EmptySeq, LenProperties
      <4> QED
        BY <4>1
    <3> QED
      BY <2>4, <3>1 DEF Range
  <2> QED
    BY <2>3, <2>5 DEF NoMoreAudio
<1> QED
  BY <1>1, <1>2 DEF AudioAtEnd

\* Video that is ready fails only at the end of the file.
LEMMA VideoEnds ==
  ASSUME Eofs, queue["video"] = << >>, queue["audio"] = << >>, Ready,
         fill_count["video"] > FillLimit \/ eof["video"] \/ TooMany \/ AtEnd
  PROVE  AtEnd
<1>1. ~TooMany
  BY EmptyFits DEF TooMany
<1>2. fill_count["video"] \in Int
  BY StreamNames DEF Eofs, Counted
<1> QED
  BY <1>1, <1>2, Limits DEF Ready

\* A step that leaves alone the place in the file, the queues and the eofs.
LEMMA EofsSame ==
  ASSUME Eofs, UNCHANGED <<file, next, queue, eof, fill_count>>,
         \A s \in Streams : eof[s] => buffer_pos'[s] = buffer_size'[s]
  PROVE  Eofs'
<1>1. Interleaved' = Interleaved /\ \A s : Has(s)' = Has(s)
  BY SameWindows
<1>2. Vain(next)' = Vain(next) /\ AtEnd' = AtEnd /\ NoMoreAudio' = NoMoreAudio
  BY DEF Vain, VideoBefore, AtEnd, NoMoreAudio, NoAudioIn
<1>3. AudioAtEnd' = AudioAtEnd /\ Ready' = Ready
  BY <1>1, <1>2 DEF AudioAtEnd, Ready
<1>4. Counted' /\ Ours' /\ Waited'
  BY <1>2 DEF Eofs, Counted, Ours, Waited
<1>5. Silence'
  BY DEF Silence
<1>6. AudioOver' /\ VideoWaits' /\ VideoLeft'
  BY <1>1, <1>2, <1>3 DEF Eofs, AudioOver, VideoWaits, VideoLeft
<1> QED
  BY <1>4, <1>5, <1>6 DEF Eofs

LEMMA CountsAre ==
  ASSUME FileTyped, NEW i \in Places
  PROVE  /\ Counts(file[i]) \in Int
         /\ "audio" \notin file[i].to =>
              Counts(file[i]) = IF "video" \in file[i].to /\ file[i].len > Small THEN 1 ELSE 0
<1>1. CASE "audio" \in file[i].to
  <2>1. CASE "video" \in file[i].to /\ file[i].len > Small
    BY <1>1, <2>1 DEF Counts
  <2>2. CASE ~("video" \in file[i].to /\ file[i].len > Small)
    BY <1>1, <2>2 DEF Counts
  <2> QED
    BY <2>1, <2>2
<1>2. CASE "audio" \notin file[i].to
  <2>1. CASE "video" \in file[i].to /\ file[i].len > Small
    BY <1>2, <2>1 DEF Counts
  <2>2. CASE ~("video" \in file[i].to /\ file[i].len > Small)
    BY <1>2, <2>2 DEF Counts
  <2> QED
    BY <2>1, <2>2
<1> QED
  BY <1>1, <1>2

LEMMA EofsDemuxed ==
  ASSUME IInv, Eofs, ~AtEnd, Demuxed, UNCHANGED <<file, buffer_pos, buffer_size, eof>>,
         NEW s \in Streams,
         fill_count' = fill_count
           \/ (queue[s] = << >> /\ fill_count' = [fill_count EXCEPT ![s] = @ + Counts(file[next])])
  PROVE  Eofs'
<1> DEFINE to == file[next].to
           n == Counts(file[next])
<1>1. /\ FileTyped /\ DOMAIN file = 1 .. Len(file) /\ Len(file) \in Nat
      /\ next \in Nat /\ next # 0 /\ 0 < next /\ next <= Len(file) /\ next \in Places /\ next \in Nat \ {0}
      /\ \A t \in Streams : queue[t] \in Seq(Nat) /\ Distinct(queue[t])
                            /\ \A i \in Range(queue[t]) : i \in Nat /\ 0 < i /\ i < next
  BY PlaceIs DEF AtEnd, Places
<1>2. /\ next' = next + 1 /\ n \in Int
      /\ queue' = [t \in Streams |-> IF t \in to THEN Append(queue[t], next) ELSE queue[t]]
      /\ "audio" \notin to => n = IF "video" \in to /\ file[next].len > Small THEN 1 ELSE 0
  BY <1>1, CountsAre DEF Demuxed
<1>3. fill_count \in [Streams -> Int] /\ eof \in [Streams -> BOOLEAN]
  BY DEF Eofs, Counted
<1>4. /\ fill_count' \in [Streams -> Int]
      /\ \A t \in Streams : fill_count'[t] = fill_count[t] \/ (t = s /\ fill_count'[t] = fill_count[t] + n)
  <2> HIDE DEF n
  <2>1. CASE fill_count' = fill_count
    BY <1>3, <2>1
  <2>2. CASE fill_count' = [fill_count EXCEPT ![s] = @ + n]
    <3>1. fill_count[s] + n \in Int
      BY <1>2, <1>3
    <3> QED
      BY <1>3, <2>2, <3>1
  <2> QED
    BY <2>1, <2>2 DEF n
<1> HIDE DEF n, to
<1>5. ASSUME NEW t \in Streams, queue'[t] = << >> PROVE t \notin to /\ queue[t] = << >>
  <2>1. queue'[t] = IF t \in to THEN Append(queue[t], next) ELSE queue[t]
    BY <1>2
  <2>2. queue[t] \in Seq(Nat) /\ next \in Nat
    BY <1>1
  <2>3. Append(queue[t], next) # << >>
    BY <2>2, AppendProperties
  <2> QED
    BY <1>5, <2>1, <2>3
<1>6. Interleaved' = Interleaved /\ (\A t : Has(t)' = Has(t)) /\ AudioAtEnd' = AudioAtEnd
  BY SameWindows DEF AudioAtEnd
<1>7. Ours'
  <2> SUFFICES ASSUME NEW t \in Streams, NEW i \in Range(queue'[t]) PROVE t \in file'[i].to
    BY DEF Ours
  <2>1. CASE t \in to
    <3>1. queue'[t] = Append(queue[t], next) /\ next \notin Range(queue[t])
      <4>1. queue'[t] = Append(queue[t], next)
        BY <1>2, <2>1
      <4>2. ~(next < next)
        BY <1>1
      <4> QED
        BY <1>1, <4>1, <4>2, Zenon
    <3>2. Range(Append(queue[t], next)) = Range(queue[t]) \cup {next}
      BY <1>1, <3>1, QueueAdded
    <3>3. i \in Range(queue[t]) \/ i = next
      BY <3>1, <3>2
    <3> QED
      BY <2>1, <3>3 DEF Eofs, Ours, to
  <2>2. CASE t \notin to
    BY <1>2, <2>2 DEF Eofs, Ours
  <2> QED
    BY <2>1, <2>2
<1>8. Waited'
  <2> SUFFICES ASSUME queue'["audio"] = << >> PROVE fill_count'["audio"] <= Cardinality(Vain(next))'
    BY DEF Waited
  <2>1. "audio" \notin to /\ queue["audio"] = << >>
    BY <1>5, StreamNames
  <2>2. Cardinality(Vain(next))' = Cardinality(Vain(next + 1))
    BY <1>2 DEF Vain, VideoBefore
  <2>3. fill_count["audio"] <= Cardinality(Vain(next))
    BY <2>1 DEF Eofs, Waited
  <2>4. fill_count["audio"] \in Int /\ fill_count'["audio"] \in Int
    BY <1>3, <1>4, StreamNames
  <2>5. Cardinality(Vain(next)) \in Nat /\ Cardinality(Vain(next + 1)) \in Nat
    <3>1. next \in Nat /\ next + 1 \in Nat
      BY <1>1
    <3> QED
      BY <3>1, BeforeFinite, Zenon
  <2>6. Cardinality(Vain(next)) <= Cardinality(Vain(next + 1))
    <3>1. NoAudioIn(next, (next + 1) - 1)
      <4>1. \A a \in next .. (next + 1) - 1 : a = next
        BY <1>1
      <4> QED
        BY <2>1, <4>1 DEF NoAudioIn, to
    <3>2. next + 1 \in Nat /\ next <= next + 1
      BY <1>1
    <3> QED
      BY <1>1, <3>1, <3>2, VainGrows
  <2>7. CASE "video" \in to /\ file[next].len > Small
    <3>1. Cardinality(Vain(next)) + 1 <= Cardinality(Vain(next + 1))
      BY <1>1, <2>1, <2>7, VainCounts DEF to
    <3>2. n = 1
      BY <1>2, <2>1, <2>7
    <3>3. fill_count'["audio"] = fill_count["audio"] \/ fill_count'["audio"] = fill_count["audio"] + 1
      BY <1>4, <3>2, StreamNames
    <3> QED
      BY <2>2, <2>3, <2>4, <2>5, <2>6, <3>1, <3>3
  <2>8. CASE ~("video" \in to /\ file[next].len > Small)
    <3>1. n = 0
      BY <1>2, <2>1, <2>8
    <3>2. fill_count'["audio"] = fill_count["audio"]
      BY <1>3, <1>4, <3>1, StreamNames
    <3> QED
      BY <2>2, <2>3, <2>4, <2>5, <2>6, <3>2
  <2> QED
    BY <2>7, <2>8
<1>9. ASSUME NoMoreAudio PROVE NoMoreAudio' /\ "audio" \notin to
  <2>1. "audio" \notin to
    <3>1. next \in next .. Len(file)
      BY <1>1
    <3> QED
      BY <1>9, <3>1 DEF NoMoreAudio, NoAudioIn, to
  <2>2. queue'["audio"] = << >>
    BY <1>2, <1>9, <2>1, StreamNames DEF NoMoreAudio
  <2>3. NoAudioIn(next, Len(file))'
    <3>1. \A a \in next + 1 .. Len(file) : a \in next .. Len(file)
      BY <1>1
    <3> QED
      BY <1>2, <1>9, <3>1 DEF NoMoreAudio, NoAudioIn
  <2> QED
    BY <2>1, <2>2, <2>3 DEF NoMoreAudio
<1>10. AudioOver'
  BY <1>6, <1>9 DEF Eofs, AudioOver
\* A packet for neither changes nothing for video.
<1>11. ASSUME "audio" \notin to, queue'["video"] = << >>, Ready PROVE Ready'
  <2>1. "video" \notin to
    BY <1>5, <1>11, StreamNames
  <2>2. n = 0
    BY <1>2, <1>11, <2>1
  <2>3. fill_count'["video"] = fill_count["video"]
    BY <1>3, <1>4, <2>2, StreamNames
  <2> QED
    BY <1>11, <2>3 DEF Ready
<1>12. VideoWaits'
  <2> SUFFICES ASSUME fill_count'["audio"] > 0, queue'["audio"] = << >>, queue'["video"] = << >> PROVE Ready'
    BY DEF VideoWaits
  <2>1. "audio" \notin to /\ queue["audio"] = << >> /\ "video" \notin to /\ queue["video"] = << >>
    BY <1>5, StreamNames
  <2>2. n = 0
    BY <1>2, <2>1
  <2>3. fill_count'["audio"] = fill_count["audio"]
    BY <1>3, <1>4, <2>2, StreamNames
  <2>4. Ready
    BY <2>1, <2>3 DEF Eofs, VideoWaits
  <2> QED
    BY <1>11, <2>1, <2>4
<1>13. VideoLeft'
  <2> SUFFICES ASSUME Interleaved, AudioAtEnd, queue'["video"] = << >> PROVE Ready'
    BY <1>6 DEF VideoLeft
  <2>1. NoMoreAudio
    BY AudioAbsent
  <2>2. queue["video"] = << >>
    BY <1>5, StreamNames
  <2>3. Ready
    BY <2>2 DEF Eofs, VideoLeft
  <2> QED
    BY <1>9, <1>11, <2>1, <2>3
<1>14. Counted' /\ Silence'
  BY <1>3, <1>4 DEF Eofs, Counted, Silence
<1> QED
  BY <1>7, <1>8, <1>10, <1>12, <1>13, <1>14 DEF Eofs

LEMMA EofsTakes == ASSUME IInv, Eofs, TakePacket PROVE Eofs'
<1> DEFINE s == call.ds
           i == Head(queue[s])
<1>1. /\ s \in Streams /\ queue[s] # << >>
      /\ queue' = [queue EXCEPT ![s] = Tail(@)]
      /\ eof' = [eof EXCEPT ![s] = FALSE] /\ fill_count' = [fill_count EXCEPT ![s] = 0]
      /\ buffer_pos' = [buffer_pos EXCEPT ![s] = 0] /\ buffer_size' = [buffer_size EXCEPT ![s] = file[i].len]
      /\ UNCHANGED <<file, next>>
  BY DEF TakePacket, Filling, Length, NewPosition, history, main, IInv, Typed, Calls
<1> HIDE DEF s, i
<1>2. /\ queue \in [Streams -> Seq(Nat)] /\ eof \in [Streams -> BOOLEAN] /\ fill_count \in [Streams -> Int]
      /\ buffer_pos \in [Streams -> Nat] /\ buffer_size \in [Streams -> Nat] /\ queue[s] \in Seq(Nat)
  BY <1>1 DEF IInv, Typed, Eofs, Counted
<1>3. /\ queue'[s] = Tail(queue[s]) /\ eof'[s] = FALSE /\ fill_count'[s] = 0
      /\ \A t \in Streams : t # s => /\ queue'[t] = queue[t] /\ eof'[t] = eof[t] /\ fill_count'[t] = fill_count[t]
                                     /\ buffer_pos'[t] = buffer_pos[t] /\ buffer_size'[t] = buffer_size[t]
      /\ eof' \in [Streams -> BOOLEAN] /\ fill_count' \in [Streams -> Int]
  BY <1>1, <1>2
<1>4. Range(Tail(queue[s])) \subseteq Range(queue[s])
  <2>1. Distinct(queue[s])
    BY <1>1 DEF IInv, Apart
  <2> QED
    BY <1>1, <1>2, <2>1, QueueTaken
<1>5. Interleaved' = Interleaved /\ (\A t : Has(t)' = Has(t))
  BY <1>1, SameWindows
<1>6. Vain(next)' = Vain(next) /\ (AtEnd' <=> AtEnd) /\ (NoAudioIn(next, Len(file))' <=> NoAudioIn(next, Len(file)))
  BY <1>1 DEF Vain, VideoBefore, AtEnd, NoAudioIn
<1>7. Ours'
  <2> SUFFICES ASSUME NEW t \in Streams, NEW k \in Range(queue'[t]) PROVE t \in file[k].to
    BY <1>1 DEF Ours
  <2>1. k \in Range(queue[t])
    BY <1>3, <1>4
  <2> QED
    BY <2>1 DEF Eofs, Ours
<1>8. Waited'
  <2>1. CASE s = "audio"
    <3>1. Cardinality(Vain(next)) \in Nat
      BY PlaceIs, BeforeFinite
    <3> QED
      BY <1>3, <1>6, <2>1, <3>1 DEF Waited
  <2>2. CASE s # "audio"
    BY <1>3, <1>6, <2>2, StreamNames DEF Eofs, Waited
  <2> QED
    BY <2>1, <2>2
<1>9. AudioOver'
  <2> SUFFICES ASSUME Interleaved, eof'["audio"] PROVE NoMoreAudio'
    BY <1>5 DEF AudioOver
  <2>1. s # "audio"
    BY <1>3
  <2>2. NoMoreAudio
    BY <1>3, <2>1, StreamNames DEF Eofs, AudioOver
  <2> QED
    BY <1>3, <1>6, <2>1, <2>2, StreamNames DEF NoMoreAudio
<1>10. CASE s = "video"
  <2>1. Ready'
    BY <1>3, <1>10 DEF Ready
  <2> QED
    BY <1>3, <1>7, <1>8, <1>9, <2>1 DEF Eofs, Counted, VideoWaits, VideoLeft, Silence
<1>11. CASE s # "video"
  <2>1. queue'["video"] = queue["video"] /\ (Ready' <=> Ready)
    BY <1>3, <1>6, <1>11, StreamNames DEF Ready
  <2>2. VideoWaits'
    <3>1. CASE s = "audio"
      BY <1>3, <3>1 DEF VideoWaits
    <3>2. CASE s # "audio"
      BY <1>3, <2>1, <3>2, StreamNames DEF Eofs, VideoWaits
    <3> QED
      BY <3>1, <3>2
  <2>3. VideoLeft'
    <3> SUFFICES ASSUME Interleaved, AudioAtEnd' PROVE queue["video"] # << >> \/ Ready
      BY <1>5, <2>1 DEF VideoLeft
    <3>1. CASE s # "audio"
      <4>1. AudioAtEnd
        BY <1>3, <1>5, <3>1, StreamNames DEF AudioAtEnd
      <4> QED
        BY <4>1 DEF Eofs, VideoLeft
    <3>2. CASE s = "audio"
      <4>1. AudioAtEnd
        BY <1>3, <1>5, <3>2 DEF AudioAtEnd
      <4>2. queue["audio"] = << >>
        BY <4>1, AudioAbsent DEF NoMoreAudio
      <4> QED
        BY <1>1, <3>2, <4>2
    <3> QED
      BY <3>1, <3>2
  <2> QED
    BY <1>3, <1>7, <1>8, <1>9, <2>2, <2>3 DEF Eofs, Counted, Silence
<1> QED
  BY <1>10, <1>11

LEMMA EofsFails == ASSUME IInv, Flow, Eofs, FillFails PROVE Eofs'
<1> DEFINE s == call.ds
<1>1. /\ s \in Streams /\ queue[s] = << >>
      /\ fill_count[s] > FillLimit \/ eof[s] \/ TooMany \/ AtEnd
      /\ eof' = [eof EXCEPT ![s] = TRUE]
      /\ buffer_pos' = [buffer_pos EXCEPT ![s] = 0] /\ buffer_size' = [buffer_size EXCEPT ![s] = 0]
      /\ UNCHANGED <<file, next, queue, fill_count>>
  <2>1. s \in Streams /\ queue[s] \in Seq(Nat)
    BY DEF IInv, Typed, Calls
  <2>2. Len(queue[s]) = 0 => queue[s] = << >>
    BY <2>1
  <2> QED
    BY <2>1, <2>2 DEF FillFails, Hopeless, Ended, Length, main, history
<1> HIDE DEF s
<1>2. /\ eof \in [Streams -> BOOLEAN] /\ fill_count \in [Streams -> Int]
      /\ buffer_pos \in [Streams -> Nat] /\ buffer_size \in [Streams -> Nat]
  BY DEF IInv, Typed, Eofs, Counted
<1>3. /\ eof'[s] = TRUE /\ eof' \in [Streams -> BOOLEAN] /\ buffer_pos'[s] = 0 /\ buffer_size'[s] = 0
      /\ \A t \in Streams : t # s => /\ eof'[t] = eof[t]
                                     /\ buffer_pos'[t] = buffer_pos[t] /\ buffer_size'[t] = buffer_size[t]
  BY <1>1, <1>2
<1>4. Interleaved' = Interleaved /\ (\A t : Has(t)' = Has(t))
  BY <1>1, SameWindows
<1>5. Vain(next)' = Vain(next) /\ (AtEnd' <=> AtEnd) /\ (NoMoreAudio' <=> NoMoreAudio)
  BY <1>1 DEF Vain, VideoBefore, AtEnd, NoAudioIn, NoMoreAudio
<1>6. Counted' /\ Ours' /\ Waited'
  BY <1>1, <1>2, <1>3, <1>5 DEF Eofs, Counted, Ours, Waited
<1>7. Silence'
  BY <1>3 DEF Eofs, Silence
<1>8. AudioOver'
  <2> SUFFICES ASSUME Interleaved, eof'["audio"] PROVE NoMoreAudio
    BY <1>4, <1>5 DEF AudioOver
  <2>1. CASE s = "audio"
    BY <1>1, <2>1, AudioEnds
  <2>2. CASE s # "audio"
    BY <1>3, <2>2, StreamNames DEF Eofs, AudioOver
  <2> QED
    BY <2>1, <2>2
<1>9. ASSUME Ready, queue["audio"] = << >>, queue["video"] = << >> PROVE Ready'
  <2>1. CASE s = "video"
    <3>1. AtEnd
      BY <1>1, <1>9, <2>1, VideoEnds
    <3> QED
      BY <1>5, <3>1 DEF Ready
  <2>2. CASE s # "video"
    BY <1>1, <1>3, <1>5, <1>9, <2>2, StreamNames DEF Ready
  <2> QED
    BY <2>1, <2>2
<1>10. VideoWaits'
  BY <1>1, <1>9 DEF Eofs, VideoWaits
<1>11. VideoLeft'
  <2> SUFFICES ASSUME Interleaved, AudioAtEnd', queue["video"] = << >> PROVE Ready'
    BY <1>1, <1>4 DEF VideoLeft
  <2>1. NoMoreAudio
    <3>1. CASE AudioAtEnd
      BY <3>1, AudioAbsent
    <3>2. CASE ~AudioAtEnd
      BY <1>4, <1>5, <1>8, <3>2 DEF AudioAtEnd, AudioOver
    <3> QED
      BY <3>1, <3>2
  <2>2. queue["audio"] = << >>
    BY <2>1 DEF NoMoreAudio
  <2>3. Ready
    <3>1. CASE AudioAtEnd
      BY <3>1 DEF Eofs, VideoLeft
    <3>2. CASE ~AudioAtEnd
      <4>1. s = "audio" /\ ~eof["audio"]
        BY <1>3, <1>4, <3>2, StreamNames DEF AudioAtEnd
      <4>2. CASE AtEnd
        BY <4>2 DEF Ready
      <4>3. CASE TooMany
        BY <2>2, <4>3, EmptyFits DEF TooMany
      <4>4. CASE fill_count["audio"] > FillLimit
        <5>1. fill_count["audio"] > 0
          BY <1>2, <4>4, Limits, StreamNames
        <5> QED
          BY <2>2, <5>1 DEF Eofs, VideoWaits
      <4> QED
        BY <1>1, <4>1, <4>2, <4>3, <4>4
    <3> QED
      BY <3>1, <3>2
  <2> QED
    BY <1>9, <2>2, <2>3
<1> QED
  BY <1>6, <1>7, <1>8, <1>10, <1>11 DEF Eofs

LEMMA EofsSeeks == ASSUME IInv, Eofs, Seek PROVE Eofs'
<1>1. PICK i \in 1 .. Len(file) + 1 : next' = i /\ Flush(Streams, i)
  BY DEF Seek
<1>2. /\ eof' = [s \in Streams |-> FALSE]
      /\ fill_count' = [s \in Streams |-> IF s = "sub" THEN fill_count[s] ELSE -FillLimit]
      /\ file' = file /\ queue' = [s \in Streams |-> << >>]
  BY <1>1 DEF Seek, Flush
<1>3. /\ fill_count \in [Streams -> Int] /\ FillLimit \in Nat /\ -FillLimit \in Int /\ -FillLimit <= 0
      /\ "audio" \in Streams /\ "video" \in Streams /\ "audio" # "sub" /\ "video" # "sub"
  BY Limits DEF Eofs, Counted, Streams
<1>4. /\ fill_count'["audio"] = -FillLimit /\ fill_count'["video"] = -FillLimit
      /\ ~eof'["audio"] /\ ~eof'["video"] /\ Counted'
  BY <1>2, <1>3 DEF Counted
<1>5. Ours' /\ Silence'
  BY <1>2, QueueEmpty DEF Ours, Silence
<1>6. Waited'
  <2>1. Cardinality(Vain(i)) \in Nat
    BY <1>1, BeforeFinite
  <2>2. Vain(next)' = Vain(i)
    BY <1>1, <1>2 DEF Vain, VideoBefore
  <2> QED
    BY <1>3, <1>4, <2>1, <2>2 DEF Waited
<1>7. Ready'
  BY <1>3, <1>4 DEF Ready
<1> QED
  BY <1>4, <1>5, <1>6, <1>7 DEF Eofs, AudioOver, VideoWaits, VideoLeft

LEMMA EofsSwitches == ASSUME IInv, Eofs, SwitchSubtitles PROVE Eofs'
<1>1. /\ queue' = [s \in Streams |-> IF s \in {"sub"} THEN << >> ELSE queue[s]]
      /\ buffer_pos' = [s \in Streams |-> IF s \in {"sub"} THEN buffer_size[s] ELSE buffer_pos[s]]
      /\ UNCHANGED <<file, next, buffer_size, eof, fill_count>>
  BY DEF SwitchSubtitles, Flush
<1>2. "audio" \in Streams /\ "video" \in Streams /\ "audio" \notin {"sub"} /\ "video" \notin {"sub"}
  BY DEF Streams
<1>3. queue'["audio"] = queue["audio"] /\ queue'["video"] = queue["video"]
  BY <1>1, <1>2
<1>4. Interleaved' = Interleaved /\ \A s : Has(s)' = Has(s)
  BY <1>1, SameWindows
<1>5. Vain(next)' = Vain(next) /\ (AtEnd' <=> AtEnd) /\ (NoMoreAudio' <=> NoMoreAudio)
  BY <1>1, <1>3 DEF Vain, VideoBefore, AtEnd, NoMoreAudio, NoAudioIn
<1>6. (AudioAtEnd' <=> AudioAtEnd) /\ (Ready' <=> Ready)
  BY <1>1, <1>4, <1>5 DEF AudioAtEnd, Ready
<1>7. Counted' /\ Waited'
  BY <1>1, <1>3, <1>5 DEF Eofs, Counted, Waited
<1>8. Ours'
  <2> SUFFICES ASSUME NEW s \in Streams, NEW i \in Range(queue'[s]) PROVE s \in file[i].to
    BY <1>1 DEF Ours
  <2>1. CASE s \in {"sub"}
    BY <1>1, <2>1, QueueEmpty
  <2>2. CASE s \notin {"sub"}
    BY <1>1, <2>2 DEF Eofs, Ours
  <2> QED
    BY <2>1, <2>2
<1>9. Silence'
  BY <1>1 DEF Eofs, Silence
<1>10. AudioOver' /\ VideoWaits' /\ VideoLeft'
  BY <1>1, <1>3, <1>4, <1>5, <1>6 DEF Eofs, AudioOver, VideoWaits, VideoLeft
<1> QED
  BY <1>7, <1>8, <1>9, <1>10 DEF Eofs

LEMMA EofsGoesOn ==
  ASSUME IInv, Eofs, NEW n \in Nat, n <= Unread(call.ds),
         UNCHANGED <<file, next, queue, buffer_size, eof, fill_count>>,
         buffer_pos' = [buffer_pos EXCEPT ![call.ds] = @ + n]
  PROVE  Eofs'
<1>1. /\ call.ds \in Streams /\ buffer_pos \in [Streams -> Nat] /\ buffer_size \in [Streams -> Nat]
  BY DEF IInv, Typed, Calls
<1>2. ASSUME NEW s \in Streams, eof[s] PROVE buffer_pos'[s] = buffer_size'[s]
  <2>1. buffer_pos[s] = buffer_size[s] /\ buffer_pos[s] \in Nat
    BY <1>1, <1>2 DEF Eofs, Silence
  <2>2. CASE s = call.ds
    <3>1. n = 0
      BY <2>1, <2>2 DEF Unread
    <3>2. buffer_pos'[s] = buffer_pos[s] + n
      BY <1>1, <2>2
    <3> QED
      BY <2>1, <3>1, <3>2
  <2>3. CASE s # call.ds
    BY <1>1, <2>1, <2>3
  <2> QED
    BY <2>2, <2>3
<1> QED
  BY <1>2, EofsSame

LEMMA EofsInit == ASSUME Init PROVE Eofs
<1>1. /\ next = 1 /\ queue = [s \in Streams |-> << >>] /\ buffer_pos = [s \in Streams |-> 0]
      /\ buffer_size = [s \in Streams |-> 0] /\ eof = [s \in Streams |-> FALSE]
      /\ fill_count = [s \in Streams |-> 0]
  BY DEF Init
<1>2. /\ fill_count["audio"] = 0 /\ fill_count["video"] = 0 /\ ~eof["audio"] /\ ~eof["video"]
      /\ Counted /\ Silence
  BY <1>1, StreamNames DEF Counted, Silence
<1>3. Ours
  BY <1>1, QueueEmpty DEF Ours
<1>4. Waited
  <2>1. Cardinality(Vain(next)) \in Nat
    BY <1>1, BeforeFinite
  <2> QED
    BY <1>2, <2>1 DEF Waited
<1>5. Ready
  BY <1>2 DEF Ready
<1> QED
  BY <1>2, <1>3, <1>4, <1>5 DEF Eofs, AudioOver, VideoWaits, VideoLeft

LEMMA EofsStep == ASSUME IInv, Flow, Eofs, [Next]_vars PROVE Eofs'
<1> DEFINE s == call.ds
<1>1. s \in Streams /\ \A t \in Streams : eof[t] => buffer_pos[t] = buffer_size[t]
  BY DEF IInv, Typed, Calls, Eofs, Silence
<1>2. CASE UNCHANGED vars
  BY <1>1, <1>2, EofsSame DEF vars
<1>3. CASE CallStep
  <2>1. CASE ReadData
    <3> DEFINE n == Min({Unread(s), call.left})
    <3>1. /\ buffer_pos' = [buffer_pos EXCEPT ![s] = @ + n]
          /\ UNCHANGED <<file, next, queue, buffer_size, eof, fill_count>>
      BY <2>1 DEF ReadData, Deliver, main
    <3>2. Unread(s) \in Nat /\ call.left \in Nat
      <4>1. /\ buffer_pos[s] \in Nat /\ buffer_size[s] \in Nat /\ buffer_pos[s] <= buffer_size[s]
            /\ call.left \in Nat
        BY <1>1 DEF IInv, Typed, BuffersValid, Calls
      <4> QED
        BY <4>1 DEF Unread
    <3>3. n \in {Unread(s), call.left} /\ n <= Unread(s)
      <4>1. Unread(s) \in Int /\ call.left \in Int
        BY <3>2
      <4> QED
        BY <4>1, MinPair, Zenon
    <3> HIDE DEF n
    <3>4. n \in Nat
      BY <3>2, <3>3
    <3> QED
      BY <3>1, <3>3, <3>4, EofsGoesOn
  <2>2. CASE GivePacket
    <3> DEFINE n == Unread(s)
    <3>1. /\ buffer_pos' = [buffer_pos EXCEPT ![s] = @ + n]
          /\ UNCHANGED <<file, next, queue, buffer_size, eof, fill_count>>
      BY <2>2 DEF GivePacket, Deliver, main
    <3>2. n \in Nat /\ n <= n
      <4>1. buffer_pos[s] \in Nat /\ buffer_size[s] \in Nat /\ buffer_pos[s] <= buffer_size[s]
        BY <1>1 DEF IInv, Typed, BuffersValid
      <4> QED
        BY <4>1 DEF Unread
    <3>3. n <= Unread(call.ds)
      BY <3>2
    <3> HIDE DEF n
    <3> QED
      BY <3>1, <3>2, <3>3, EofsGoesOn
  <2>3. CASE KeepPacket \/ NoSubtitle \/ TooEarly \/ PtsReturns \/ FillBegins
    <3>1. UNCHANGED <<file, next, queue, buffer_pos, buffer_size, eof, fill_count>>
      BY <2>3 DEF KeepPacket, NoSubtitle, TooEarly, PtsReturns, FillBegins, ds, main
    <3> QED
      BY <1>1, <3>1, EofsSame
  <2>4. CASE FillReads
    <3>1. /\ ~AtEnd /\ Demuxed /\ UNCHANGED <<file, buffer_pos, buffer_size, eof>> /\ Length(s) = 0
          /\ fill_count' = [fill_count EXCEPT ![s] = @ + Counts(file[next])]
      BY <2>4 DEF FillReads, main
    <3>2. queue[s] = << >>
      <4>1. queue[s] \in Seq(Nat)
        BY <1>1 DEF IInv, Typed
      <4> QED
        BY <3>1, <4>1 DEF Length
    <3> HIDE DEF s
    <3> QED
      BY <1>1, <3>1, <3>2, EofsDemuxed
  <2>5. CASE PtsReads
    <3>1. ~AtEnd /\ Demuxed /\ UNCHANGED <<file, buffer_pos, buffer_size, eof, fill_count>>
      BY <2>5 DEF PtsReads, main
    <3> HIDE DEF s
    <3> QED
      BY <1>1, <3>1, EofsDemuxed
  <2> QED
    BY <1>3, <2>1, <2>2, <2>3, <2>4, <2>5, EofsTakes, EofsFails DEF CallStep
<1>4. CASE Player \/ ReadAudio \/ AudioDone \/ ReadVideo \/ FrameWaits
  <2>1. Reads /\ UNCHANGED file
    <3> USE DEF Goes
    <3>1. CASE Open \/ Opened \/ AudioRead \/ VideoRead \/ SubtitleRead
      BY <3>1 DEF Open, Opened, AudioRead, VideoRead, SubtitleRead
    <3>2. CASE AudioDone \/ FrameWaits \/ ReadAudio \/ ReadVideo \/ Subtitles \/ ReadSubtitle
      BY <3>2 DEF AudioDone, FrameWaits, ReadAudio, ReadVideo, Subtitles, ReadSubtitle
    <3> QED
      BY <1>4, <3>1, <3>2 DEF Player
  <2>2. UNCHANGED <<file, next, queue, buffer_pos, buffer_size, eof, fill_count>>
    BY <2>1 DEF Reads, ds
  <2> QED
    BY <1>1, <2>2, EofsSame
<1> QED
  BY <1>2, <1>3, <1>4, EofsSeeks, EofsSwitches DEF Next

-----------------------------------------------------------------------------
(* When main stops. *)

LEMMA CallRuns == ASSUME IInv, CallStep PROVE call.op # "none" /\ UNCHANGED <<file, pc>>
<1>1. call.at = "fill" => call.op # "none"
  BY DEF IInv, CallInv
<1>2. UNCHANGED <<file, pc>>
  BY DEF CallStep, ReadData, KeepPacket, NoSubtitle, FillBegins, TakePacket, FillReads, FillFails,
     GivePacket, TooEarly, PtsReads, PtsReturns, main
<1>3. call.op # "none"
  BY <1>1 DEF CallStep, ReadData, KeepPacket, NoSubtitle, FillBegins, TakePacket, FillReads, FillFails,
     GivePacket, TooEarly, PtsReads, PtsReturns, In, Filling
<1> QED
  BY <1>2, <1>3

\* The call for video fails only with an empty queue, and then says eof.
LEMMA CallComesTo ==
  ASSUME IInv, Eofs, CallStep, call.op = "packet", call.ds = "video"
  PROVE  \/ call'.op = "packet" /\ call'.ds = "video"
         \/ /\ call'.op = "none"
            /\ answer' = "failed" => queue'["video"] = << >> /\ eof'["video"]
<1> USE DEF Return, NoCall
<1>0. call \in Calls /\ "video" \in Streams /\ eof \in [Streams -> BOOLEAN] /\ queue["video"] \in Seq(Nat)
  BY StreamNames DEF IInv, Typed, Eofs, Counted
<1>1. CASE ReadData \/ NoSubtitle \/ TooEarly \/ PtsReads \/ PtsReturns
  BY <1>1 DEF ReadData, NoSubtitle, TooEarly, PtsReads, PtsReturns, In
<1>2. CASE KeepPacket \/ FillBegins \/ TakePacket
  BY <1>0, <1>2 DEF KeepPacket, FillBegins, TakePacket, At, Calls
<1>3. CASE FillReads
  BY <1>3 DEF FillReads
<1>4. CASE GivePacket
  BY <1>4 DEF GivePacket
<1>5. CASE FillFails
  BY <1>0, <1>5 DEF FillFails, Length, Ended
<1> QED
  BY <1>1, <1>2, <1>3, <1>4, <1>5 DEF CallStep

LEMMA ShownStep == ASSUME IInv, Eofs, Shown, Stopped, [Next]_vars PROVE Shown' /\ Stopped'
<1>1. CASE UNCHANGED vars
  BY <1>1 DEF vars, Shown, Stopped
<1>2. CASE CallStep
  <2>1. call.op # "none" /\ pc' = pc
    BY <1>2, CallRuns
  <2>2. Stopped'
    BY <2>1 DEF Stopped
  <2>3. ASSUME pc = "shown" PROVE Shown'
    <3>1. call.op = "packet" /\ call.ds = "video"
      BY <2>1, <2>3 DEF Shown
    <3> QED
      BY <1>2, <3>1, CallComesTo DEF Shown
  <2> QED
    BY <2>1, <2>2, <2>3 DEF Shown
<1>3. CASE ReadVideo
  BY <1>3 DEF ReadVideo, Begin, Goes, Shown, Stopped
<1>4. CASE Open \/ Opened \/ Subtitles \/ ReadSubtitle \/ SubtitleRead \/ ReadAudio \/ AudioDone \/ FrameWaits
  <2>1. pc' # "shown" /\ pc' # "over"
    BY <1>4 DEF Open, Opened, Subtitles, ReadSubtitle, SubtitleRead, ReadAudio, AudioDone, FrameWaits, Goes
  <2> QED
    BY <2>1 DEF Shown, Stopped
<1>5. CASE AudioRead \/ VideoRead
  BY <1>5 DEF AudioRead, VideoRead, Goes, Main, Shown, Stopped
<1>6. CASE Seek \/ SwitchSubtitles
  BY <1>6 DEF Seek, SwitchSubtitles, Jump, Main, Shown, Stopped
<1> QED
  BY <1>1, <1>2, <1>3, <1>4, <1>5, <1>6 DEF Next, Player

\* A stream of which nothing is left has been read whole.
LEMMA ReadOut ==
  ASSUME IInv, Flow, NEW s \in Streams, queue[s] = << >>, buffer_pos[s] = buffer_size[s],
         \A i \in next .. Len(file) : s \notin file[i].to
  PROVE  taken[s] = Len(InFile(s, from[s], Len(file) + 1))
<1>1. /\ FileTyped /\ Len(file) \in Nat /\ next \in Nat /\ 0 < next /\ next <= Len(file) + 1
      /\ StreamTyped(s) /\ Whole(s)
  BY PlaceIs, StreamIs DEF Flow
<1>2. from[s] \in Nat /\ 0 < from[s] /\ from[s] <= next
  BY <1>1 DEF Whole
<1>3. PICK had : Had(s, had)
  BY <1>1 DEF Whole
<1>4. Buffered(s) = << >> /\ Concat(queue[s]) = << >>
  <2>1. ~(Unread(s) > 0)
    BY <1>1 DEF StreamTyped, Unread
  <2> QED
    BY <2>1, ConcatEmpty DEF Buffered
<1>5. had \in Seq(AllBytes) /\ Len(had) = taken[s] /\ InFile(s, from[s], next) = had
  <2>1. << >> \o << >> = << >>
    OBVIOUS
  <2>2. had \in Seq(AllBytes) /\ Len(had) = taken[s] /\ InFile(s, from[s], next) = had \o << >>
    BY <1>3, <1>4, <2>1 DEF Had
  <2> QED
    BY <2>2, ConcatEmptySeq
<1>6. InFile(s, next, Len(file) + 1) = << >>
  BY <1>1, InFileNone
<1>7. InFile(s, from[s], Len(file) + 1) = InFile(s, from[s], next) \o InFile(s, next, Len(file) + 1)
  <2> DEFINE f == from[s]
             l == Len(file) + 1
  <2>1. f \in Nat /\ 0 < f /\ f <= next /\ next \in Nat /\ next <= l /\ l \in Nat /\ l <= Len(file) + 1
    BY <1>1, <1>2
  <2> HIDE DEF f, l
  <2>2. InFile(s, f, l) = InFile(s, f, next) \o InFile(s, next, l)
    BY <1>1, <2>1, InFileSplit
  <2> QED
    BY <2>2 DEF f, l
<1>8. had \o << >> = had
  BY <1>5, ConcatEmptySeq
<1> QED
  BY <1>5, <1>6, <1>7, <1>8

LEMMA OverStep ==
  ASSUME IInv, Flow, Eofs, Shown, Stopped, PlaysToTheEnd, [Next]_vars
  PROVE  PlaysToTheEnd'
<1>0. ASSUME UNCHANGED <<file, taken, from>>
      PROVE  /\ Interleaved' = Interleaved /\ (\A s : Has(s)' = Has(s))
             /\ \A s : Len(InFile(s, from[s], Len(file) + 1))' = Len(InFile(s, from[s], Len(file) + 1))
  <2>1. \A s : InFile(s, from[s], Len(file) + 1)' = InFile(s, from[s], Len(file) + 1)
    BY <1>0 DEF InFile, BytesOf
  <2> QED
    BY <1>0, <2>1, SameWindows
<1>1. CASE pc = "over"
  <2>1. UNCHANGED <<file, taken, from>>
    <3>1. call.op = "none"
      BY <1>1 DEF Stopped
    <3>2. ~CallStep
      BY <3>1, CallRuns
    <3>3. UNCHANGED vars
      BY <1>1, <3>2 DEF Next, Player, Open, Opened, Subtitles, ReadSubtitle, SubtitleRead, ReadAudio,
         AudioDone, FrameWaits, ReadVideo, AudioRead, VideoRead, Seek, SwitchSubtitles, Jump, Main
    <3> QED
      BY <3>3 DEF vars
  <2> QED
    BY <1>0, <1>1, <2>1 DEF PlaysToTheEnd
<1>2. CASE pc # "over" /\ pc' = "over"
  <2> SUFFICES ASSUME Interleaved', NEW s \in {"audio", "video"}, Has(s)'
               PROVE  taken'[s] = Len(InFile(s, from[s], Len(file) + 1))'
    BY DEF PlaysToTheEnd
  <2>1. AudioRead \/ VideoRead
    <3>1. ~CallStep
      BY <1>2, CallRuns
    <3>2. ~(UNCHANGED vars)
      BY <1>2 DEF vars
    <3>3. ~(Seek \/ SwitchSubtitles)
      BY <1>2 DEF Seek, SwitchSubtitles
    <3>4. ~(Open \/ Opened \/ Subtitles \/ ReadSubtitle \/ SubtitleRead \/ ReadAudio \/ AudioDone \/ FrameWaits \/ ReadVideo)
      BY <1>2 DEF Open, Opened, Subtitles, ReadSubtitle, SubtitleRead, ReadAudio, AudioDone, FrameWaits,
         ReadVideo, Goes
    <3> QED
      BY <3>1, <3>2, <3>3, <3>4 DEF Next, Player
  <2>2. UNCHANGED <<file, taken, from>> /\ call.op = "none"
    BY <2>1 DEF AudioRead, VideoRead, Reads, history, Goes, Main
  <2>3. Interleaved /\ Has(s) /\ Len(InFile(s, from[s], Len(file) + 1))' = Len(InFile(s, from[s], Len(file) + 1))
    BY <1>0, <2>2
  <2>4. AudioAtEnd
    BY <1>2, <2>1 DEF AudioRead, VideoRead, Goes, Silent, AudioAtEnd
  <2>5. NoMoreAudio
    BY <2>3, <2>4, AudioAbsent
  <2>6. CASE s = "audio"
    <3>1. eof["audio"]
      BY <2>3, <2>4, <2>6 DEF AudioAtEnd
    <3>2. buffer_pos["audio"] = buffer_size["audio"]
      BY <3>1, StreamNames DEF Eofs, Silence
    <3>3. taken["audio"] = Len(InFile("audio", from["audio"], Len(file) + 1))
      BY <2>5, <3>2, StreamNames, ReadOut DEF NoMoreAudio, NoAudioIn
    <3> QED
      BY <2>2, <2>3, <2>6, <3>3
  <2>7. CASE s = "video"
    <3>1. VideoRead /\ answer = "failed" /\ pc = "shown"
      BY <1>2, <2>1, <2>3, <2>7 DEF AudioRead, VideoRead, Goes, Main
    <3>2. queue["video"] = << >> /\ eof["video"]
      BY <2>2, <3>1 DEF Shown
    <3>3. AtEnd
      BY <2>3, <2>4, <3>2 DEF Eofs, VideoLeft, Ready
    <3>4. buffer_pos["video"] = buffer_size["video"]
      BY <3>2, StreamNames DEF Eofs, Silence
    <3>5. \A i \in next .. Len(file) : FALSE
      BY <3>3, PlaceIs DEF AtEnd
    <3>6. taken["video"] = Len(InFile("video", from["video"], Len(file) + 1))
      BY <3>2, <3>4, <3>5, StreamNames, ReadOut
    <3> QED
      BY <2>2, <2>3, <2>7, <3>6
  <2> QED
    BY <2>6, <2>7
<1>3. CASE pc' # "over"
  BY <1>3 DEF PlaysToTheEnd
<1> QED
  BY <1>1, <1>2, <1>3

(* When main stops, sound and picture have been read to the last byte, though
   streams may have said eof on the way (mplayer.c: "only stop playing when audio
   is at end as well"; ds_fill_buffer in libmpdemux/demuxer.c), for every file
   whose audio is interleaved closely enough, all limits and any seeks. *)
THEOREM StopsAtTheEnd == Spec => []PlaysToTheEnd
<1>1. Init => IInv /\ Flow /\ EndInv
  <2>1. Init => pc = "open"
    BY DEF Init
  <2> QED
    BY <2>1, Initially, FlowInit, EofsInit DEF EndInv, Shown, Stopped, PlaysToTheEnd
<1>2. IInv /\ Flow /\ EndInv /\ [Next]_vars => (IInv /\ Flow /\ EndInv)'
  BY AllStep, FlowStep, EofsStep, ShownStep, OverStep DEF EndInv
<1>3. EndInv => PlaysToTheEnd
  BY DEF EndInv
<1> QED
  BY <1>1, <1>2, <1>3, PTL DEF Spec

==============================================================================
