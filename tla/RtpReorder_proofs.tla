-------------------------- MODULE RtpReorder_proofs --------------------------
(***************************************************************************)
(* Proofs about RtpReorder for a ring of any size, streams of any length   *)
(* and any network: every field of the ring stays in its range, and, while *)
(* numbers do not wrap and a restart of the server goes far, nothing but a *)
(* packet exactly Max ahead or one more than 3 * Max behind can disturb    *)
(* the order of the packets; and when the ring does not start anew for     *)
(* other reasons nor runs out of patience, no packet is dropped that the   *)
(* player could still use.                                                 *)
(***************************************************************************)
EXTENDS RtpReorder, FiniteSetTheorems, WellFoundedInduction, TLAPS

LEMMA Sizes ==
  /\ Max \in Nat /\ Max > 3 /\ MaxTries \in Nat /\ MaxTries >= 1
  /\ Mod \in Nat /\ Mod > 1 /\ Max < Mod /\ Start \in Nat /\ Start < Mod
  /\ Packets \in Nat /\ Restart \in Nat /\ MaxLost \in Nat /\ MaxDups \in Nat /\ MaxErrors \in Nat
  BY RtpAssumption DEF MaxTries

LEMMA Others == Jumps \subseteq Int /\ None \notin Nat
  BY RtpAssumption

RingType ==
  /\ held \in [Slots -> Stream \cup {None}] /\ seq \in [Slots -> 0 .. Mod - 1]
  /\ first \in Slots /\ isFirst \in BOOLEAN
CallType == pc \in {"idle", "get"} /\ tries \in 0 .. MaxTries /\ out \in Seq(Stream)
NetworkType ==
  /\ jump \in Jumps /\ gone \subseteq Stream /\ lost \subseteq gone
  /\ dups \in 0 .. MaxDups /\ errors \in 0 .. MaxErrors

\* What is in the ring, or was refused, has arrived.
Kept == dropped \subseteq gone /\ \A i \in Slots : held[i] # None => held[i] \in gone

Typed == RingType /\ CallType /\ NetworkType /\ Kept

-----------------------------------------------------------------------------
(* Numbers and slots. *)

LEMMA ModRange ==
  ASSUME NEW m \in Nat, m > 0, NEW a \in Int
  PROVE  /\ a % m \in 0 .. m - 1
         /\ 0 <= a /\ a < m => a % m = a
         /\ m <= a /\ a < 2 * m => a % m = a - m
         /\ -m <= a /\ a < 0 => a % m = a + m
<1>1. a % m \in Int /\ 0 <= a % m /\ a % m < m
  OBVIOUS
<1> QED
  BY <1>1

LEMMA SlotIs == ASSUME NEW i PROVE i \in Slots <=> i \in Int /\ 0 <= i /\ i < Max
  BY Sizes DEF Slots

LEMMA NextSlotIs ==
  ASSUME NEW i \in Slots
  PROVE  NextSlot(i) \in Slots /\ NextSlot(i) = IF i = Max - 1 THEN 0 ELSE i + 1
<1> DEFINE a == i + 1
<1>1. i \in Int /\ 0 <= i /\ i < Max /\ a \in Int /\ 0 <= a /\ a <= Max /\ a = i + 1
  BY Sizes, SlotIs
<1> HIDE DEF a
<1>2. CASE a < Max
  <2>1. a % Max = a
    BY <1>1, <1>2, Sizes, ModRange
  <2> QED
    BY <1>1, <1>2, <2>1, Sizes, SlotIs DEF NextSlot, a
<1>3. CASE a = Max
  <2>1. a % Max = 0
    <3>1. Max <= a /\ a < 2 * Max
      BY <1>3, Sizes
    <3> QED
      BY <1>1, <1>3, <3>1, Sizes, ModRange
  <2> QED
    BY <1>1, <1>3, <2>1, Sizes, SlotIs DEF NextSlot, a
<1> QED
  BY <1>1, <1>2, <1>3, Sizes

\* How far slot i is ahead of slot f.
Distance(f, i) == IF i >= f THEN i - f ELSE (i - f) + Max

LEMMA AheadIs ==
  ASSUME NEW i \in Slots, first \in Slots
  PROVE  Ahead(i) = Distance(first, i) /\ Ahead(i) \in Nat /\ Ahead(i) < Max
<1> DEFINE a == i - first
<1>1. i \in Int /\ 0 <= i /\ i < Max /\ first \in Int /\ 0 <= first /\ first < Max
  BY SlotIs
<1>2. a \in Int /\ -Max <= a /\ a < Max /\ (i >= first <=> a >= 0) /\ a = i - first
  BY <1>1, Sizes
<1> HIDE DEF a
<1>3. a % Max = IF a >= 0 THEN a ELSE a + Max
  BY <1>2, Sizes, ModRange
<1>4. Ahead(i) = a % Max
  BY DEF Ahead, a
<1>5. Ahead(i) = Distance(first, i)
  BY <1>2, <1>3, <1>4 DEF Distance
<1>6. Ahead(i) \in Nat /\ Ahead(i) < Max
  BY <1>2, <1>3, <1>4, Sizes
<1> QED
  BY <1>5, <1>6

LEMMA Seq16Is ==
  ASSUME NEW p \in Stream, jump \in Jumps
  PROVE  /\ p \in Nat /\ p < Packets /\ p # None
         /\ Seq16(p) \in 0 .. Mod - 1 /\ (Seq16(p) + 1) % Mod \in 0 .. Mod - 1
<1>1. p \in Nat /\ p < Packets /\ p # None
  BY Sizes, Others DEF Stream
<1> DEFINE j == IF p >= Restart THEN jump ELSE 0
           a == Start + p + j
<1>2. jump \in Int
  BY Others
<1>3. a \in Int
  BY <1>1, <1>2, Sizes
<1> HIDE DEF a
<1>4. a % Mod \in 0 .. Mod - 1
  BY <1>3, Sizes, ModRange
<1>5. Seq16(p) = a % Mod
  BY DEF Seq16, a
<1> DEFINE b == Seq16(p) + 1
<1>6. b \in Int
  BY <1>4, <1>5
<1> HIDE DEF b
<1>7. b % Mod \in 0 .. Mod - 1
  BY <1>6, Sizes, ModRange
<1> QED
  BY <1>1, <1>4, <1>5, <1>7 DEF b

\* What rtp_get_next finds when it has given up: nothing, in the first slot, or
\* the packet that is nearest.
LEMMA FoundIs ==
  ASSUME RingType
  PROVE  /\ Found \in Slots
         /\ held[Found] = None => Found = first /\ \A i \in Slots : held[i] = None
         /\ held[Found] # None => \A j \in Slots : held[j] # None => Ahead(Found) <= Ahead(j)
<1>1. first \in Slots
  BY DEF RingType
<1>2. CASE \A i \in Slots : held[i] = None
  BY <1>1, <1>2 DEF Found
<1>3. CASE ~ \A i \in Slots : held[i] = None
  <2> DEFINE D == {Ahead(i) : i \in {j \in Slots : held[j] # None}}
             R == OpToRel(<, Nat)
  <2>1. D \subseteq Nat /\ D # {}
    BY <1>1, <1>3, AheadIs
  <2>2. IsWellFoundedOn(R, Nat)
    BY NatLessThanWellFounded
  <2>3. \A x \in Nat, y \in Nat : y < x => <<y, x>> \in R
    BY DEF OpToRel
  <2> HIDE DEF R, D
  <2>4. PICK d \in D : \A e \in D : ~(<<e, d>> \in R)
    BY <2>1, <2>2, WFMin
  <2>5. PICK k \in Slots : held[k] # None /\ d = Ahead(k)
    BY <2>4 DEF D
  <2>6. ASSUME NEW j \in Slots, held[j] # None PROVE Ahead(k) <= Ahead(j)
    <3>1. Ahead(j) \in D /\ Ahead(j) \in Nat /\ Ahead(k) \in Nat
      BY <1>1, <2>6, AheadIs DEF D
    <3> DEFINE e == Ahead(j)
    <3>2. e \in D /\ e \in Nat /\ d \in Nat
      BY <2>5, <3>1
    <3> HIDE DEF e
    <3>3. ~(<<e, d>> \in R)
      BY <2>4, <3>2
    <3>4. ~(e < d)
      BY <2>3, <3>2, <3>3
    <3>5. d <= e
      BY <3>2, <3>4
    <3> QED
      BY <2>5, <3>5 DEF e
  <2>7. \E i \in Slots : held[i] # None /\ \A j \in Slots : held[j] # None => Ahead(i) <= Ahead(j)
    BY <2>5, <2>6
  <2>8. Found = CHOOSE i \in Slots : held[i] # None /\ \A j \in Slots : held[j] # None => Ahead(i) <= Ahead(j)
    BY <1>3 DEF Found
  <2>9. Found \in Slots /\ held[Found] # None /\ \A j \in Slots : held[j] # None => Ahead(Found) <= Ahead(j)
    BY <2>7, <2>8, Zenon
  <2> QED
    BY <2>9
<1> QED
  BY <1>2, <1>3

LEMMA ArriveIs ==
  ASSUME NetworkType, NEW p \in Stream, Arrive(p)
  PROVE  /\ NetworkType' /\ gone \subseteq gone' /\ p \in gone' /\ jump' = jump /\ errors' = errors
         /\ \/ gone' = gone \cup {p} /\ p \notin gone /\ dups' = dups
            \/ gone' = gone /\ dups' = dups + 1
<1>1. CASE /\ InReach(p) /\ gone' = gone \cup {p} /\ UNCHANGED <<jump, lost, dups, errors>>
  BY <1>1 DEF InReach, Pending, NetworkType
<1>2. CASE /\ dups < MaxDups /\ p \in gone \ lost /\ dups' = dups + 1
           /\ UNCHANGED <<jump, gone, lost, errors>>
  <2>1. dups' \in 0 .. MaxDups
    BY <1>2, Sizes DEF NetworkType
  <2> QED
    BY <1>2, <2>1 DEF NetworkType
<1> QED
  BY <1>1, <1>2 DEF Arrive

LEMMA SlotForIs ==
  ASSUME RingType, NetworkType, NEW p \in Stream
  PROVE  /\ NewSeq(p) \in Int /\ SlotFor(p) \in Slots
         /\ NewSeq(p) > 0 /\ NewSeq(p) < Max => Ahead(SlotFor(p)) = NewSeq(p)
<1> DEFINE n == NewSeq(p)
           a == n + first
<1>1. Seq16(p) \in 0 .. Mod - 1 /\ seq[first] \in 0 .. Mod - 1 /\ first \in Slots
  BY Seq16Is DEF RingType, NetworkType
<1>2. n \in Int
  BY <1>1, Sizes DEF NewSeq
<1>3. first \in Int /\ 0 <= first /\ first < Max
  BY <1>1, SlotIs
<1>4. SlotFor(p) = a % Max
  BY DEF SlotFor
<1> HIDE DEF n
<1>5. a \in Int /\ (n > 0 /\ n < Max => 0 <= a /\ a < 2 * Max) /\ a = n + first
  BY <1>2, <1>3, Sizes
<1> HIDE DEF a
<1>6. /\ a % Max \in 0 .. Max - 1
      /\ 0 <= a /\ a < Max => a % Max = a
      /\ Max <= a /\ a < 2 * Max => a % Max = a - Max
  BY <1>5, Sizes, ModRange
<1>7. SlotFor(p) \in Slots
  BY <1>4, <1>6 DEF Slots
<1>8. ASSUME n > 0, n < Max PROVE Ahead(SlotFor(p)) = n
  <2>1. Ahead(SlotFor(p)) = Distance(first, SlotFor(p))
    BY <1>1, <1>7, AheadIs
  <2>2. CASE a < Max
    <3>1. SlotFor(p) = n + first
      BY <1>4, <1>5, <1>6, <1>8, <2>2
    <3> QED
      BY <1>2, <1>3, <1>8, <2>1, <3>1 DEF Distance
  <2>3. CASE ~(a < Max)
    <3>1. SlotFor(p) = (n + first) - Max
      BY <1>4, <1>5, <1>6, <1>8, <2>3, Sizes
    <3> QED
      BY <1>2, <1>3, <1>8, <2>1, <3>1, Sizes DEF Distance
  <2> QED
    BY <2>2, <2>3
<1> QED
  BY <1>2, <1>7, <1>8 DEF n

-----------------------------------------------------------------------------
(* Types. *)

\* What every received packet does to the network, and what it leaves to show.
LEMMA RingFits ==
  ASSUME RingType, NetworkType, NEW p \in Stream
  PROVE  /\ \A i \in Slots : [seq EXCEPT ![i] = (Seq16(p) + 1) % Mod] \in [Slots -> 0 .. Mod - 1]
         /\ \A i \in Slots : [seq EXCEPT ![i] = Seq16(p)] \in [Slots -> 0 .. Mod - 1]
         /\ \A i \in Slots : [held EXCEPT ![i] = p] \in [Slots -> Stream \cup {None}]
         /\ Append(out, p) \in Seq(Stream) \/ out \notin Seq(Stream)
         /\ 0 \in Slots /\ Emptied \in [Slots -> Stream \cup {None}]
<1>1. Seq16(p) \in 0 .. Mod - 1 /\ (Seq16(p) + 1) % Mod \in 0 .. Mod - 1
  BY Seq16Is DEF NetworkType
<1>2. 0 \in Slots
  BY Sizes, SlotIs
<1> QED
  BY <1>1, <1>2 DEF RingType, Emptied

LEMMA TriesGo ==
  ASSUME Receiving, CallType
  PROVE  tries + 1 \in 0 .. MaxTries /\ 0 \in 0 .. MaxTries
BY Sizes DEF Receiving, CallType

LEMMA NextKeeps ==
  ASSUME Typed, NEW p \in Stream, ReceiveNext(p)
  PROVE  Typed'
<1>1. NetworkType' /\ gone \subseteq gone'
  BY ArriveIs DEF ReceiveNext, Typed
<1>2. NextSlot(first) \in Slots
  BY NextSlotIs DEF Typed, RingType
<1>3. RingType'
  BY <1>2, RingFits DEF ReceiveNext, Typed, RingType
<1>4. CallType'
  BY RingFits, TriesGo DEF ReceiveNext, HandOut, Typed, CallType
<1>5. Kept'
  BY <1>1 DEF ReceiveNext, Typed, Kept
<1> QED
  BY <1>1, <1>3, <1>4, <1>5 DEF Typed

LEMMA ResetKeeps ==
  ASSUME Typed, NEW p \in Stream, ReceiveOverrun(p) \/ ReceiveUnderrun(p)
  PROVE  Typed'
<1>1. /\ Receiving /\ Arrive(p) /\ Reset(p) /\ HandOut(p)
      /\ isFirst' = isFirst
  BY DEF ReceiveOverrun, ReceiveUnderrun
<1>2. NetworkType' /\ gone \subseteq gone'
  BY <1>1, ArriveIs DEF Typed
<1>3. RingType'
  BY <1>1, RingFits DEF Reset, Typed, RingType
<1>4. CallType'
  BY <1>1, RingFits, TriesGo DEF HandOut, Typed, CallType
<1>5. Kept'
  <2>1. \A i \in Slots : held'[i] = None
    BY <1>1 DEF Reset, Emptied
  <2>2. \A i \in Slots : held[i] # None => held[i] \in gone'
    BY <1>2 DEF Typed, Kept
  <2>3. dropped' = dropped \cup ({held[i] : i \in Slots} \ {None})
    BY <1>1 DEF Reset
  <2>4. dropped \subseteq gone'
    BY <1>2 DEF Typed, Kept
  <2> QED
    BY <2>1, <2>2, <2>3, <2>4 DEF Kept
<1> QED
  BY <1>2, <1>3, <1>4, <1>5 DEF Typed

LEMMA StaleKeeps ==
  ASSUME Typed, NEW p \in Stream, ReceiveStale(p)
  PROVE  Typed'
<1>1. NetworkType' /\ gone \subseteq gone' /\ p \in gone'
  BY ArriveIs DEF ReceiveStale, Typed
<1>2. RingType' /\ CallType'
  BY TriesGo DEF ReceiveStale, ring, Typed, RingType, CallType
<1>3. Kept'
  BY <1>1 DEF ReceiveStale, ring, Typed, Kept
<1> QED
  BY <1>1, <1>2, <1>3 DEF Typed

LEMMA EarlyKeeps ==
  ASSUME Typed, NEW p \in Stream, ReceiveEarly(p)
  PROVE  Typed'
<1>1. NetworkType' /\ gone \subseteq gone' /\ p \in gone'
  BY ArriveIs DEF ReceiveEarly, Typed
<1>2. SlotFor(p) \in Slots
  BY SlotForIs DEF Typed
<1>3. RingType'
  BY <1>2, RingFits DEF ReceiveEarly, Typed, RingType
<1>4. CallType'
  BY TriesGo DEF ReceiveEarly, Typed, CallType
<1>5. Kept'
  BY <1>1, <1>2 DEF ReceiveEarly, Typed, RingType, Kept
<1> QED
  BY <1>1, <1>3, <1>4, <1>5 DEF Typed

LEMMA TakeKeeps ==
  ASSUME Typed, TakeHeld
  PROVE  Typed'
<1> DEFINE i == Found
<1>1. i \in Slots /\ NextSlot(i) \in Slots
  BY FoundIs, NextSlotIs DEF Typed
<1>2. /\ held' = [held EXCEPT ![i] = None] /\ first' = NextSlot(i) /\ seq' = SeqAfter(i)
      /\ \/ held[i] # None /\ HandOut(held[i])
         \/ tries' = 0 /\ pc' = pc /\ out' = out
      /\ UNCHANGED <<isFirst, network, dropped>>
  BY DEF TakeHeld
<1> HIDE DEF i
<1>3. SeqAfter(i) \in [Slots -> 0 .. Mod - 1]
  <2> DEFINE a == seq[i] + 1
  <2>1. a \in Int
    BY <1>1, Sizes DEF Typed, RingType
  <2> HIDE DEF a
  <2>2. a % Mod \in 0 .. Mod - 1
    BY <2>1, Sizes, ModRange
  <2>3. SeqAfter(i) = [seq EXCEPT ![NextSlot(i)] = a % Mod]
    BY DEF SeqAfter, a
  <2> QED
    BY <1>1, <2>2, <2>3 DEF Typed, RingType
<1>4. RingType'
  BY <1>1, <1>2, <1>3 DEF Typed, RingType
<1>5. CallType'
  <2>1. held[i] # None => held[i] \in Stream
    BY <1>1 DEF Typed, RingType
  <2>2. 0 \in 0 .. MaxTries
    BY Sizes
  <2> QED
    BY SMTT(30), <1>2, <2>1, <2>2 DEF HandOut, Typed, CallType
<1>6. NetworkType'
  BY <1>2 DEF network, Typed, NetworkType
<1>7. Kept'
  BY <1>1, <1>2 DEF network, Typed, RingType, Kept
<1> QED
  BY <1>4, <1>5, <1>6, <1>7 DEF Typed

LEMMA OthersKeep ==
  ASSUME Typed, Read \/ ReceiveNothing \/ (\E p \in Stream : Lose(p)) \/ UNCHANGED vars
  PROVE  Typed'
<1>1. CASE Read
  BY <1>1, Sizes DEF Read, ring, network, Typed, RingType, CallType, NetworkType, Kept
<1>2. CASE ReceiveNothing
  <2>1. errors' \in 0 .. MaxErrors
    BY <1>2, Sizes DEF ReceiveNothing, Typed, NetworkType
  <2>2. CallType'
    BY <1>2, TriesGo DEF ReceiveNothing, Typed, CallType
  <2>3. NetworkType'
    BY <1>2, <2>1 DEF ReceiveNothing, Typed, NetworkType
  <2> QED
    BY <1>2, <2>2, <2>3 DEF ReceiveNothing, ring, Typed, RingType, Kept
<1>3. ASSUME NEW p \in Stream, Lose(p) PROVE Typed'
  BY <1>3 DEF Lose, ring, Typed, RingType, CallType, NetworkType, Kept
<1>4. CASE UNCHANGED vars
  BY <1>4 DEF vars, ring, network, Typed, RingType, CallType, NetworkType, Kept
<1> QED
  BY <1>1, <1>2, <1>3, <1>4

LEMMA TypedStep == Typed /\ [Next]_vars => Typed'
<1> SUFFICES ASSUME Typed, [Next]_vars PROVE Typed'
  OBVIOUS
<1>1. ASSUME NEW p \in Stream, Receive(p) PROVE Typed'
  BY <1>1, NextKeeps, ResetKeeps, StaleKeeps, EarlyKeeps DEF Receive
<1> QED
  BY <1>1, TakeKeeps, OthersKeep DEF Next, Step

LEMMA TypedInit == Init => Typed
<1> SUFFICES ASSUME Init PROVE Typed
  OBVIOUS
<1>1. RingType
  BY Sizes, SlotIs DEF Init, RingType
<1>2. CallType /\ NetworkType /\ Kept
  BY Sizes DEF Init, CallType, NetworkType, Kept
<1> QED
  BY <1>1, <1>2 DEF Typed

LEMMA AlwaysTyped == Spec => []Typed
BY TypedInit, TypedStep, PTL DEF Spec

\* Every field of struct rtpbuffer, the counter of rtp_get_next and what was
\* handed out stay in their ranges, whatever arrives (rtp.c:50-59, 84-211).
THEOREM TypeCorrect == Spec => []TypeOK
<1>1. Typed => TypeOK
  BY DEF Typed, RingType, CallType, NetworkType, Kept, TypeOK
<1> QED
  BY <1>1, AlwaysTyped, PTL

-----------------------------------------------------------------------------
(* The order of the packets. *)

\* The packets that have come, and whether one of the server's second life has.
Came == gone \ lost
Restarted == jump # 0 /\ \E q \in Came : q >= Restart

\* The number of packet 0 in the series the ring follows.
Origin == IF Restarted THEN Start + jump ELSE Start

\* The server's numbers do not reach 2^16, and those after a restart are far from
\* those before: more than the ring is long and the stream can bring it ahead, or
\* so far behind that rtp_cache starts anew, above what an empty ring counts to.
Steady ==
  \A j \in Jumps :
    /\ Start + (IF j > 0 THEN j ELSE 0) + 2 * Packets + MaxErrors + MaxDups < Mod
    /\ j > 0 => j > Max + 2 * Packets + MaxErrors + MaxDups
    /\ j < 0 => j <= -(3 * Max + Packets) /\ Start + j > MaxErrors

\* The first packet that comes of the second life.
Renewed(p) == jump # 0 /\ p >= Restart /\ ~Restarted

(* What the next theorem leaves aside: a packet of the same life that is taken for
   a restart from far behind, and the packet exactly Max ahead, whose slot is that
   of the packet expected.                                                     *)
Within ==
  \A p \in Stream : (ReceiveUnderrun(p) => Renewed(p)) /\ (ReceiveEarly(p) => NewSeq(p) # Max)

\* Until the first packet the ring is empty and counts only failed receives.
EmptyInv ==
  isFirst => /\ out = <<>> /\ Came = {} /\ seq[first] + tries <= errors
             /\ \A i \in Slots : held[i] = None /\ seq[i] <= errors

\* A packet in the ring has come, and is in the slot its number leads to.
HeldInv ==
  \A i \in Slots : held[i] # None =>
    held[i] \in Came /\ seq[i] = Origin + held[i] /\ seq[i] = seq[first] + Ahead(i)

LastInv == ~isFirst => out # <<>> /\ out[Len(out)] \in Came /\ Origin + out[Len(out)] < seq[first]

\* The number expected runs ahead of the packets no faster than the ring gives up.
RoomInv == seq[first] + tries <= Origin + Packets + errors + dups + Cardinality(gone)

\* Lives do not mix: once the second has begun, nothing of the first is to come;
\* until then every slot holds the number of a packet or what an empty ring counts.
LivesInv ==
  /\ Restarted => \A q \in Pending : q >= Restart
  /\ ~Restarted => \A i \in Slots : seq[i] <= MaxErrors \/ seq[i] >= Start

OrdInv == EmptyInv /\ HeldInv /\ LastInv /\ RoomInv /\ LivesInv /\ Ordered

LEMMA PartCounts ==
  ASSUME NEW S \in SUBSET Stream
  PROVE  IsFiniteSet(S) /\ Cardinality(S) \in Nat /\ Cardinality(S) <= Packets
<1> DEFINE a == 0
           b == Packets - 1
<1>1. a \in Int /\ b \in Int /\ b - a + 1 = Packets /\ (a > b => Packets = 0)
  BY Sizes
<1>2. Stream = a .. b
  BY DEF Stream
<1> HIDE DEF a, b
<1>3. IsFiniteSet(Stream) /\ Cardinality(Stream) = Packets
  BY <1>1, <1>2, FS_Interval
<1>4. IsFiniteSet(S) /\ Cardinality(S) <= Cardinality(Stream)
  BY <1>3, FS_Subset
<1>5. Cardinality(S) \in Nat
  BY <1>4, FS_CardinalityType
<1> QED
  BY <1>3, <1>4, <1>5

LEMMA GoneCounts ==
  ASSUME NetworkType
  PROVE  /\ IsFiniteSet(gone) /\ Cardinality(gone) \in Nat /\ Cardinality(gone) <= Packets
         /\ errors \in Nat /\ dups \in Nat /\ errors <= MaxErrors /\ dups <= MaxDups
BY PartCounts, Sizes DEF NetworkType

LEMMA OriginsAre ==
  ASSUME Steady, NEW j \in Jumps
  PROVE  /\ j \in Int /\ Start + j \in Nat
         /\ Start + 2 * Packets + MaxErrors + MaxDups < Mod
         /\ Start + j + 2 * Packets + MaxErrors + MaxDups < Mod
<1>1. j \in Int /\ (j > 0 => Start + j + 2 * Packets + MaxErrors + MaxDups < Mod)
      /\ (~(j > 0) => Start + 2 * Packets + MaxErrors + MaxDups < Mod)
      /\ (j < 0 => Start + j > MaxErrors)
  BY Others, Sizes DEF Steady
<1> QED
  BY <1>1, Sizes

LEMMA OriginIs ==
  ASSUME Steady, Typed
  PROVE  Origin \in Nat /\ Origin + 2 * Packets + MaxErrors + MaxDups < Mod /\ jump \in Jumps
BY OriginsAre, Sizes DEF Origin, Typed, NetworkType

LEMMA OriginAfter ==
  ASSUME Steady, Typed'
  PROVE  Origin' \in Nat
<1>1. jump' \in Jumps
  BY DEF Typed, NetworkType
<1>2. Start + jump' \in Nat /\ Start \in Nat
  BY <1>1, OriginsAre, Sizes
<1>3. Origin' = Start \/ Origin' = Start + jump'
  BY DEF Origin
<1> QED
  BY <1>2, <1>3

LEMMA NumberIs ==
  ASSUME Steady, Typed, NEW p \in Stream, NEW a, a = Start + p + IF p >= Restart THEN jump ELSE 0
  PROVE  Seq16(p) = a /\ (Seq16(p) + 1) % Mod = a + 1 /\ a \in Nat
<1>1. p \in Nat /\ p < Packets
  BY Seq16Is DEF Typed, NetworkType
<1>2. jump \in Jumps
  BY OriginIs
<1>3. a \in Nat /\ a + 1 < Mod
  BY <1>1, <1>2, OriginsAre, Sizes
<1> DEFINE c == a + 1
<1>4. c \in Nat /\ c < Mod
  BY <1>3
<1>5. Seq16(p) = a % Mod
  BY DEF Seq16
<1>6. a % Mod = a
  BY <1>3, Sizes, ModRange
<1> HIDE DEF c
<1>7. c % Mod = c
  BY <1>4, Sizes, ModRange
<1> QED
  BY <1>3, <1>5, <1>6, <1>7 DEF c

\* The next number after one the bound covers does not wrap.
LEMMA NoWrap ==
  ASSUME Steady, Typed, RoomInv
  PROVE  /\ \A p \in Stream : (Origin + p + 1) % Mod = Origin + p + 1
         /\ tries > 0 => (seq[first] + 1) % Mod = seq[first] + 1
<1>1. ASSUME NEW p \in Stream
      PROVE  (Origin + p + 1) % Mod = Origin + p + 1
  <2> DEFINE c == Origin + p + 1
  <2>1. c \in Int /\ 0 <= c /\ c < Mod
    BY Sizes, Seq16Is, OriginIs DEF Typed, NetworkType
  <2> HIDE DEF c
  <2>2. c % Mod = c
    BY <2>1, Sizes, ModRange
  <2> QED
    BY <2>2 DEF c
<1>2. ASSUME tries > 0 PROVE (seq[first] + 1) % Mod = seq[first] + 1
  <2> DEFINE c == seq[first] + 1
  <2>1. seq[first] \in Int /\ 0 <= seq[first] /\ tries \in Nat
    BY Sizes DEF Typed, RingType, CallType
  <2>2. c \in Int /\ 0 <= c /\ c < Mod
    BY <1>2, <2>1, Sizes, GoneCounts, OriginIs DEF Typed, RoomInv
  <2> HIDE DEF c
  <2>3. c % Mod = c
    BY <2>2, Sizes, ModRange
  <2> QED
    BY <2>3 DEF c
<1> QED
  BY <1>1, <1>2

\* A packet that arrives had not come before, or comes once more.
LEMMA ArriveCame ==
  ASSUME Typed, NEW p \in Stream, Arrive(p)
  PROVE  /\ Came' = Came \cup {p} /\ lost' = lost /\ errors' = errors /\ p \notin lost /\ jump' = jump
         /\ Pending' \subseteq Pending /\ p \notin Pending'
         /\ \/ /\ p \in Pending /\ p \notin Came /\ dups' = dups
               /\ \A q \in Pending : p < q + Spread /\ (Before(q) => Before(p))
            \/ /\ p \in Came /\ Came' = Came /\ dups' = dups + 1
               /\ Before(p) => \A q \in gone : Before(q)
<1>1. lost \subseteq gone /\ gone \subseteq Stream
  BY DEF Typed, NetworkType
<1>2. CASE InReach(p) /\ gone' = gone \cup {p} /\ UNCHANGED <<jump, lost, dups, errors>>
  <2>1. p \in Pending /\ p \notin gone /\ \A q \in Pending : p < q + Spread /\ (Before(q) => Before(p))
    BY <1>2 DEF InReach, Pending
  <2>2. /\ Came' = Came \cup {p} /\ p \notin Came /\ p \notin lost
        /\ Pending' \subseteq Pending /\ p \notin Pending'
    BY <1>1, <1>2, <2>1 DEF Came, Pending
  <2> QED
    BY <1>2, <2>1, <2>2
<1>3. CASE /\ dups < MaxDups /\ p \in gone \ lost
           /\ Before(p) => \A q \in gone : Before(q)
           /\ dups' = dups + 1 /\ UNCHANGED <<jump, gone, lost, errors>>
  <2>1. p \in Came /\ Came' = Came /\ Pending' = Pending /\ p \notin Pending'
    BY <1>3 DEF Came, Pending
  <2> QED
    BY <1>3, <2>1 DEF Came
<1> QED
  BY <1>2, <1>3 DEF Arrive

\* A packet of the series the ring follows, which goes on to be that.
Usual(p) ==
  /\ Seq16(p) = Origin + p /\ (Seq16(p) + 1) % Mod = Origin + p + 1
  /\ Restarted' = Restarted /\ Origin' = Origin /\ (Restarted => p >= Restart)

LEMMA RenewedOrUsual ==
  ASSUME Steady, Typed, LivesInv, NEW p \in Stream, Arrive(p), ~Renewed(p)
  PROVE  Usual(p)
<1>1. /\ Came' = Came \cup {p} /\ jump' = jump /\ Came \subseteq gone
      /\ \/ p \in Pending /\ p \notin Came
         \/ p \in Came /\ (Before(p) => \A q \in gone : Before(q))
  BY ArriveCame DEF Came
<1>2. Restarted => p >= Restart
  <2>1. SUFFICES ASSUME Restarted, ~(p >= Restart) PROVE FALSE
    OBVIOUS
  <2>2. p \in Nat /\ Restart \in Nat
    BY Seq16Is, Sizes DEF Typed, NetworkType
  <2>3. Before(p) /\ p \notin Pending
    BY <2>1, <2>2 DEF Before, Restarted, LivesInv
  <2>4. PICK q \in Came : q >= Restart
    BY <2>1 DEF Restarted
  <2>5. Before(q)
    BY <1>1, <2>3, <2>4
  <2>6. q \in Nat
    BY <1>1, <2>4, Sizes DEF Typed, NetworkType, Stream
  <2> QED
    BY <2>2, <2>4, <2>5, <2>6 DEF Before
<1>3. Restarted' = Restarted
  BY <1>1, <1>2 DEF Restarted, Renewed
<1>4. Origin' = Origin
  BY <1>1, <1>3 DEF Origin
<1>5. Origin + p = Start + p + IF p >= Restart THEN jump ELSE 0
  <2>1. jump \in Int /\ p \in Nat
    BY OriginIs, Others, Seq16Is DEF Typed, NetworkType
  <2>2. CASE Restarted
    BY <1>2, <2>1, <2>2, Sizes DEF Origin
  <2>3. CASE ~Restarted
    <3>1. jump = 0 \/ ~(p >= Restart)
      BY <2>3 DEF Renewed
    <3> QED
      BY <2>1, <2>3, <3>1, Sizes DEF Origin
  <2> QED
    BY <2>2, <2>3
<1> DEFINE a == Origin + p
<1>6. Seq16(p) = a /\ (Seq16(p) + 1) % Mod = a + 1
  BY <1>5, NumberIs
<1> QED
  BY <1>2, <1>3, <1>4, <1>6 DEF Usual

\* Nothing comes: the series is the same.
LEMMA SeriesSame ==
  ASSUME Came' = Came, jump' = jump
  PROVE  Restarted' = Restarted /\ Origin' = Origin
<1>1. Restarted' = Restarted
  BY DEF Restarted
<1> QED
  BY <1>1 DEF Origin

LEMMA ArriveCounts ==
  ASSUME Typed, NEW p \in Stream, Arrive(p)
  PROVE  errors' = errors /\ Cardinality(gone') + dups' >= Cardinality(gone) + dups + 1
<1>1. /\ NetworkType' /\ errors' = errors
      /\ \/ gone' = gone \cup {p} /\ p \notin gone /\ dups' = dups
         \/ gone' = gone /\ dups' = dups + 1
  BY ArriveIs DEF Typed
<1>2. IsFiniteSet(gone) /\ Cardinality(gone) \in Nat /\ dups \in Nat
  BY GoneCounts DEF Typed
<1>3. CASE gone' = gone \cup {p} /\ p \notin gone /\ dups' = dups
  <2>1. Cardinality(gone \cup {p}) = Cardinality(gone) + 1
    BY <1>2, <1>3, FS_AddElement
  <2>2. Cardinality(gone') = Cardinality(gone) + 1
    BY <1>3, <2>1
  <2> QED
    BY <1>1, <1>2, <1>3, <2>2
<1>4. CASE gone' = gone /\ dups' = dups + 1
  <2>1. Cardinality(gone') = Cardinality(gone)
    BY <1>4
  <2> QED
    BY <1>1, <1>2, <1>4, <2>1
<1> QED
  BY <1>1, <1>3, <1>4

LEMMA DistanceFrom ==
  ASSUME NEW f \in Slots, NEW i \in Slots, NEW j \in Slots
  PROVE  /\ Distance(f, f) = 0
         /\ Distance(f, i) = Distance(f, j) => i = j
         /\ Distance(f, j) > Distance(f, i) =>
              Distance(NextSlot(i), j) = Distance(f, j) - Distance(f, i) - 1
<1>1. /\ f \in Int /\ 0 <= f /\ f < Max /\ i \in Int /\ 0 <= i /\ i < Max
      /\ j \in Int /\ 0 <= j /\ j < Max
  BY SlotIs
<1>2. NextSlot(i) = IF i = Max - 1 THEN 0 ELSE i + 1
  BY NextSlotIs
<1> QED
  BY <1>1, <1>2, Sizes DEF Distance

\* The first slot moves past slot i, and nothing up to it is left in the ring.
LEMMA Advance ==
  ASSUME Typed, HeldInv, Origin' = Origin, Came \subseteq Came', NEW i \in Slots, first' = NextSlot(i),
         seq' = [seq EXCEPT ![NextSlot(i)] = seq[first] + Ahead(i) + 1],
         \A j \in Slots : held'[j] # None => held'[j] = held[j] /\ Ahead(j) > Ahead(i)
  PROVE  HeldInv'
<1>1. first \in Slots /\ NextSlot(i) \in Slots /\ seq \in [Slots -> 0 .. Mod - 1]
  BY NextSlotIs DEF Typed, RingType
<1>2. \A k \in Slots : seq[k] \in Int /\ Ahead(k) \in Nat /\ Ahead(k) = Distance(first, k)
  BY <1>1, Sizes, AheadIs
<1>3. ASSUME NEW j \in Slots, held'[j] # None
      PROVE  /\ held'[j] \in Came'
             /\ seq'[j] = Origin' + held'[j] /\ seq'[j] = seq'[first'] + (Ahead(j))'
  <2>1. /\ held'[j] = held[j] /\ Ahead(j) > Ahead(i)
        /\ held[j] \in Came /\ seq[j] = Origin + held[j] /\ seq[j] = seq[first] + Ahead(j)
    BY <1>3 DEF HeldInv
  <2>2. (Ahead(j))' = Distance(NextSlot(i), j)
    <3> DEFINE a == j - first'
    <3>1. first' \in Slots
      BY <1>1
    <3>2. j \in Int /\ 0 <= j /\ j < Max /\ first' \in Int /\ 0 <= first' /\ first' < Max
      BY <3>1, SlotIs
    <3>3. a \in Int /\ -Max <= a /\ a < Max /\ (j >= first' <=> a >= 0) /\ a = j - first'
      BY <3>2, Sizes
    <3>4. (Ahead(j))' = a % Max
      BY DEF Ahead
    <3> HIDE DEF a
    <3>5. a % Max = IF a >= 0 THEN a ELSE a + Max
      BY <3>3, Sizes, ModRange
    <3> QED
      BY <3>3, <3>4, <3>5 DEF Distance
  <2>3. (Ahead(j))' = Ahead(j) - Ahead(i) - 1
    BY <1>1, <1>2, <2>1, <2>2, DistanceFrom
  <2>4. seq'[first'] = seq[first] + Ahead(i) + 1
    BY <1>1
  <2>5. ASSUME j = NextSlot(i) PROVE Ahead(j) = Ahead(i) + 1
    <3>1. Distance(NextSlot(i), j) = 0
      BY <2>5, DistanceFrom
    <3>2. 0 = Ahead(j) - Ahead(i) - 1
      BY <2>2, <2>3, <3>1
    <3>3. Ahead(j) \in Nat /\ Ahead(i) \in Nat
      BY <1>2
    <3> QED
      BY <3>2, <3>3
  <2>6. seq'[j] = seq[j]
    BY <1>1, <1>2, <2>1, <2>5
  <2> QED
    BY <1>1, <1>2, <2>1, <2>3, <2>4, <2>6
<1> QED
  BY <1>3 DEF HeldInv

LEMMA Extends ==
  ASSUME Ordered, out \in Seq(Stream), NEW p \in Stream, out' = Append(out, p),
         out # <<>> => out[Len(out)] < p
  PROVE  Ordered' /\ out' # <<>> /\ out'[Len(out')] = p
<1>1. /\ Len(out') = Len(out) + 1 /\ Len(out) \in Nat /\ out'[Len(out) + 1] = p
      /\ \A k \in 1 .. Len(out) : out'[k] = out[k]
  OBVIOUS
<1>2. ASSUME NEW k \in 1 .. Len(out') - 1 PROVE out'[k] < out'[k + 1]
  <2>1. CASE k = Len(out)
    BY <1>1, <2>1
  <2>2. CASE k # Len(out)
    <3>1. k \in 1 .. Len(out) - 1 /\ k \in 1 .. Len(out) /\ k + 1 \in 1 .. Len(out)
      BY <1>1, <1>2, <2>2
    <3> QED
      BY <1>1, <3>1 DEF Ordered
  <2> QED
    BY <2>1, <2>2
<1>3. out' # <<>>
  BY <1>1
<1> QED
  BY <1>1, <1>2, <1>3 DEF Ordered

LEMMA TypedFacts ==
  ASSUME Typed
  PROVE  /\ first \in Slots /\ \A i \in Slots : seq[i] \in Nat /\ (held[i] # None => held[i] \in Stream)
         /\ tries \in Nat /\ tries <= MaxTries /\ out \in Seq(Stream) /\ Stream \subseteq Nat
         /\ out # <<>> => out[Len(out)] \in Nat
         /\ Ahead(first) = 0
<1>1. first \in Slots /\ Ahead(first) = Distance(first, first)
  BY AheadIs DEF Typed, RingType
<1>2. Ahead(first) = 0
  BY <1>1, DistanceFrom
<1>3. out # <<>> => out[Len(out)] \in Nat
  BY Sizes DEF Typed, CallType, Stream
<1> QED
  BY <1>1, <1>2, <1>3, Sizes DEF Typed, RingType, CallType, Stream

LEMMA LastIs ==
  ASSUME OrdInv
  PROVE  out # <<>> => ~isFirst /\ out[Len(out)] \in Came /\ Origin + out[Len(out)] < seq[first]
BY DEF OrdInv, EmptyInv, LastInv

LEMMA HandsOut ==
  ASSUME Typed, Typed', Steady, Ordered, NEW p \in Stream, HandOut(p), p \in Came',
         out # <<>> => out[Len(out)] < p,
         seq'[first'] = Origin' + p + 1
  PROVE  LastInv' /\ RoomInv' /\ Ordered'
<1> DEFINE o == Origin'
<1>1. p \in Nat /\ p < Packets /\ o \in Nat /\ seq'[first'] = o + p + 1
  BY Seq16Is, OriginAfter DEF Typed, NetworkType
<1> HIDE DEF o
<1>2. Ordered' /\ out' # <<>> /\ out'[Len(out')] = p
  BY Extends DEF HandOut, Typed, CallType
<1>3. LastInv'
  <2>1. o + out'[Len(out')] < seq'[first']
    BY <1>1, <1>2
  <2> QED
    BY <1>2, <2>1 DEF LastInv, o
<1>4. /\ Cardinality(gone') \in Nat /\ errors' \in Nat /\ dups' \in Nat
  <2>1. gone' \in SUBSET Stream /\ errors' \in Nat /\ dups' \in Nat
    BY Sizes DEF Typed, NetworkType
  <2> QED
    BY <2>1, PartCounts
<1>5. RoomInv'
  <2>1. tries' = 0
    BY DEF HandOut
  <2>2. seq'[first'] + tries' <= o + Packets + errors' + dups' + Cardinality(gone')
    BY <1>1, <1>4, <2>1, Sizes
  <2> QED
    BY <2>2 DEF RoomInv, o
<1> QED
  BY <1>2, <1>3, <1>5

\* A packet of the series leaves the lives apart.
LEMMA LivesKept ==
  ASSUME LivesInv, Restarted' = Restarted, Pending' \subseteq Pending,
         ~Restarted => \A i \in Slots : seq'[i] = seq[i] \/ seq'[i] <= MaxErrors \/ seq'[i] >= Start
  PROVE  LivesInv'
BY DEF LivesInv

LEMMA NextOrdered ==
  ASSUME Steady, Typed, Typed', OrdInv, NEW p \in Stream, ReceiveNext(p), Usual(p)
  PROVE  OrdInv'
<1>1. /\ held[first] = None /\ held' = held /\ HandOut(p) /\ first' = NextSlot(first)
      /\ seq' = [seq EXCEPT ![NextSlot(first)] = Origin + p + 1] /\ isFirst' = FALSE
      /\ Arrive(p) /\ Origin' = Origin
  BY DEF ReceiveNext, Receiving, Usual
<1>2. EmptyInv'
  BY <1>1 DEF EmptyInv
<1>3. /\ first \in Slots /\ first' \in Slots /\ seq'[first'] = Origin + p + 1
      /\ p \in Nat /\ Origin \in Nat
  BY <1>1, NextSlotIs, TypedFacts, OriginIs DEF Typed, RingType
<1>4. Came' = Came \cup {p} /\ Pending' \subseteq Pending
  BY <1>1, ArriveCame
<1>5. isFirst \/ seq[first] = Origin + p
  <2>1. Seq16(p) = Origin + p
    BY DEF Usual
  <2>2. isFirst \/ Seq16(p) - seq[first] = 0
    BY DEF ReceiveNext, InSequence, NewSeq
  <2> QED
    BY <1>3, <2>1, <2>2, TypedFacts
<1>6. HeldInv'
  <2>1. CASE isFirst
    BY <1>1, <2>1 DEF OrdInv, EmptyInv, HeldInv
  <2>2. CASE ~isFirst
    <3>1. seq' = [seq EXCEPT ![NextSlot(first)] = seq[first] + Ahead(first) + 1]
      <4>1. Origin + p + 1 = seq[first] + Ahead(first) + 1
        BY <1>3, <1>5, <2>2, TypedFacts
      <4> QED
        BY <1>1, <4>1
    <3>2. ASSUME NEW j \in Slots, held'[j] # None
          PROVE  held'[j] = held[j] /\ Ahead(j) > Ahead(first)
      <4>1. j # first /\ held'[j] = held[j]
        BY <1>1, <3>2
      <4>2. Ahead(j) = Distance(first, j) /\ Ahead(first) = Distance(first, first) /\ Ahead(j) \in Nat
        BY <1>3, AheadIs
      <4>3. Ahead(j) # 0 /\ Ahead(first) = 0
        BY <1>3, <4>1, <4>2, DistanceFrom
      <4> QED
        BY <4>1, <4>2, <4>3
    <3>3. HeldInv /\ Came \subseteq Came'
      BY <1>4 DEF OrdInv
    <3> QED
      BY <1>1, <1>3, <3>1, <3>2, <3>3, Advance
  <2> QED
    BY <2>1, <2>2
<1>7. out # <<>> => out[Len(out)] < p
  BY <1>3, <1>5, LastIs, TypedFacts
<1>8. LastInv' /\ RoomInv' /\ Ordered'
  BY <1>1, <1>3, <1>4, <1>7, HandsOut DEF OrdInv
<1>9. LivesInv'
  <2>1. ~Restarted => Origin + p + 1 >= Start
    BY <1>3, Sizes DEF Origin
  <2>2. \A i \in Slots : seq'[i] = seq[i] \/ seq'[i] = Origin + p + 1
    BY <1>1 DEF Typed, RingType
  <2> QED
    BY <1>4, <2>1, <2>2, LivesKept DEF OrdInv, Usual
<1> QED
  BY <1>2, <1>6, <1>8, <1>9 DEF OrdInv

\* The ring starts anew with a packet ahead of all that were handed out.
LEMMA ResetOrdered ==
  ASSUME Steady, Typed, Typed', Ordered, NEW p \in Stream, HandOut(p), p \in Came', isFirst' = FALSE,
         \A i \in Slots : held'[i] = None,
         out # <<>> => out[Len(out)] < p,
         seq'[first'] = Origin' + p + 1
  PROVE  EmptyInv' /\ HeldInv' /\ LastInv' /\ RoomInv' /\ Ordered'
<1>1. EmptyInv' /\ HeldInv'
  BY DEF EmptyInv, HeldInv
<1> QED
  BY <1>1, HandsOut

LEMMA OverrunOrdered ==
  ASSUME Steady, Typed, Typed', OrdInv, NEW p \in Stream, ReceiveOverrun(p), Usual(p)
  PROVE  OrdInv'
<1>1. /\ ~isFirst /\ isFirst' = isFirst /\ HandOut(p) /\ NewSeq(p) > Max /\ Arrive(p)
      /\ first' = 0 /\ seq' = [seq EXCEPT ![0] = Origin + p + 1] /\ held' = Emptied
      /\ Origin' = Origin
  BY DEF ReceiveOverrun, Overrun, InSequence, Reset, Usual
<1>2. 0 \in Slots /\ seq'[first'] = Origin' + p + 1 /\ p \in Nat /\ Origin \in Nat
  BY <1>1, Sizes, SlotIs, TypedFacts, OriginIs DEF Typed, RingType
<1>3. Came' = Came \cup {p} /\ Pending' \subseteq Pending
  BY <1>1, ArriveCame
<1>4. seq[first] < Origin + p
  <2>1. Seq16(p) = Origin + p
    BY DEF Usual
  <2>2. Seq16(p) - seq[first] > Max
    BY <1>1 DEF NewSeq
  <2> QED
    BY <1>2, <2>1, <2>2, TypedFacts, Sizes
<1>5. out # <<>> => out[Len(out)] < p
  BY <1>2, <1>4, LastIs, TypedFacts
<1>6. EmptyInv' /\ HeldInv' /\ LastInv' /\ RoomInv' /\ Ordered'
  <2>1. isFirst' = FALSE /\ \A i \in Slots : held'[i] = None
    BY <1>1 DEF Emptied
  <2> QED
    BY <1>1, <1>2, <1>3, <1>5, <2>1, ResetOrdered DEF OrdInv
<1>7. LivesInv'
  <2>1. ~Restarted => Origin + p + 1 >= Start
    BY <1>2, Sizes DEF Origin
  <2>2. \A i \in Slots : seq'[i] = seq[i] \/ seq'[i] = Origin + p + 1
    BY <1>1 DEF Typed, RingType
  <2> QED
    BY <1>3, <2>1, <2>2, LivesKept DEF OrdInv, Usual
<1> QED
  BY <1>6, <1>7 DEF OrdInv

\* The first packet of the second life restarts the ring, if it is not the first of all.
LEMMA RenewedIs ==
  ASSUME Steady, Typed, OrdInv, NEW p \in Stream, Receive(p), Renewed(p)
  PROVE  /\ HandOut(p) /\ Arrive(p) /\ (\A i \in Slots : held'[i] = None) /\ isFirst' = FALSE
         /\ Restarted' /\ Origin' \in Nat /\ seq'[first'] = Origin' + p + 1
         /\ \A q \in Came : q < Restart
         /\ dropped' \subseteq dropped \cup Came
<1>1. Arrive(p)
  BY DEF Receive, ReceiveNext, ReceiveOverrun, ReceiveStale, ReceiveUnderrun, ReceiveEarly
<1>2. Came' = Came \cup {p} /\ jump' = jump
  BY <1>1, ArriveCame
<1>3. jump # 0 /\ p >= Restart /\ ~Restarted /\ p \in Nat /\ p < Packets /\ Restart \in Nat
      /\ jump \in Int /\ jump \in Jumps
  BY Seq16Is, Sizes, OriginIs, Others DEF Renewed, Typed, NetworkType
<1>4. Restarted' /\ Origin' = Start + jump /\ Origin = Start
  BY <1>2, <1>3 DEF Restarted, Origin
<1>5. Origin' \in Nat
  BY <1>3, <1>4, OriginsAre
<1>6. \A q \in Came : q < Restart
  <2>1. Came \subseteq Nat
    BY Sizes DEF Came, Typed, NetworkType, Stream
  <2>2. \A q \in Came : ~(q >= Restart)
    BY <1>3 DEF Restarted
  <2> QED
    BY <1>3, <2>1, <2>2
<1>7. Seq16(p) = Origin' + p /\ (Seq16(p) + 1) % Mod = Origin' + p + 1
  <2> DEFINE a == Origin' + p
  <2>1. a = Start + p + IF p >= Restart THEN jump ELSE 0
    BY <1>3, <1>4, Sizes
  <2> HIDE DEF a
  <2>2. Seq16(p) = a /\ (Seq16(p) + 1) % Mod = a + 1
    BY <2>1, NumberIs
  <2> QED
    BY <2>2 DEF a
<1>8. /\ first \in Slots /\ 0 \in Slots /\ NextSlot(first) \in Slots
      /\ seq \in [Slots -> 0 .. Mod - 1] /\ seq[first] \in Nat
  <2>1. first \in Slots /\ seq[first] \in Nat /\ seq \in [Slots -> 0 .. Mod - 1]
    BY TypedFacts DEF Typed, RingType
  <2> QED
    BY <2>1, Sizes, SlotIs, NextSlotIs
<1>9. CASE isFirst
  <2>1. ReceiveNext(p)
    BY <1>9 DEF Receive, ReceiveOverrun, ReceiveStale, ReceiveUnderrun, ReceiveEarly,
                Overrun, Underrun, Early, InSequence
  <2>2. /\ HandOut(p) /\ held' = held /\ isFirst' = FALSE /\ dropped' = dropped
        /\ first' = NextSlot(first) /\ seq' = [seq EXCEPT ![NextSlot(first)] = Origin' + p + 1]
    BY <1>7, <2>1 DEF ReceiveNext
  <2>3. \A i \in Slots : held'[i] = None
    BY <1>9, <2>2 DEF OrdInv, EmptyInv
  <2>4. seq'[first'] = Origin' + p + 1
    BY <1>8, <2>2
  <2> QED
    BY <1>1, <1>4, <1>5, <1>6, <2>2, <2>3, <2>4
<1>10. CASE ~isFirst
  <2>1. NewSeq(p) = Origin' + p - seq[first]
    BY <1>3, <1>5, <1>7, <1>8 DEF NewSeq
  <2>2. Start <= seq[first] /\ seq[first] <= Start + 2 * Packets + MaxErrors + MaxDups
    <3>1. Start <= seq[first]
      <4>1. out[Len(out)] \in Nat /\ Start + out[Len(out)] < seq[first]
        BY <1>4, <1>10, TypedFacts DEF OrdInv, LastInv
      <4> QED
        BY <1>8, <4>1, Sizes
    <3>2. seq[first] + tries <= Start + Packets + errors + dups + Cardinality(gone)
      BY <1>4 DEF OrdInv, RoomInv
    <3>3. /\ Cardinality(gone) \in Nat /\ Cardinality(gone) <= Packets /\ tries \in Nat
          /\ errors \in Nat /\ dups \in Nat /\ errors <= MaxErrors /\ dups <= MaxDups
      BY GoneCounts, TypedFacts DEF Typed
    <3> QED
      BY <1>8, <3>1, <3>2, <3>3, Sizes
  <2>3. ReceiveOverrun(p) \/ ReceiveUnderrun(p)
    <3>1. CASE jump > 0
      <4>1. jump > Max + 2 * Packets + MaxErrors + MaxDups
        BY <1>3, <3>1 DEF Steady
      <4>2. NewSeq(p) > Max
        BY <1>3, <1>4, <1>8, <2>1, <2>2, <4>1, Sizes
      <4>3. ~InSequence(p) /\ ~Underrun(p) /\ ~Early(p)
        BY <1>10, <4>2, <2>1, <1>3, <1>5, <1>8, Sizes DEF InSequence, Underrun, Early
      <4> QED
        BY <4>3 DEF Receive, ReceiveNext, ReceiveStale, ReceiveUnderrun, ReceiveEarly
    <3>2. CASE jump < 0
      <4>1. jump <= -(3 * Max + Packets) /\ Start + jump > MaxErrors
        BY <1>3, <3>2 DEF Steady
      <4>2. NewSeq(p) <= -(3 * Max) /\ NewSeq(p) < 0
        BY <1>3, <1>4, <1>8, <2>1, <2>2, <4>1, Sizes
      <4>3. NewSeq(p) \in Int /\ ~(NewSeq(p) > -(3 * Max)) /\ ~(NewSeq(p) > Max) /\ NewSeq(p) \notin 1 .. Max
            /\ NewSeq(p) # 0
        BY <1>3, <1>5, <1>8, <2>1, <4>2, Sizes
      <4>4. ASSUME NEW i \in Slots PROVE seq[i] # Seq16(p)
        <5>1. seq[i] \in Nat /\ (seq[i] <= MaxErrors \/ seq[i] >= Start)
          BY <1>3, TypedFacts DEF OrdInv, LivesInv
        <5>2. Origin' + p > MaxErrors /\ Origin' + p < Start
          BY <1>3, <1>4, <4>1, Sizes
        <5> QED
          BY <1>7, <5>1, <5>2, Sizes
      <4>5. ~Stale(p) /\ ~InSequence(p) /\ ~Overrun(p) /\ ~Early(p)
        BY <1>10, <4>3, <4>4 DEF Stale, InSequence, Overrun, Early
      <4> QED
        BY <4>5 DEF Receive, ReceiveNext, ReceiveStale, ReceiveOverrun, ReceiveEarly
    <3> QED
      BY <1>3, <3>1, <3>2
  <2>4. /\ HandOut(p) /\ Reset(p) /\ isFirst' = isFirst
    BY <2>3 DEF ReceiveOverrun, ReceiveUnderrun
  <2>5. /\ first' = 0 /\ seq' = [seq EXCEPT ![0] = Origin' + p + 1] /\ held' = Emptied
        /\ dropped' = dropped \cup ({held[i] : i \in Slots} \ {None})
    BY <1>7, <2>4 DEF Reset
  <2>6. seq'[first'] = Origin' + p + 1 /\ \A i \in Slots : held'[i] = None
    BY <1>8, <2>5 DEF Emptied
  <2>7. dropped' \subseteq dropped \cup Came
    BY <2>5 DEF OrdInv, HeldInv
  <2> QED
    BY <1>1, <1>4, <1>5, <1>6, <1>10, <2>4, <2>6, <2>7
<1> QED
  BY <1>9, <1>10

LEMMA RenewedOrdered ==
  ASSUME Steady, Typed, Typed', OrdInv, NEW p \in Stream, Receive(p), Renewed(p)
  PROVE  OrdInv'
<1>1. /\ HandOut(p) /\ Arrive(p) /\ (\A i \in Slots : held'[i] = None) /\ isFirst' = FALSE
      /\ Restarted' /\ seq'[first'] = Origin' + p + 1
      /\ \A q \in Came : q < Restart
  BY RenewedIs
<1>2. /\ p \in Nat /\ Restart \in Nat /\ jump # 0 /\ p >= Restart /\ Stream \subseteq Nat
  BY TypedFacts, Sizes DEF Renewed
<1>3. p \in Came' /\ Pending' \subseteq Pending /\ \A q \in Pending : Before(q) => Before(p)
  <2>1. p \notin Came
    BY <1>1, <1>2
  <2> QED
    BY <1>1, <2>1, ArriveCame
<1>4. out # <<>> => out[Len(out)] < p
  <2>1. out # <<>> => out[Len(out)] \in Nat /\ out[Len(out)] < Restart
    BY <1>1, LastIs, TypedFacts
  <2> QED
    BY <1>2, <2>1
<1>5. EmptyInv' /\ HeldInv' /\ LastInv' /\ RoomInv' /\ Ordered'
  BY <1>1, <1>3, <1>4, ResetOrdered DEF OrdInv
<1>6. LivesInv'
  <2>1. ~Before(p)
    BY <1>2 DEF Before
  <2>2. \A q \in Pending : ~Before(q) /\ q \in Nat
    BY <1>2, <1>3, <2>1 DEF Pending
  <2>3. \A q \in Pending : q >= Restart
    BY <1>2, <2>2 DEF Before
  <2> QED
    BY <1>1, <1>3, <2>3 DEF LivesInv
<1> QED
  BY <1>5, <1>6 DEF OrdInv

\* The number expected is still within the bound when a packet is not handed out.
LEMMA RoomGrows ==
  ASSUME Steady, Typed, Typed', RoomInv, Origin' = Origin, NEW p \in Stream, Arrive(p),
         seq'[first'] = seq[first], tries' = tries + 1
  PROVE  RoomInv'
<1>1. errors' = errors /\ Cardinality(gone') + dups' >= Cardinality(gone) + dups + 1
  BY ArriveCounts
<1>2. /\ Cardinality(gone) \in Nat /\ Cardinality(gone') \in Nat /\ dups \in Nat /\ dups' \in Nat
      /\ Origin \in Nat /\ errors \in Nat /\ seq[first] \in Nat /\ tries \in Nat
  <2>1. gone \in SUBSET Stream /\ gone' \in SUBSET Stream
    BY DEF Typed, NetworkType
  <2>2. Cardinality(gone) \in Nat /\ Cardinality(gone') \in Nat
    BY <2>1, PartCounts
  <2>3. dups \in Nat /\ dups' \in Nat /\ errors \in Nat
    BY Sizes DEF Typed, NetworkType
  <2>4. seq[first] \in Nat /\ tries \in Nat
    BY TypedFacts
  <2>5. Origin \in Nat
    BY OriginIs
  <2> QED
    BY <2>2, <2>3, <2>4, <2>5
<1> QED
  BY <1>1, <1>2, Sizes DEF RoomInv

LEMMA StaleOrdered ==
  ASSUME Steady, Typed, Typed', OrdInv, NEW p \in Stream, ReceiveStale(p), Usual(p)
  PROVE  OrdInv'
<1>1. /\ Arrive(p) /\ tries' = tries + 1 /\ held' = held /\ seq' = seq /\ first' = first
      /\ isFirst' = isFirst /\ out' = out /\ ~isFirst /\ Origin' = Origin /\ Restarted' = Restarted
  BY DEF ReceiveStale, Underrun, InSequence, ring, Usual
<1>2. Came' = Came \cup {p} /\ Pending' \subseteq Pending
  BY <1>1, ArriveCame
<1>3. RoomInv'
  BY <1>1, RoomGrows DEF OrdInv
<1>4. EmptyInv' /\ HeldInv' /\ LastInv' /\ Ordered'
  BY <1>1, <1>2 DEF OrdInv, EmptyInv, HeldInv, LastInv, Ordered, Ahead
<1>5. LivesInv'
  BY <1>1, <1>2, LivesKept DEF OrdInv
<1> QED
  BY <1>3, <1>4, <1>5 DEF OrdInv

LEMMA EarlyOrdered ==
  ASSUME Steady, Typed, Typed', OrdInv, NEW p \in Stream, ReceiveEarly(p), NewSeq(p) # Max, Usual(p)
  PROVE  OrdInv'
<1> DEFINE i == SlotFor(p)
<1>1. /\ Arrive(p) /\ tries' = tries + 1 /\ ~isFirst /\ isFirst' = isFirst /\ out' = out
      /\ first' = first /\ held' = [held EXCEPT ![i] = p] /\ seq' = [seq EXCEPT ![i] = Origin + p]
      /\ NewSeq(p) \in 1 .. Max /\ Origin' = Origin /\ Restarted' = Restarted
  BY DEF ReceiveEarly, Early, InSequence, Usual
<1>2. first \in Slots /\ i \in Slots /\ Ahead(i) = NewSeq(p) /\ NewSeq(p) > 0 /\ Ahead(first) = 0
  BY <1>1, Sizes, SlotForIs, TypedFacts DEF Typed
<1> HIDE DEF i
<1>3. i # first /\ seq'[first'] = seq[first]
  BY <1>1, <1>2 DEF Typed, RingType
<1>4. /\ Origin + p = seq[first] + Ahead(i) /\ p \in Nat /\ Origin \in Nat
      /\ Came' = Came \cup {p} /\ Pending' \subseteq Pending
  <2>1. Seq16(p) = Origin + p /\ Seq16(p) - seq[first] = Ahead(i)
    BY <1>2 DEF Usual, NewSeq
  <2>2. p \in Nat /\ Origin \in Nat /\ seq[first] \in Nat
    BY TypedFacts, OriginIs
  <2> QED
    BY <1>1, <1>2, <2>1, <2>2, ArriveCame
<1>5. HeldInv'
  <2>1. ASSUME NEW j \in Slots, held'[j] # None
        PROVE  /\ held'[j] \in Came'
               /\ seq'[j] = Origin' + held'[j] /\ seq'[j] = seq'[first'] + (Ahead(j))'
    <3>1. (Ahead(j))' = Ahead(j)
      BY <1>1 DEF Ahead
    <3>2. CASE j = i
      BY <1>1, <1>2, <1>3, <1>4, <3>1, <3>2 DEF Typed, RingType
    <3>3. CASE j # i
      BY <1>1, <1>3, <1>4, <2>1, <3>1, <3>3 DEF Typed, RingType, OrdInv, HeldInv
    <3> QED
      BY <3>2, <3>3
  <2> QED
    BY <2>1 DEF HeldInv
<1>6. RoomInv'
  BY <1>1, <1>3, RoomGrows DEF OrdInv
<1>7. EmptyInv' /\ LastInv' /\ Ordered'
  BY <1>1, <1>3, <1>4 DEF OrdInv, EmptyInv, LastInv, Ordered
<1>8. LivesInv'
  <2>1. ~Restarted => Origin + p >= Start
    BY <1>4, Sizes DEF Origin
  <2>2. \A k \in Slots : seq'[k] = seq[k] \/ seq'[k] = Origin + p
    BY <1>1 DEF Typed, RingType
  <2> QED
    BY <1>1, <1>4, <2>1, <2>2, LivesKept DEF OrdInv
<1> QED
  BY <1>5, <1>6, <1>7, <1>8 DEF OrdInv

LEMMA TakeOrdered ==
  ASSUME Steady, Typed, Typed', OrdInv, TakeHeld
  PROVE  OrdInv'
<1> DEFINE i == Found
<1>1. /\ i \in Slots
      /\ held[i] = None => i = first /\ \A k \in Slots : held[k] = None
      /\ held[i] # None => \A j \in Slots : held[j] # None => Ahead(i) <= Ahead(j)
  BY FoundIs DEF Typed
<1>2. /\ held' = [held EXCEPT ![i] = None] /\ first' = NextSlot(i)
      /\ seq' = [seq EXCEPT ![NextSlot(i)] = (seq[i] + 1) % Mod]
      /\ held[i] # None => HandOut(held[i])
      /\ held[i] = None => tries' = 0 /\ out' = out
      /\ isFirst' = isFirst /\ gone' = gone /\ errors' = errors /\ dups' = dups
      /\ Came' = Came /\ Pending' = Pending /\ jump' = jump
      /\ pc = "get" /\ ~Receiving
  BY DEF TakeHeld, SeqAfter, network, Came, Pending
<1> HIDE DEF i
<1>3. /\ first \in Slots /\ NextSlot(i) \in Slots /\ seq \in [Slots -> 0 .. Mod - 1]
      /\ held \in [Slots -> Stream \cup {None}]
  BY <1>1, NextSlotIs DEF Typed, RingType
<1>4. Restarted' = Restarted /\ Origin' = Origin /\ Origin \in Nat
  BY <1>2, SeriesSame, OriginIs
<1>5. CASE held[i] # None
  <2> DEFINE p == held[i]
  <2>1. /\ p \in Stream /\ HandOut(p) /\ p \in Came /\ ~isFirst
        /\ seq[i] = Origin + p /\ seq[i] = seq[first] + Ahead(i)
    BY <1>1, <1>2, <1>3, <1>5 DEF OrdInv, HeldInv, EmptyInv
  <2> HIDE DEF p
  <2>2. (seq[i] + 1) % Mod = Origin + p + 1
    BY <2>1, NoWrap DEF OrdInv
  <2>3. seq'[first'] = Origin + p + 1
    BY <1>2, <1>3, <2>2
  <2>4. HeldInv'
    <3>1. seq' = [seq EXCEPT ![NextSlot(i)] = seq[first] + Ahead(i) + 1]
      <4>1. (seq[i] + 1) % Mod = seq[first] + Ahead(i) + 1
        BY <2>1, <2>2
      <4> QED
        BY <1>2, <4>1
    <3>2. ASSUME NEW j \in Slots, held'[j] # None
          PROVE  held'[j] = held[j] /\ Ahead(j) > Ahead(i)
      <4>1. j # i /\ held'[j] = held[j] /\ held[j] # None
        BY <1>1, <1>2, <1>3, <3>2
      <4>2. /\ Ahead(j) = Distance(first, j) /\ Ahead(i) = Distance(first, i)
            /\ Ahead(j) \in Nat /\ Ahead(i) \in Nat
        BY <1>1, <1>3, AheadIs
      <4>3. Ahead(i) # Ahead(j)
        BY <1>1, <1>3, <4>1, <4>2, DistanceFrom
      <4>4. Ahead(i) <= Ahead(j)
        BY <1>1, <1>5, <4>1
      <4> QED
        BY <4>1, <4>2, <4>3, <4>4
    <3>3. HeldInv /\ Came \subseteq Came'
      BY <1>2 DEF OrdInv
    <3> QED
      BY <1>1, <1>2, <1>4, <3>1, <3>2, <3>3, Advance
  <2>5. out # <<>> => out[Len(out)] < p
    <3>1. Ahead(i) \in Nat /\ p \in Nat
      BY <1>1, <1>3, <2>1, AheadIs, TypedFacts
    <3>2. seq[first] <= Origin + p
      BY <2>1, <3>1, <1>3, TypedFacts
    <3> QED
      BY <2>1, <1>3, <1>4, <3>1, <3>2, LastIs, TypedFacts
  <2>6. EmptyInv'
    BY <1>2, <2>1 DEF EmptyInv
  <2>7. LivesInv'
    <3>1. ~Restarted => Origin + p + 1 >= Start
      BY <1>4, <2>1, TypedFacts, Sizes DEF Origin
    <3>2. \A k \in Slots : seq'[k] = seq[k] \/ seq'[k] = Origin + p + 1
      BY <1>2, <1>3, <2>2
    <3> QED
      BY <1>2, <1>4, <3>1, <3>2, LivesKept DEF OrdInv
  <2>8. LastInv' /\ RoomInv' /\ Ordered'
    BY <1>2, <1>4, <2>1, <2>3, <2>5, HandsOut DEF OrdInv
  <2> QED
    BY <2>4, <2>6, <2>7, <2>8 DEF OrdInv
<1>6. CASE held[i] = None
  <2>1. i = first /\ (\A k \in Slots : held[k] = None) /\ tries' = 0 /\ out' = out
    BY <1>1, <1>2, <1>6
  <2>2. tries = MaxTries /\ tries > 0
    <3>1. held[first] = None
      BY <1>3, <2>1
    <3>2. ~(tries < MaxTries)
      BY <1>2, <3>1 DEF Receiving
    <3> QED
      BY <3>2, TypedFacts, Sizes
  <2>3. seq'[first'] = seq[first] + 1 /\ seq[first] \in Nat
    <3>1. (seq[first] + 1) % Mod = seq[first] + 1
      BY <2>2, NoWrap DEF OrdInv
    <3> QED
      BY <1>2, <1>3, <2>1, <3>1, TypedFacts
  <2>4. /\ \A k \in Slots : held'[k] = None
        /\ \A k \in Slots : seq'[k] = seq[k] \/ (seq'[k] = seq[first] + 1 /\ seq[first] + 1 = seq'[first'])
    BY <1>1, <1>2, <1>3, <2>1, <2>3
  <2>5. HeldInv'
    BY <2>4 DEF HeldInv
  <2>6. EmptyInv'
    <3>1. isFirst => seq[first] + 1 <= errors /\ errors \in Nat
      BY <2>2, <2>3, GoneCounts, TypedFacts DEF OrdInv, EmptyInv, Typed
    <3> QED
      BY <1>2, <2>1, <2>3, <2>4, <3>1 DEF OrdInv, EmptyInv
  <2>7. LastInv'
    <3>1. out # <<>> => Origin + out[Len(out)] < seq[first] + 1
      BY <1>4, <2>3, LastIs, TypedFacts
    <3> QED
      BY <1>2, <1>4, <2>1, <2>3, <3>1 DEF OrdInv, LastInv
  <2>8. RoomInv' /\ Ordered'
    <3>1. Cardinality(gone) \in Nat /\ errors \in Nat /\ dups \in Nat
      BY GoneCounts DEF Typed
    <3>2. seq[first] + 1 + 0 <= Origin + Packets + errors + dups + Cardinality(gone)
      BY <1>4, <2>2, <2>3, <3>1, TypedFacts, Sizes DEF OrdInv, RoomInv
    <3> QED
      BY <1>2, <1>4, <2>1, <2>3, <3>2 DEF OrdInv, RoomInv, Ordered
  <2>9. LivesInv'
    <3>1. ~Restarted => seq[first] + 1 <= MaxErrors \/ seq[first] + 1 >= Start
      <4>1. CASE isFirst
        BY <2>2, <2>3, <4>1, GoneCounts, TypedFacts, Sizes DEF OrdInv, EmptyInv, Typed
      <4>2. CASE ~isFirst
        <5>1. out[Len(out)] \in Nat /\ Origin + out[Len(out)] < seq[first]
          BY <4>2, TypedFacts DEF OrdInv, LastInv
        <5> QED
          BY <2>3, <5>1, Sizes DEF Origin
      <4> QED
        BY <4>1, <4>2
    <3> QED
      BY <1>2, <1>4, <2>4, <3>1, LivesKept DEF OrdInv
  <2> QED
    BY <2>5, <2>6, <2>7, <2>8, <2>9 DEF OrdInv
<1> QED
  BY <1>5, <1>6

LEMMA SumGrows ==
  ASSUME NEW n \in Nat, NEW r \in Nat, NEW u \in Nat, NEW c \in Nat, NEW d \in Nat,
         NEW t \in Nat, NEW t1 \in Nat, NEW e \in Nat, NEW e1 \in Nat,
         n + t <= r + e + u + c, t1 + e <= t + e1, c <= d
  PROVE  n + t1 <= r + e1 + u + d
OBVIOUS

LEMMA TriesGrow ==
  ASSUME NEW n \in Nat, NEW t \in Nat, NEW t1 \in Nat, NEW e \in Nat, NEW e1 \in Nat,
         n + t <= e, t1 + e <= t + e1
  PROVE  n + t1 <= e1
OBVIOUS

LEMMA OthersOrdered ==
  ASSUME Steady, Typed, Typed', OrdInv,
         Read \/ ReceiveNothing \/ (\E p \in Stream : Lose(p)) \/ UNCHANGED vars
  PROVE  OrdInv'
<1>1. /\ held' = held /\ seq' = seq /\ first' = first /\ isFirst' = isFirst /\ out' = out
      /\ gone \subseteq gone' /\ dups' = dups /\ jump' = jump
      /\ tries' + errors <= tries + errors' /\ errors' \in Nat /\ errors <= errors'
      /\ Came' = Came /\ Pending' \subseteq Pending
  <2>1. tries \in Nat /\ errors \in Nat
    BY TypedFacts, GoneCounts DEF Typed
  <2>2. CASE Read
    BY <2>1, <2>2 DEF Read, ring, network, Came, Pending
  <2>3. CASE ReceiveNothing
    BY <2>1, <2>3 DEF ReceiveNothing, ring, Came, Pending
  <2>4. CASE \E p \in Stream : Lose(p)
    BY <2>1, <2>4 DEF Lose, InReach, ring, Came, Pending
  <2>5. CASE UNCHANGED vars
    BY <2>1, <2>5 DEF vars, ring, network, Came, Pending
  <2> QED
    BY <2>2, <2>3, <2>4, <2>5
<1>2. Restarted' = Restarted /\ Origin' = Origin /\ Origin \in Nat
  BY <1>1, SeriesSame, OriginIs
<1>4. HeldInv' /\ LastInv' /\ Ordered' /\ LivesInv'
  BY <1>1, <1>2, LivesKept DEF OrdInv, HeldInv, LastInv, Ordered, Ahead
<1>5. EmptyInv'
  <2>1. /\ tries \in Nat /\ tries' \in Nat /\ errors \in Nat /\ \A i \in Slots : seq[i] \in Nat
        /\ first \in Slots
    BY TypedFacts, GoneCounts, Sizes DEF Typed, CallType
  <2>2. ASSUME isFirst, seq[first] + tries <= errors, \A i \in Slots : seq[i] <= errors
        PROVE  seq[first] + tries' <= errors' /\ \A i \in Slots : seq[i] <= errors'
    <3>1. errors <= errors'
      BY <1>1
    <3>2. seq[first] \in Nat
      BY <2>1
    <3>3. seq[first] + tries' <= errors'
      <4> DEFINE n == seq[first]
      <4>1. /\ n \in Nat /\ tries \in Nat /\ tries' \in Nat /\ errors \in Nat /\ errors' \in Nat
            /\ n + tries <= errors /\ tries' + errors <= tries + errors'
        BY <1>1, <2>1, <2>2
      <4> HIDE DEF n
      <4>2. n + tries' <= errors'
        BY <4>1, TriesGrow
      <4> QED
        BY <4>2 DEF n
    <3> QED
      BY <1>1, <2>1, <2>2, <3>1, <3>3
  <2> QED
    BY <1>1, <2>2 DEF OrdInv, EmptyInv
<1>3. RoomInv'
  <2>1. gone \in SUBSET Stream /\ gone' \in SUBSET Stream
    BY DEF Typed, NetworkType
  <2>2. Cardinality(gone) <= Cardinality(gone')
    BY <1>1, <2>1, PartCounts, FS_Subset
  <2>3. /\ Cardinality(gone) \in Nat /\ Cardinality(gone') \in Nat /\ errors \in Nat /\ dups \in Nat
        /\ seq[first] \in Nat /\ tries \in Nat /\ tries' \in Nat
    BY <2>1, PartCounts, GoneCounts, TypedFacts, Sizes DEF Typed, CallType
  <2>4. seq'[first'] = seq[first] /\ Origin' = Origin
    BY <1>1, <1>2
  <2>5. tries' \in Nat /\ dups' = dups /\ errors' \in Nat /\ tries' + errors <= tries + errors'
    BY <1>1, <2>3
  <2>6. seq[first] + tries <= Origin + Packets + errors + dups + Cardinality(gone)
    BY DEF OrdInv, RoomInv
  <2>7. seq'[first'] + tries' <= Origin' + Packets + errors' + dups' + Cardinality(gone')
    <3>1. Origin + Packets \in Nat /\ dups \in Nat
      BY <1>2, <2>3, Sizes
    <3> QED
      BY <2>2, <2>3, <2>4, <2>5, <2>6, <3>1, SumGrows
  <2> QED
    BY <2>7 DEF RoomInv
<1> QED
  BY <1>3, <1>4, <1>5 DEF OrdInv

LEMMA Arrives == ASSUME NEW p \in Stream, Receive(p) PROVE Arrive(p)
BY DEF Receive, ReceiveNext, ReceiveOverrun, ReceiveStale, ReceiveUnderrun, ReceiveEarly

LEMMA OrderedStep == Steady /\ Typed /\ Typed' /\ OrdInv /\ [Next]_vars /\ [Within]_vars => OrdInv'
<1> SUFFICES ASSUME Steady, Typed, Typed', OrdInv, [Next]_vars, [Within]_vars PROVE OrdInv'
  OBVIOUS
<1>1. ASSUME NEW p \in Stream, Receive(p), Within PROVE OrdInv'
  <2>1. (ReceiveUnderrun(p) => Renewed(p)) /\ (ReceiveEarly(p) => NewSeq(p) # Max)
    BY <1>1 DEF Within
  <2>2. CASE Renewed(p)
    BY <1>1, <2>2, RenewedOrdered
  <2>3. CASE ~Renewed(p)
    <3>1. Usual(p)
      BY <1>1, <2>3, Arrives, RenewedOrUsual DEF OrdInv
    <3> QED
      BY <1>1, <2>1, <2>3, <3>1, NextOrdered, OverrunOrdered, StaleOrdered, EarlyOrdered DEF Receive
  <2> QED
    BY <2>2, <2>3
<1> QED
  BY <1>1, TakeOrdered, OthersOrdered DEF Next, Step

LEMMA OrderedInit == Steady /\ Init => OrdInv
<1> SUFFICES ASSUME Steady, Init PROVE OrdInv
  OBVIOUS
<1>1. Typed
  BY TypedInit
<1>2. first \in Slots /\ seq[first] = 0 /\ tries = 0 /\ errors = 0 /\ dups = 0
  <2>1. first \in Slots
    BY <1>1, TypedFacts
  <2> QED
    BY <2>1 DEF Init
<1>3. EmptyInv /\ HeldInv /\ LastInv /\ Ordered
  BY <1>2 DEF Init, EmptyInv, HeldInv, LastInv, Ordered, Came
<1>4. RoomInv
  BY <1>1, <1>2, GoneCounts, OriginIs, Sizes DEF Typed, RoomInv
<1>5. LivesInv
  BY Sizes DEF Init, LivesInv, Restarted, Came
<1> QED
  BY <1>3, <1>4, <1>5 DEF OrdInv

\* "Get rtp packets reordered" (rtp.c:38): the player sees the packets in the
\* order they were sent, each at most once, however the network delays, repeats
\* or loses them and across a restart of the server, while its numbers stay short
\* of 2^16, a restart goes far, and no other packet is taken for a restart from
\* far behind or comes exactly Max ahead (rtp.c:115-127, 152).
THEOREM OrderKept == Steady => (Spec /\ [][Within]_vars => []Ordered)
<1> SUFFICES ASSUME Steady PROVE Spec /\ [][Within]_vars => []Ordered
  OBVIOUS
<1>1. Init => OrdInv
  BY OrderedInit
<1>2. Typed /\ Typed' /\ OrdInv /\ [Next]_vars /\ [Within]_vars => OrdInv'
  BY OrderedStep
<1>3. OrdInv => Ordered
  BY DEF OrdInv
<1>4. Spec => []Typed
  BY AlwaysTyped
<1> QED
  BY <1>1, <1>2, <1>3, <1>4, PTL DEF Spec

-----------------------------------------------------------------------------
(* No packet is dropped. *)

\* Reordering, repeats and failed receives together do not exhaust the patience
\* of rtp_get_next: fewer than Spread packets overtake the one it waits for, and
\* fewer than Spread are older than the first of all.
Spare == 2 * (Spread - 1) + MaxDups + MaxErrors < MaxTries

\* Besides, no packet but the first after a restart makes the ring start anew.
Near == Within /\ \A p \in Stream : ReceiveOverrun(p) => Renewed(p)

InRing == {held[i] : i \in Slots} \ {None}
Life == IF Restarted THEN {p \in Stream : p >= Restart} ELSE Stream

\* Packets of this life that came after b though they are older.
Old(b) == {p \in Came \cap Life : p < b}

\* With b, the first packet of this life that was handed out: what has come is in
\* the ring, or was handed out, or is older than b ...
Placed(b) == \A p \in Came \cap Life : p \in Arrived \/ p < b
\* ... what may still come and is not older is not behind the number expected ...
Expected(b) == \A q \in Pending : q < b \/ seq[first] <= Origin + q
\* ... b overtook fewer than Spread others ...
Recent(b) == \A p \in Life \ lost : b < p + Spread
\* ... and each receive of this call left a trace.
Traces(b) == tries <= Cardinality(InRing) + Cardinality(Old(b)) + dups + errors

Going(b) ==
  /\ \E k \in 1 .. Len(out) : out[k] = b
  /\ jump = 0 => b = out[1]
  /\ Placed(b) /\ Expected(b) /\ Recent(b) /\ Traces(b)

Overtaken == \A p \in Came, q \in Pending : p < q + Spread

DropInv ==
  /\ dropped \subseteq Came /\ Overtaken
  /\ ~isFirst => \E b \in Stream : Going(b)

LEMMA Counts ==
  ASSUME Typed, NEW b
  PROVE  /\ IsFiniteSet(InRing) /\ Cardinality(InRing) \in Nat /\ InRing \in SUBSET Stream
         /\ IsFiniteSet(Old(b)) /\ Cardinality(Old(b)) \in Nat /\ Old(b) \in SUBSET Stream
         /\ tries \in Nat /\ dups \in Nat /\ errors \in Nat /\ seq[first] \in Nat
<1>1. InRing \in SUBSET Stream /\ Old(b) \in SUBSET Stream
  BY DEF InRing, Old, Came, Typed, RingType, NetworkType
<1> QED
  BY <1>1, PartCounts, TypedFacts, GoneCounts DEF Typed

LEMMA CountsAfter ==
  ASSUME Typed', NEW b
  PROVE  /\ IsFiniteSet(InRing') /\ Cardinality(InRing') \in Nat
         /\ IsFiniteSet(Old(b)') /\ Cardinality(Old(b)') \in Nat
         /\ tries' \in Nat /\ dups' \in Nat /\ errors' \in Nat
<1>1. InRing' \in SUBSET Stream /\ Old(b)' \in SUBSET Stream
  BY DEF InRing, Old, Came, Typed, RingType, NetworkType
<1> QED
  BY <1>1, PartCounts, Sizes DEF Typed, CallType, NetworkType

LEMMA InBetween ==
  ASSUME NEW a \in Int, NEW n \in Nat, n > 0, NEW S \in SUBSET Stream, \A x \in S : a < x /\ x < a + n
  PROVE  Cardinality(S) <= n - 1
<1> DEFINE c == a + 1
           d == a + n - 1
<1>1. S \subseteq c .. d
  BY Sizes DEF Stream
<1>2. c \in Int /\ d \in Int /\ d - c + 1 = n - 1 /\ (c > d => n - 1 = 0)
  OBVIOUS
<1> HIDE DEF c, d
<1>3. IsFiniteSet(c .. d) /\ Cardinality(c .. d) = n - 1
  BY <1>2, FS_Interval
<1> QED
  BY <1>1, <1>3, FS_Subset

\* What comes is fewer than Spread ahead of what is still to come.
LEMMA StillOvertaken ==
  ASSUME Typed, Overtaken, NEW p \in Stream, Arrive(p)
  PROVE  Overtaken'
BY ArriveCame DEF Overtaken

\* When the ring gives up waiting, no packet it skips may still come.
LEMMA NoneMissed ==
  ASSUME Spare, Typed, HeldInv, LivesInv, Overtaken, NEW b \in Stream, Going(b),
         pc = "get", ~Receiving, held[first] = None, NEW q \in Pending, \A x \in InRing : q < x
  PROVE  q < b
<1> SUFFICES ASSUME ~(q < b) PROVE FALSE
  OBVIOUS
<1>1. tries = MaxTries
  BY TypedFacts, Sizes DEF Receiving
<1>2. q \in Stream /\ q \in Nat /\ b \in Nat /\ Spread \in Nat /\ Spread > 0 /\ MaxTries \in Nat
  BY Sizes, RtpAssumption DEF Pending, Stream
<1>0. /\ Cardinality(InRing) \in Nat /\ InRing \in SUBSET Stream
      /\ Cardinality(Old(b)) \in Nat /\ Old(b) \in SUBSET Stream
      /\ dups \in Nat /\ errors \in Nat
  BY Counts
<1>3. Cardinality(InRing) <= Spread - 1
  <2>1. InRing \subseteq Came
    BY DEF InRing, HeldInv
  <2>2. \A x \in InRing : q < x /\ x < q + Spread
    BY <2>1 DEF Overtaken
  <2>3. q \in Int /\ Spread \in Nat /\ Spread > 0 /\ InRing \in SUBSET Stream
    BY <1>0, <1>2
  <2> QED
    BY <2>2, <2>3, InBetween
<1>4. Cardinality(Old(b)) <= Spread - 1
  <2> DEFINE a == b - Spread
  <2>1. \A x \in Old(b) : x \in Nat /\ x < b /\ b < x + Spread
    <3>1. \A x \in Old(b) : x \in Life \ lost /\ x < b
      BY DEF Old, Came
    <3>2. \A x \in Life \ lost : b < x + Spread
      BY DEF Going, Recent
    <3>3. \A x \in Old(b) : x \in Nat
      BY <1>0, TypedFacts
    <3> QED
      BY <3>1, <3>2, <3>3
  <2>2. a \in Int /\ \A x \in Old(b) : a < x /\ x < a + Spread
    BY <1>2, <2>1
  <2> HIDE DEF a
  <2> QED
    BY <1>0, <1>2, <2>2, InBetween
<1>5. tries <= Cardinality(InRing) + Cardinality(Old(b)) + dups + errors
  BY DEF Going, Traces
<1>6. dups <= MaxDups /\ errors <= MaxErrors
  BY GoneCounts DEF Typed
<1> QED
  BY <1>0, <1>1, <1>2, <1>3, <1>4, <1>5, <1>6, Sizes DEF Spare

\* Nothing comes, and the ring stays as it is.
LEMMA DropsSame ==
  ASSUME Typed, Typed', DropInv, Came' = Came, out' = out, held' = held, isFirst' = isFirst,
         dropped' = dropped, dups' = dups, jump' = jump, Pending' \subseteq Pending, lost \subseteq lost',
         seq'[first'] = seq[first],
         tries' = 0 \/ (tries' = tries /\ errors' = errors) \/ (tries' = tries + 1 /\ errors' = errors + 1),
         errors' \in Nat
  PROVE  DropInv'
<1>1. /\ InRing' = InRing /\ Arrived' = Arrived /\ Restarted' = Restarted /\ Origin' = Origin
      /\ Life' = Life
  BY SeriesSame DEF InRing, Arrived, Life
<1>2. (dropped \subseteq Came)' /\ Overtaken'
  BY DEF DropInv, Overtaken
<1>3. ASSUME NEW b \in Stream, Going(b) PROVE Going(b)'
  <2>1. Old(b)' = Old(b)
    BY <1>1 DEF Old
  <2>2. Placed(b)' /\ Expected(b)' /\ Recent(b)'
    BY <1>1, <1>3 DEF Going, Placed, Expected, Recent
  <2>3. tries' <= Cardinality(InRing) + Cardinality(Old(b)) + dups + errors'
    <3>1. tries <= Cardinality(InRing) + Cardinality(Old(b)) + dups + errors
      BY <1>3 DEF Going, Traces
    <3> QED
      BY <3>1, Counts
  <2> QED
    BY <1>1, <1>3, <2>1, <2>2, <2>3 DEF Going, Traces
<1> QED
  BY <1>2, <1>3 DEF DropInv

LEMMA OthersDrop ==
  ASSUME Typed, Typed', DropInv,
         Read \/ ReceiveNothing \/ (\E p \in Stream : Lose(p)) \/ UNCHANGED vars
  PROVE  DropInv'
<1>1. errors \in Nat /\ errors' \in Nat
  BY Sizes DEF Typed, NetworkType
<1>2. CASE Read
  BY <1>1, <1>2, DropsSame DEF Read, ring, network, Came, Pending
<1>3. CASE ReceiveNothing
  BY <1>1, <1>3, DropsSame DEF ReceiveNothing, ring, Came, Pending
<1>4. ASSUME NEW p \in Stream, Lose(p) PROVE DropInv'
  <2>1. p \in Pending /\ gone' = gone \cup {p} /\ lost' = lost \cup {p}
    BY <1>4 DEF Lose, InReach
  <2>2. Came' = Came /\ Pending' \subseteq Pending
    BY <2>1 DEF Came, Pending
  <2> QED
    BY <1>1, <1>4, <2>1, <2>2, DropsSame DEF Lose, ring
<1>5. CASE UNCHANGED vars
  BY <1>1, <1>5, DropsSame DEF vars, ring, network, Came, Pending
<1> QED
  BY <1>2, <1>3, <1>4, <1>5

\* The first packet of a life is handed out: nothing of that life had come.
LEMMA LifeBegins ==
  ASSUME Steady, Typed, Typed', Overtaken, dropped' \subseteq Came', NEW p \in Stream, Arrive(p), HandOut(p),
         seq'[first'] = Origin' + p + 1, p \in Life', Came \cap Life' = {},
         jump = 0 => out = <<>>
  PROVE  DropInv'
<1>1. /\ Came' = Came \cup {p} /\ lost' = lost /\ jump' = jump /\ Pending' \subseteq Pending
      /\ p \notin Pending' /\ p \notin Came
      /\ \A q \in Pending : p < q + Spread
  <2>1. p \notin Came
    OBVIOUS
  <2> QED
    BY <2>1, ArriveCame
<1>2. /\ p \in Nat /\ Stream \subseteq Nat /\ Origin' \in Nat /\ Spread \in Nat /\ Spread > 0
      /\ out \in Seq(Stream) /\ out' = Append(out, p) /\ tries' = 0
  BY TypedFacts, OriginAfter, RtpAssumption DEF HandOut
<1>3. (\E k \in 1 .. Len(out) : out[k] = p)' /\ (jump = 0 => p = out[1])'
  <2>1. Len(out') = Len(out) + 1 /\ out'[Len(out) + 1] = p /\ Len(out) \in Nat
    BY <1>2
  <2>2. Len(out') \in 1 .. Len(out') /\ out'[Len(out')] = p
    BY <2>1
  <2>3. out = <<>> => Len(out') = 1
    BY <2>1
  <2> QED
    BY <1>1, <2>2, <2>3
<1>4. p \in Arrived'
  BY <1>3 DEF Arrived
<1>5. Came' \cap Life' = {p}
  BY <1>1
<1>6. Placed(p)'
  BY <1>4, <1>5 DEF Placed
<1>7. Expected(p)'
  <2> DEFINE o == Origin'
  <2>1. o \in Nat /\ seq'[first'] = o + p + 1
    BY <1>2
  <2> HIDE DEF o
  <2>2. ASSUME NEW q \in Pending' PROVE q < p \/ seq'[first'] <= o + q
    <3>1. q \in Nat /\ q # p /\ p \in Nat
      BY <1>1, <1>2, <2>2 DEF Pending
    <3>2. q < p \/ o + p + 1 <= o + q
      BY <2>1, <3>1
    <3> QED
      BY <2>1, <3>2
  <2> QED
    BY <2>2 DEF Expected, o
<1>8. Recent(p)'
  <2>1. ASSUME NEW q \in Life' \ lost' PROVE p < q + Spread
    <3>1. q \in Stream /\ (q \in gone => q \in Came) /\ q \notin lost
      BY <1>1, <2>1 DEF Life, Came
    <3>2. CASE q \in Pending
      BY <1>1, <3>2
    <3>3. CASE q \notin Pending
      <4>1. q \in Came
        BY <3>1, <3>3 DEF Pending
      <4>2. q = p
        BY <1>1, <2>1, <4>1
      <4> QED
        BY <1>2, <4>2
    <3> QED
      BY <3>2, <3>3
  <2> QED
    BY <2>1 DEF Recent
<1>9. Traces(p)'
  <2>1. Cardinality(InRing') \in Nat /\ Cardinality(Old(p)') \in Nat /\ dups' \in Nat /\ errors' \in Nat
    BY CountsAfter
  <2>2. 0 <= Cardinality(InRing') + Cardinality(Old(p)') + dups' + errors'
    BY <2>1
  <2> QED
    BY <1>2, <2>2 DEF Traces
<1>10. Going(p)'
  BY <1>3, <1>6, <1>7, <1>8, <1>9 DEF Going
<1>11. Overtaken'
  BY StillOvertaken
<1> QED
  BY <1>10, <1>11 DEF DropInv

\* A packet that arrives and is handed out: the first of all, or the one expected.
LEMMA NextDrops ==
  ASSUME Steady, Typed, Typed', OrdInv, DropInv, NEW p \in Stream, ReceiveNext(p), Usual(p)
  PROVE  DropInv'
<1>1. /\ Arrive(p) /\ InSequence(p) /\ held' = held /\ dropped' = dropped
      /\ HandOut(p) /\ out' = Append(out, p) /\ tries' = 0 /\ first' = NextSlot(first)
      /\ seq' = [seq EXCEPT ![NextSlot(first)] = Origin + p + 1]
      /\ Origin' = Origin /\ Restarted' = Restarted
  BY DEF ReceiveNext, HandOut, Usual
<1>2. /\ Came' = Came \cup {p} /\ lost' = lost /\ jump' = jump /\ Pending' \subseteq Pending
      /\ p \notin Pending' /\ Overtaken'
  BY <1>1, ArriveCame, StillOvertaken DEF DropInv
<1>3. InRing' = InRing /\ dropped' \subseteq Came' /\ Life' = Life
  BY <1>1, <1>2 DEF DropInv, InRing, Life
<1>4. /\ first \in Slots /\ NextSlot(first) \in Slots /\ out \in Seq(Stream) /\ p \in Nat
      /\ seq \in [Slots -> 0 .. Mod - 1] /\ Stream \subseteq Nat /\ Origin \in Nat
  BY TypedFacts, NextSlotIs, OriginIs DEF Typed, RingType
<1>5. seq'[first'] = Origin + p + 1
  BY <1>1, <1>4
<1>6. CASE isFirst
  <2>1. out = <<>> /\ Came = {}
    BY <1>6 DEF OrdInv, EmptyInv
  <2>2. p \in Life'
    BY <1>1 DEF Life, Usual
  <2>3. Overtaken /\ Came \cap Life' = {} /\ seq'[first'] = Origin' + p + 1
    BY <1>1, <1>5, <2>1 DEF DropInv
  <2> QED
    BY <1>1, <1>3, <2>1, <2>2, <2>3, LifeBegins
<1>7. CASE ~isFirst
  <2>1. PICK b \in Stream : Going(b)
    BY <1>7 DEF DropInv
  <2>2. /\ Arrived' = Arrived \cup {p} /\ (\E k \in 1 .. Len(out) : out[k] = b)'
        /\ (jump = 0 => b = out[1])'
    <3>1. Len(out') = Len(out) + 1 /\ Len(out) \in Nat
          /\ \A k \in 1 .. Len(out') : out'[k] = IF k = Len(out') THEN p ELSE out[k]
      BY <1>1, <1>4
    <3>2. {out'[k] : k \in 1 .. Len(out')} = {out[k] : k \in 1 .. Len(out)} \cup {p}
      BY <1>4, <3>1
    <3>3. PICK k \in 1 .. Len(out) : out[k] = b
      BY <2>1 DEF Going
    <3>4. k \in 1 .. Len(out') /\ k # Len(out') /\ 1 \in 1 .. Len(out') /\ 1 # Len(out')
      BY <3>1, <3>3
    <3>5. out'[k] = b /\ out'[1] = out[1]
      BY <3>1, <3>3, <3>4
    <3> QED
      BY <1>2, <1>3, <2>1, <3>2, <3>4, <3>5 DEF Arrived, InRing, Going
  <2>3. seq[first] = Origin + p
    <3>1. Seq16(p) = Origin + p
      BY DEF Usual
    <3>2. Seq16(p) - seq[first] = 0
      BY <1>1, <1>7 DEF InSequence, NewSeq
    <3> QED
      BY <1>4, <3>1, <3>2, TypedFacts
  <2>4. Placed(b)' /\ Recent(b)'
    BY <1>2, <1>3, <2>1, <2>2 DEF Going, Placed, Recent
  <2>5. Expected(b)'
    <3>1. ASSUME NEW q \in Pending' PROVE q < b \/ Origin + p + 1 <= Origin + q
      <4>1. q \in Nat /\ q # p /\ q \in Pending
        BY <1>2, <1>4, <3>1 DEF Pending
      <4>2. q < b \/ Origin + p <= Origin + q
        BY <2>1, <2>3, <4>1 DEF Going, Expected
      <4> QED
        BY <1>4, <4>1, <4>2
    <3> QED
      BY <1>1, <1>5, <3>1 DEF Expected
  <2>6. Traces(b)'
    <3>1. Cardinality(InRing') \in Nat /\ Cardinality(Old(b)') \in Nat /\ dups' \in Nat /\ errors' \in Nat
      BY CountsAfter
    <3>2. 0 <= Cardinality(InRing') + Cardinality(Old(b)') + dups' + errors'
      BY <3>1
    <3> QED
      BY <1>1, <3>2 DEF Traces
  <2> QED
    BY <1>2, <1>3, <2>2, <2>4, <2>5, <2>6 DEF DropInv, Going
<1> QED
  BY <1>6, <1>7

LEMMA RenewedDrops ==
  ASSUME Steady, Typed, Typed', OrdInv, DropInv, NEW p \in Stream, Receive(p), Renewed(p)
  PROVE  DropInv'
<1>1. /\ HandOut(p) /\ Arrive(p) /\ Restarted' /\ seq'[first'] = Origin' + p + 1
      /\ \A q \in Came : q < Restart
      /\ dropped' \subseteq dropped \cup Came
  BY RenewedIs
<1>2. Came' = Came \cup {p}
  BY <1>1, ArriveCame
<1>3. dropped' \subseteq Came' /\ Overtaken
  BY <1>1, <1>2 DEF DropInv
<1>4. Life' = {q \in Stream : q >= Restart}
  BY <1>1 DEF Life
<1>5. p \in Life' /\ jump # 0
  BY <1>4 DEF Renewed
<1>6. Came \cap Life' = {}
  <2>1. ASSUME NEW q \in Came, q \in Life' PROVE FALSE
    <3>1. q \in Nat /\ Restart \in Nat /\ q < Restart /\ q >= Restart
      BY <1>1, <1>4, <2>1, Sizes, TypedFacts
    <3> QED
      BY <3>1
  <2> QED
    BY <2>1
<1> QED
  BY <1>1, <1>3, <1>5, <1>6, LifeBegins

\* A packet behind the number expected that is new here is older than the first.
LEMMA StaleDrops ==
  ASSUME Steady, Typed, Typed', OrdInv, DropInv, NEW p \in Stream, ReceiveStale(p), Usual(p)
  PROVE  DropInv'
<1>1. /\ Arrive(p) /\ ~isFirst /\ NewSeq(p) < 0 /\ tries' = tries + 1 /\ dropped' = dropped \cup {p}
      /\ held' = held /\ seq' = seq /\ first' = first /\ isFirst' = isFirst /\ out' = out
      /\ Origin' = Origin /\ Restarted' = Restarted
  BY DEF ReceiveStale, Underrun, InSequence, ring, Usual
<1>2. /\ Came' = Came \cup {p} /\ lost' = lost /\ errors' = errors /\ jump' = jump
      /\ Pending' \subseteq Pending /\ Overtaken'
      /\ \/ p \in Pending /\ p \notin Came /\ dups' = dups
         \/ p \in Came /\ Came' = Came /\ dups' = dups + 1
  BY <1>1, ArriveCame, StillOvertaken DEF DropInv
<1>3. InRing' = InRing /\ Arrived' = Arrived /\ dropped' \subseteq Came' /\ Life' = Life
  BY <1>1, <1>2 DEF DropInv, InRing, Arrived, Life
<1>4. PICK b \in Stream : Going(b)
  BY <1>1 DEF DropInv
<1>5. /\ Cardinality(InRing) \in Nat /\ Cardinality(Old(b)) \in Nat /\ IsFiniteSet(Old(b))
      /\ dups \in Nat /\ errors \in Nat /\ tries \in Nat
  BY Counts
<1>6. p \in Pending => p < b
  <2>1. Seq16(p) = Origin + p
    BY DEF Usual
  <2>2. Origin \in Nat /\ p \in Nat /\ seq[first] \in Nat
    BY OriginIs, TypedFacts
  <2>3. ~(seq[first] <= Origin + p)
    BY <1>1, <2>1, <2>2 DEF NewSeq
  <2> QED
    BY <1>4, <2>3 DEF Going, Expected
<1>7. Placed(b)' /\ Expected(b)' /\ Recent(b)'
  BY <1>1, <1>2, <1>3, <1>4, <1>6 DEF Going, Placed, Expected, Recent
<1>8. Traces(b)'
  <2>1. Cardinality(Old(b)') + dups' = Cardinality(Old(b)) + dups + 1
    <3>1. CASE p \in Pending /\ p \notin Came /\ dups' = dups
      <4>1. p \in Life
        BY <1>1 DEF Life, Usual
      <4>2. Old(b)' = Old(b) \cup {p} /\ p \notin Old(b)
        BY <1>2, <1>3, <1>6, <3>1, <4>1 DEF Old
      <4>3. Cardinality(Old(b) \cup {p}) = Cardinality(Old(b)) + 1
        BY <1>5, <4>2, FS_AddElement
      <4> QED
        BY <1>5, <3>1, <4>2, <4>3
    <3>2. CASE p \in Came /\ Came' = Came /\ dups' = dups + 1
      <4>1. Old(b)' = Old(b)
        BY <1>3, <3>2 DEF Old
      <4> QED
        BY <1>5, <3>2, <4>1
    <3> QED
      BY <1>2, <3>1, <3>2
  <2>2. tries' <= Cardinality(InRing') + Cardinality(Old(b)') + dups' + errors'
    <3>1. Cardinality(Old(b)') \in Nat /\ dups' \in Nat
      BY CountsAfter
    <3>2. tries <= Cardinality(InRing) + Cardinality(Old(b)) + dups + errors
      BY <1>4 DEF Going, Traces
    <3>3. Cardinality(InRing') = Cardinality(InRing) /\ tries' = tries + 1 /\ errors' = errors
      BY <1>1, <1>2, <1>3
    <3> QED
      BY <1>5, <2>1, <3>1, <3>2, <3>3
  <2> QED
    BY <2>2 DEF Traces
<1> QED
  BY <1>1, <1>2, <1>3, <1>4, <1>7, <1>8 DEF DropInv, Going

\* An early packet that is new takes one slot more.
LEMMA EarlyDrops ==
  ASSUME Steady, Typed, Typed', OrdInv, DropInv, NEW p \in Stream, ReceiveEarly(p), NewSeq(p) # Max,
         Usual(p)
  PROVE  DropInv'
<1> DEFINE i == SlotFor(p)
<1>1. /\ Arrive(p) /\ tries' = tries + 1 /\ ~isFirst /\ isFirst' = isFirst /\ out' = out
      /\ first' = first /\ held' = [held EXCEPT ![i] = p] /\ seq' = [seq EXCEPT ![i] = Origin + p]
      /\ dropped' = dropped /\ NewSeq(p) \in 1 .. Max /\ Origin' = Origin /\ Restarted' = Restarted
  BY DEF ReceiveEarly, Early, InSequence, Usual
<1>2. first \in Slots /\ i \in Slots /\ Ahead(i) = NewSeq(p) /\ NewSeq(p) > 0 /\ Ahead(first) = 0
  BY <1>1, Sizes, SlotForIs, TypedFacts DEF Typed
<1> HIDE DEF i
<1>3. i # first /\ seq'[first'] = seq[first]
  BY <1>1, <1>2 DEF Typed, RingType
<1>4. held[i] # None => held[i] = p
  <2>1. Seq16(p) = Origin + p /\ Seq16(p) - seq[first] = Ahead(i)
    BY <1>2 DEF Usual, NewSeq
  <2>2. held[i] # None => seq[i] = Origin + held[i] /\ seq[i] = seq[first] + Ahead(i)
    BY <1>2 DEF OrdInv, HeldInv
  <2>3. held[i] # None => held[i] \in Nat
    BY <1>2, TypedFacts
  <2>4. p \in Nat /\ seq[first] \in Nat /\ Ahead(i) \in Int /\ Origin \in Nat
    BY <1>2, TypedFacts, SlotForIs, OriginIs DEF Typed
  <2>5. ASSUME held[i] # None PROVE held[i] = p
    <3> DEFINE h == held[i]
               n == seq[first]
               a == Ahead(i)
    <3>1. /\ h \in Nat /\ n \in Nat /\ a \in Int /\ p \in Nat /\ Origin \in Nat
          /\ Origin + p - n = a /\ Origin + h = n + a
      BY <2>1, <2>2, <2>3, <2>4, <2>5
    <3> HIDE DEF h, n, a
    <3>2. h = p
      BY <3>1
    <3> QED
      BY <3>2 DEF h
  <2> QED
    BY <2>5
<1>5. /\ Came' = Came \cup {p} /\ lost' = lost /\ errors' = errors /\ jump' = jump
      /\ Pending' \subseteq Pending /\ Overtaken'
      /\ \/ p \in Pending /\ p \notin Came /\ dups' = dups
         \/ p \in Came /\ Came' = Came /\ dups' = dups + 1
  BY <1>1, ArriveCame, StillOvertaken DEF DropInv
<1>6. p # None
  BY Seq16Is DEF Typed, NetworkType
<1>7. InRing' = InRing \cup {p}
  <2>1. held \in [Slots -> Stream \cup {None}]
    BY DEF Typed, RingType
  <2>2. \A k \in Slots : held'[k] = IF k = i THEN p ELSE held[k]
    BY <1>1, <2>1
  <2>3. \A x : x \in InRing' <=> x # None /\ \E k \in Slots : held'[k] = x
    BY DEF InRing
  <2>4. \A x : x \in InRing <=> x # None /\ \E k \in Slots : held[k] = x
    BY DEF InRing
  <2>5. ASSUME NEW x, x \in InRing' PROVE x \in InRing \cup {p}
    BY <2>2, <2>3, <2>4, <2>5
  <2>6. ASSUME NEW x, x \in InRing \cup {p} PROVE x \in InRing'
    <3>1. CASE x = p
      BY <1>2, <1>6, <2>2, <2>3, <3>1
    <3>2. CASE x # p
      <4>1. PICK k \in Slots : x # None /\ held[k] = x
        BY <2>4, <2>6, <3>2
      <4>2. k # i
        BY <1>4, <3>2, <4>1
      <4> QED
        BY <2>2, <2>3, <4>1, <4>2
    <3> QED
      BY <3>1, <3>2
  <2> QED
    BY <2>5, <2>6
<1>8. Arrived' = Arrived \cup {p} /\ dropped' \subseteq Came' /\ Life' = Life
  BY <1>1, <1>5, <1>7 DEF DropInv, InRing, Arrived, Life
<1>9. PICK b \in Stream : Going(b)
  BY <1>1 DEF DropInv
<1>10. Placed(b)' /\ Expected(b)' /\ Recent(b)'
  BY <1>1, <1>3, <1>5, <1>8, <1>9 DEF Going, Placed, Expected, Recent
<1>11. Traces(b)'
  <2>0. /\ Cardinality(InRing) \in Nat /\ Cardinality(Old(b)) \in Nat /\ IsFiniteSet(InRing)
        /\ dups \in Nat /\ errors \in Nat /\ tries \in Nat
        /\ Cardinality(Old(b)') \in Nat /\ dups' \in Nat /\ Cardinality(InRing') \in Nat
        /\ IsFiniteSet(InRing') /\ IsFiniteSet(Old(b)')
    BY Counts, CountsAfter
  <2>1. Cardinality(InRing') + dups' >= Cardinality(InRing) + dups + 1
    <3>1. CASE p \in Pending /\ p \notin Came /\ dups' = dups
      <4>1. p \notin InRing
        BY <3>1 DEF OrdInv, HeldInv, InRing
      <4>2. Cardinality(InRing \cup {p}) = Cardinality(InRing) + 1
        BY <2>0, <4>1, FS_AddElement
      <4> QED
        BY <1>7, <2>0, <3>1, <4>2
    <3>2. CASE p \in Came /\ Came' = Came /\ dups' = dups + 1
      <4>1. InRing \subseteq InRing'
        BY <1>7
      <4>2. Cardinality(InRing) <= Cardinality(InRing')
        BY <2>0, <4>1, FS_Subset
      <4> QED
        BY <2>0, <3>2, <4>2
    <3> QED
      BY <1>5, <3>1, <3>2
  <2>2. Cardinality(Old(b)) <= Cardinality(Old(b)')
    <3>1. Old(b) \subseteq Old(b)'
      BY <1>5, <1>8 DEF Old
    <3> QED
      BY <2>0, <3>1, FS_Subset
  <2>3. tries' <= Cardinality(InRing') + Cardinality(Old(b)') + dups' + errors'
    <3>1. tries <= Cardinality(InRing) + Cardinality(Old(b)) + dups + errors
      BY <1>9 DEF Going, Traces
    <3>2. tries' = tries + 1 /\ errors' = errors
      BY <1>1, <1>5
    <3> QED
      BY <2>0, <2>1, <2>2, <3>1, <3>2
  <2> QED
    BY <2>3 DEF Traces
<1> QED
  BY <1>1, <1>5, <1>8, <1>9, <1>10, <1>11 DEF DropInv, Going

\* What the ring hands out is handed out, whatever was is still.
LEMMA TakenArrived ==
  ASSUME Typed, out # <<>>, NEW i \in Slots, held' = [held EXCEPT ![i] = None],
         held[i] # None => out' = Append(out, held[i]),
         held[i] = None => out' = out
  PROVE  /\ out' # <<>> /\ out'[1] = out[1] /\ Arrived \subseteq Arrived' /\ Len(out) <= Len(out')
         /\ \A k \in 1 .. Len(out) : out'[k] = out[k]
<1>1. held \in [Slots -> Stream \cup {None}] /\ out \in Seq(Stream)
  BY DEF Typed, RingType, CallType
<1>2. \A k \in Slots : held'[k] = IF k = i THEN None ELSE held[k]
  BY <1>1
<1>3. CASE held[i] = None
  <2>1. held' = held
    BY <1>1, <1>3
  <2>2. Len(out) \in Nat
    BY <1>1
  <2> QED
    BY <1>3, <2>1, <2>2 DEF Arrived
<1>4. CASE held[i] # None
  <2>1. /\ Len(out') = Len(out) + 1 /\ Len(out) \in Nat /\ out'[Len(out) + 1] = held[i]
        /\ \A k \in 1 .. Len(out) : out'[k] = out[k]
    BY <1>1, <1>2, <1>4
  <2>2. Len(out) >= 1
    BY <1>1
  <2>3. ASSUME NEW x \in Arrived PROVE x \in Arrived'
    <3>1. CASE \E k \in 1 .. Len(out) : x = out[k]
      BY <2>1, <3>1 DEF Arrived
    <3>2. ASSUME NEW k \in Slots, x = held[k], x # None PROVE x \in Arrived'
      <4>1. CASE k = i
        <5>1. x = out'[Len(out')] /\ Len(out') \in 1 .. Len(out')
          BY <2>1, <3>2, <4>1
        <5> QED
          BY <5>1 DEF Arrived
      <4>2. CASE k # i
        BY <1>2, <3>2, <4>2 DEF Arrived
      <4> QED
        BY <4>1, <4>2
    <3> QED
      BY <3>1, <3>2 DEF Arrived
  <2>4. out' # <<>> /\ out'[1] = out[1]
    BY <2>1, <2>2
  <2> QED
    BY <2>1, <2>3, <2>4
<1> QED
  BY <1>3, <1>4

\* The nearest packet is handed out, or the number expected is given up: nothing
\* that may still come is skipped.
LEMMA TakeDrops ==
  ASSUME Steady, Spare, Typed, Typed', OrdInv, DropInv, TakeHeld
  PROVE  DropInv'
<1> DEFINE i == Found
<1>1. /\ i \in Slots
      /\ held[i] = None => i = first /\ \A k \in Slots : held[k] = None
      /\ held[i] # None => \A j \in Slots : held[j] # None => Ahead(i) <= Ahead(j)
  BY FoundIs DEF Typed
<1>2. /\ held' = [held EXCEPT ![i] = None] /\ first' = NextSlot(i)
      /\ seq' = [seq EXCEPT ![NextSlot(i)] = (seq[i] + 1) % Mod]
      /\ held[i] # None => out' = Append(out, held[i])
      /\ held[i] = None => out' = out
      /\ tries' = 0 /\ isFirst' = isFirst /\ gone' = gone /\ jump' = jump
      /\ lost' = lost /\ dropped' = dropped
      /\ pc = "get" /\ ~Receiving
  BY DEF TakeHeld, SeqAfter, network, HandOut
<1> HIDE DEF i
<1>3. /\ first \in Slots /\ NextSlot(i) \in Slots /\ seq \in [Slots -> 0 .. Mod - 1]
      /\ held \in [Slots -> Stream \cup {None}] /\ out \in Seq(Stream) /\ Origin \in Nat
  BY <1>1, NextSlotIs, TypedFacts, OriginIs DEF Typed, RingType
<1>4. Came' = Came /\ Pending' = Pending /\ Overtaken'
  BY <1>2 DEF Came, Pending, Overtaken, DropInv
<1>5. Restarted' = Restarted /\ Origin' = Origin /\ Life' = Life /\ dropped' \subseteq Came'
  BY <1>2, <1>4, SeriesSame DEF Life, DropInv
<1>6. CASE isFirst
  BY <1>2, <1>4, <1>5, <1>6 DEF DropInv
<1>7. CASE ~isFirst
  <2>1. PICK b \in Stream : Going(b)
    BY <1>7 DEF DropInv
  <2>2. /\ out' # <<>> /\ out'[1] = out[1] /\ Arrived \subseteq Arrived'
        /\ (\E k \in 1 .. Len(out) : out[k] = b)'
    <3>1. out # <<>>
      BY <1>7 DEF OrdInv, LastInv
    <3>2. /\ out' # <<>> /\ out'[1] = out[1] /\ Arrived \subseteq Arrived' /\ Len(out) <= Len(out')
          /\ \A k \in 1 .. Len(out) : out'[k] = out[k]
      BY <1>1, <1>2, <3>1, TakenArrived
    <3>3. PICK k \in 1 .. Len(out) : out[k] = b
      BY <2>1 DEF Going
    <3>4. Len(out) \in Nat /\ Len(out') \in Nat
      BY <1>3 DEF Typed, CallType
    <3>5. k \in 1 .. Len(out')
      BY <3>2, <3>4
    <3> QED
      BY <3>2, <3>3, <3>5
  <2>3. Placed(b)' /\ Recent(b)'
    BY <1>2, <1>4, <1>5, <2>1, <2>2 DEF Going, Placed, Recent
  <2>4. ASSUME NEW q \in Pending PROVE q < b \/ seq'[first'] <= Origin + q
    <3>1. SUFFICES ASSUME ~(q < b) PROVE seq'[first'] <= Origin + q
      OBVIOUS
    <3>2. q \in Nat /\ q \notin Came /\ seq[first] <= Origin + q
      BY <2>1, <3>1, TypedFacts DEF Pending, Came, Going, Expected
    <3>3. Overtaken /\ HeldInv /\ LivesInv
      BY DEF DropInv, OrdInv
    <3>4. CASE held[i] = None
      <4>1. held[first] = None /\ InRing = {}
        BY <1>1, <3>4 DEF InRing
      <4> QED
        BY <1>2, <2>1, <3>1, <3>3, <4>1, NoneMissed
    <3>5. CASE held[i] # None
      <4> DEFINE p == held[i]
      <4>1. p \in Stream /\ p \in Came /\ seq[i] = Origin + p /\ seq[i] = seq[first] + Ahead(i)
        BY <1>1, <1>3, <3>5 DEF OrdInv, HeldInv
      <4> HIDE DEF p
      <4>2. seq'[first'] = Origin + p + 1
        <5>1. (Origin + p + 1) % Mod = Origin + p + 1
          BY <4>1, NoWrap DEF OrdInv
        <5> QED
          BY <1>2, <1>3, <4>1, <5>1
      <4>3. p \in Nat /\ p # q /\ seq[first] \in Nat /\ Ahead(i) \in Nat
        BY <1>1, <1>3, <3>2, <4>1, TypedFacts, AheadIs
      <4>4. CASE p < q
        BY <1>3, <3>2, <4>2, <4>3, <4>4
      <4>5. CASE q < p
        <5>1. ASSUME NEW k \in Slots, held[k] # None PROVE q < held[k]
          <6>1. /\ held[k] \in Nat /\ Origin + held[k] = seq[first] + Ahead(k)
                /\ Ahead(i) <= Ahead(k) /\ Ahead(k) \in Nat
            BY <1>1, <1>3, <3>5, <5>1, TypedFacts, AheadIs DEF OrdInv, HeldInv
          <6> QED
            BY SMTT(30), <1>3, <3>2, <4>1, <4>3, <4>5, <6>1
        <5>2. held[first] = None
          <6>1. SUFFICES ASSUME held[first] # None PROVE FALSE
            OBVIOUS
          <6>2. /\ held[first] \in Nat /\ Origin + held[first] = seq[first] + Ahead(first)
                /\ Ahead(first) = 0
            BY <1>3, <6>1, TypedFacts DEF OrdInv, HeldInv
          <6>3. q < held[first]
            BY <1>3, <5>1, <6>1
          <6> QED
            BY <1>3, <3>2, <4>3, <6>2, <6>3
        <5>3. \A x \in InRing : q < x
          BY <5>1 DEF InRing
        <5> QED
          BY <1>2, <2>1, <3>1, <3>3, <5>2, <5>3, NoneMissed
      <4> QED
        BY <3>2, <4>3, <4>4, <4>5
    <3> QED
      BY <3>4, <3>5
  <2>5. Expected(b)'
    BY <1>4, <1>5, <2>4 DEF Expected
  <2>6. Traces(b)'
    <3>1. Cardinality(InRing') \in Nat /\ Cardinality(Old(b)') \in Nat /\ dups' \in Nat /\ errors' \in Nat
      BY CountsAfter
    <3>2. 0 <= Cardinality(InRing') + Cardinality(Old(b)') + dups' + errors'
      BY <3>1
    <3> QED
      BY <1>2, <3>2 DEF Traces
  <2>7. (jump = 0 => b = out[1])'
    BY <1>2, <2>1, <2>2 DEF Going
  <2> QED
    BY <1>4, <1>5, <2>2, <2>3, <2>5, <2>6, <2>7 DEF DropInv, Going
<1> QED
  BY <1>6, <1>7

LEMMA DropsStep ==
  Steady /\ Spare /\ Typed /\ Typed' /\ OrdInv /\ DropInv /\ [Next]_vars /\ [Near]_vars => DropInv'
<1> SUFFICES ASSUME Steady, Spare, Typed, Typed', OrdInv, DropInv, [Next]_vars, [Near]_vars
             PROVE  DropInv'
  OBVIOUS
<1>1. ASSUME NEW p \in Stream, Receive(p), Near PROVE DropInv'
  <2>1. /\ ReceiveUnderrun(p) => Renewed(p)
        /\ ReceiveOverrun(p) => Renewed(p)
        /\ ReceiveEarly(p) => NewSeq(p) # Max
    BY <1>1 DEF Near, Within
  <2>2. CASE Renewed(p)
    BY <1>1, <2>2, RenewedDrops
  <2>3. CASE ~Renewed(p)
    <3>1. Usual(p)
      BY <1>1, <2>3, Arrives, RenewedOrUsual DEF OrdInv
    <3> QED
      BY <1>1, <2>1, <2>3, <3>1, NextDrops, StaleDrops, EarlyDrops DEF Receive
  <2> QED
    BY <2>2, <2>3
<1> QED
  BY <1>1, TakeDrops, OthersDrop DEF Next, Step

LEMMA DropsInit == Init => DropInv
  BY DEF Init, DropInv, Overtaken, Came

LEMMA DropsNone == Typed /\ OrdInv /\ DropInv => NothingDropped /\ Resumes
<1> SUFFICES ASSUME Typed, OrdInv, DropInv, NEW p \in dropped
             PROVE  /\ jump = 0 => p \in Arrived \/ p < out[1]
                    /\ jump # 0 => p < Restart \/ p \in Arrived \/ \E k \in 1 .. Len(out) : out[k] > p
  BY DEF NothingDropped, Resumes
<1>1. p \in Came /\ p \in Stream
  BY DEF DropInv, Came, Typed, NetworkType
<1>2. ~isFirst
  BY <1>1 DEF OrdInv, EmptyInv
<1>3. PICK b \in Stream : Going(b)
  BY <1>2 DEF DropInv
<1>4. CASE jump = 0
  <2>1. p \in Life
    BY <1>1, <1>4 DEF Life, Restarted
  <2> QED
    BY <1>1, <1>3, <1>4, <2>1 DEF Going, Placed
<1>5. CASE jump # 0 /\ ~(p < Restart)
  <2>1. p \in Nat /\ b \in Nat /\ Restart \in Nat
    BY <1>1, TypedFacts, Sizes
  <2>2. p \in Life
    BY <1>1, <1>5, <2>1 DEF Life
  <2>3. p \in Arrived \/ p < b
    BY <1>1, <1>3, <2>2 DEF Going, Placed
  <2>4. PICK k \in 1 .. Len(out) : out[k] = b
    BY <1>3 DEF Going
  <2>5. p < b => out[k] > p
    BY <2>1, <2>4
  <2> QED
    BY <1>5, <2>3, <2>5
<1> QED
  BY <1>4, <1>5

LEMMA AlwaysDropInv == Steady /\ Spare => (Spec /\ [][Near]_vars => [](Typed /\ OrdInv /\ DropInv))
<1> SUFFICES ASSUME Steady, Spare PROVE Spec /\ [][Near]_vars => [](Typed /\ OrdInv /\ DropInv)
  OBVIOUS
<1>1. Init => OrdInv /\ DropInv
  BY OrderedInit, DropsInit
<1>2. Typed /\ Typed' /\ OrdInv /\ DropInv /\ [Next]_vars /\ [Near]_vars => (OrdInv /\ DropInv)'
  <2>1. [Near]_vars => [Within]_vars
    BY DEF Near
  <2> QED
    BY <2>1, OrderedStep, DropsStep
<1>3. Spec => []Typed
  BY AlwaysTyped
<1> QED
  BY <1>1, <1>2, <1>3, PTL DEF Spec

\* Reordering and repeated packets alone lose nothing (rtp.c:35-38): while nothing
\* but a restart of the server makes the ring start anew, and the packets that
\* overtake another do not exhaust the receives of one rtp_get_next (rtp.c:84-176,
\* 196-211), a packet the ring refuses is one the player already has, or older
\* than the first it got.
THEOREM NoneDropped == Steady /\ Spare => (Spec /\ [][Near]_vars => []NothingDropped)
<1> SUFFICES ASSUME Steady, Spare PROVE Spec /\ [][Near]_vars => []NothingDropped
  OBVIOUS
<1>1. Spec /\ [][Near]_vars => [](Typed /\ OrdInv /\ DropInv)
  BY AlwaysDropInv
<1>2. Typed /\ OrdInv /\ DropInv => NothingDropped
  BY DropsNone
<1> QED
  BY <1>1, <1>2, PTL

\* "Restart everything" (rtp.c:133): under the same conditions no packet of a
\* server that has restarted is taken for an old one, except one that a later one
\* overtook (rtp.c:115-148).
THEOREM RestartResumes == Steady /\ Spare => (Spec /\ [][Near]_vars => []Resumes)
<1> SUFFICES ASSUME Steady, Spare PROVE Spec /\ [][Near]_vars => []Resumes
  OBVIOUS
<1>1. Spec /\ [][Near]_vars => [](Typed /\ OrdInv /\ DropInv)
  BY AlwaysDropInv
<1>2. Typed /\ OrdInv /\ DropInv => Resumes
  BY DropsNone
<1> QED
  BY <1>1, <1>2, PTL
=============================================================================
