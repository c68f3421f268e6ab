--------------------------- MODULE CmdQueue_proofs ---------------------------
(***************************************************************************)
(* Proofs about CmdQueue for a queue of any size, any number of commands   *)
(* and any kinds of them, up to the first Clash of the two tasks.          *)
(***************************************************************************)
EXTENDS CmdQueue, FiniteSetTheorems, TLAPS

LEMMA Sizes == Size \in Nat \ {0, 1} /\ MaxArexx \in Nat /\ MaxKeys \in Nat
  BY QueueAssumption

USE Sizes

Slots == 0 .. Size - 1
Queues == [slot : [Slots -> Command \cup {None}], start : Slots, end : Slots, length : 0 .. Size]

\* The command at place i of the queue, and where the next one goes.
Item(r, i) == r.slot[(r.start + i) % Size]
Ends(r) == r.end = (r.start + r.length) % Size
Places(r) == 0 .. r.length - 1

\* Queue r after k commands of the user and p of the script, of which s were
\* run and l dropped: each sender's commands are in order, and the script's are
\* those that were neither run nor dropped.
Kept(r, k, p, s, l) ==
  /\ r \in Queues
  /\ \A i \in Places(r) : Item(r, i) \in Command
  /\ \A i, j \in Places(r) : i < j /\ Item(r, i).from = Item(r, j).from => Item(r, i).n < Item(r, j).n
  /\ \A i \in Places(r) : Item(r, i).from = "key" => Item(r, i).n <= k
  /\ \A i \in Places(r) : Item(r, i).from = "arexx" =>
       /\ Item(r, i).n <= p /\ Item(r, i).n \notin l
       /\ \A m \in DOMAIN s : s[m] < Item(r, i).n
  /\ s \in Seq(1 .. MaxArexx)
  /\ \A m \in DOMAIN s : s[m] <= p /\ s[m] \notin l
  /\ \A i, j \in DOMAIN s : i < j => s[i] < s[j]
  /\ l \subseteq 1 .. p
  /\ \A m \in 1 .. p : \/ m \in l
                       \/ \E i \in DOMAIN s : s[i] = m
                       \/ \E i \in Places(r) : Item(r, i).from = "arexx" /\ Item(r, i).n = m

-----------------------------------------------------------------------------
(* The operations of the queue. *)

LEMMA Mod ==
  ASSUME NEW a \in Int
  PROVE  /\ a % Size \in Slots
         /\ 0 <= a /\ a < Size => a % Size = a
         /\ Size <= a /\ a < 2 * Size => a % Size = a - Size
<1>1. a % Size \in Int /\ 0 <= a % Size /\ a % Size < Size
  OBVIOUS
<1> QED
  BY <1>1 DEF Slots

LEMMA SlotIs ==
  ASSUME NEW a
  PROVE  a \in Slots <=> a \in Int /\ 0 <= a /\ a < Size
  BY DEF Slots

LEMMA IsCommand ==
  ASSUME NEW c \in Command
  PROVE  /\ c # None /\ c.from \in {"arexx", "key"} /\ c.n \in Nat \ {0}
         /\ c.from = "arexx" => c.n \in 1 .. MaxArexx /\ c.kind \in ArexxKinds
         /\ c.from = "key" => c.n \in 1 .. MaxKeys /\ c.kind \in KeyKinds
         /\ c.kind = "get" => c.from = "arexx"
<1>1. c # None
  BY NoneAssumption
<1>2. CASE c \in [from : {"arexx"}, n : 1 .. MaxArexx, kind : ArexxKinds]
  BY <1>1, <1>2
<1>3. CASE c \in [from : {"key"}, n : 1 .. MaxKeys, kind : KeyKinds]
  BY <1>1, <1>3, QueueAssumption
<1> QED
  BY <1>2, <1>3 DEF Command

LEMMA Cell ==
  ASSUME NEW start \in Slots, NEW i \in 0 .. Size - 1
  PROVE  (start + i) % Size = IF start + i < Size THEN start + i ELSE (start + i) - Size
<1> DEFINE a == start + i
<1>1. a \in Int /\ 0 <= a /\ a < 2 * Size
  BY SlotIs
<1> HIDE DEF a
<1>2. a % Size = IF a < Size THEN a ELSE a - Size
  BY <1>1, Mod
<1> QED
  BY <1>2 DEF a

\* Different places of the queue are different slots.
LEMMA Apart ==
  ASSUME NEW start \in Slots, NEW i \in 0 .. Size - 1, NEW j \in 0 .. Size - 1, i # j
  PROVE  (start + i) % Size # (start + j) % Size
<1>1. start \in Int /\ 0 <= start /\ start < Size
  BY SlotIs
<1>2. (start + i) % Size = IF start + i < Size THEN start + i ELSE (start + i) - Size
  BY Cell
<1>3. (start + j) % Size = IF start + j < Size THEN start + j ELSE (start + j) - Size
  BY Cell
<1> QED
  BY <1>1, <1>2, <1>3

\* One slot further on.
LEMMA Further ==
  ASSUME NEW a \in Int, 0 <= a, a < 2 * Size
  PROVE  ((a % Size) + 1) % Size = (a + 1) % Size
<1>1. CASE a < Size
  <2>1. a % Size = a
    BY <1>1, Mod
  <2> QED
    BY <2>1
<1>2. CASE Size <= a
  <2>1. a % Size = a - Size
    BY <1>2, Mod
  <2>2. CASE a + 1 = 2 * Size
    <3>1. (a + 1) % Size = 0 /\ (a - Size + 1) % Size = 0
      <4>1. a - Size + 1 = Size /\ a + 1 = 2 * Size
        BY <2>2
      <4>2. Size % Size = 0 /\ (2 * Size) % Size = 0
        OBVIOUS
      <4> QED
        BY <4>1, <4>2
    <3> QED
      BY <2>1, <3>1
  <2>3. CASE a + 1 < 2 * Size
    <3>1. (a + 1) % Size = a + 1 - Size
      <4>1. a + 1 \in Int /\ Size <= a + 1
        BY <1>2
      <4> QED
        BY <2>3, <4>1, Mod
    <3>2. (a - Size + 1) % Size = a - Size + 1
      <4>1. a - Size + 1 \in Int /\ 0 <= a - Size + 1 /\ a - Size + 1 < Size
        BY <1>2, <2>3
      <4> QED
        BY <4>1, Mod
    <3> QED
      BY <2>1, <3>1, <3>2
  <2> QED
    BY <2>2, <2>3
<1> QED
  BY <1>1, <1>2

LEMMA Enqueued ==
  ASSUME NEW r \in Queues, Ends(r), NEW c \in Command, ~Full(r)
  PROVE  LET e == Enqueue(r, c)
         IN  /\ e \in Queues /\ Ends(e) /\ e.length = r.length + 1
             /\ \A i \in Places(r) : Item(e, i) = Item(r, i)
             /\ Item(e, r.length) = c
<1> DEFINE e == Enqueue(r, c)
<1>1. r.length \in Int /\ 0 <= r.length /\ r.length < Size /\ r.start \in Slots /\ r.end \in Slots
      /\ r.slot \in [Slots -> Command \cup {None}]
  BY DEF Full, Queues
<1>2. e = [r EXCEPT !.slot[r.end] = c, !.end = (r.end + 1) % Size, !.length = @ + 1]
  BY DEF Enqueue
<1> HIDE DEF e
<1>3. /\ e.slot = [r.slot EXCEPT ![r.end] = c] /\ e.start = r.start
      /\ e.end = (r.end + 1) % Size /\ e.length = r.length + 1
  BY <1>2 DEF Queues
<1>4. (r.end + 1) % Size \in Slots
  <2>1. r.end + 1 \in Int
    BY <1>1, SlotIs
  <2> QED
    BY <2>1, Mod
<1>5. e.slot \in [Slots -> Command \cup {None}] /\ e.length \in 0 .. Size
  BY <1>1, <1>3
<1>6. e \in Queues
  BY <1>1, <1>2, <1>3, <1>4, <1>5 DEF Queues
<1>7. Ends(e)
  <2>1. r.start + r.length \in Int /\ 0 <= r.start + r.length /\ r.start + r.length < 2 * Size
    BY <1>1, SlotIs
  <2>2. r.start + (r.length + 1) = (r.start + r.length) + 1
    BY <1>1, SlotIs
  <2> QED
    BY <1>3, <2>1, <2>2, Further DEF Ends
<1>8. ASSUME NEW i \in Places(r)
      PROVE  Item(e, i) = Item(r, i)
  <2>1. i \in 0 .. Size - 1 /\ r.length \in 0 .. Size - 1 /\ i # r.length
    BY <1>1 DEF Places
  <2>2. (r.start + i) % Size # r.end
    BY <1>1, <2>1, Apart DEF Ends
  <2> QED
    BY <1>1, <1>3, <2>2 DEF Item
<1>9. Item(e, r.length) = c
  BY <1>1, <1>3 DEF Item, Ends
<1> QED
  BY <1>3, <1>6, <1>7, <1>8, <1>9 DEF e

LEMMA Dequeued ==
  ASSUME NEW r \in Queues, r.length > 0
  PROVE  LET d == Dequeue(r)
         IN  /\ d \in Queues /\ d.length = r.length - 1 /\ First(r) = Item(r, 0)
             /\ d.slot = r.slot /\ d.end = r.end
             /\ Ends(r) => Ends(d)
             /\ \A i \in Places(d) : Item(d, i) = Item(r, i + 1)
             /\ \A i \in 0 .. Size - 1 : (d.start + i) % Size = (r.start + (i + 1)) % Size
<1> DEFINE d == Dequeue(r)
<1>1. r.length \in Int /\ 0 < r.length /\ r.length <= Size /\ r.start \in Slots /\ r.end \in Slots
      /\ r.slot \in [Slots -> Command \cup {None}]
  BY DEF Queues
<1>2. d = [r EXCEPT !.length = @ - 1, !.start = (@ + 1) % Size]
  BY DEF Dequeue
<1> HIDE DEF d
<1>3. /\ d.slot = r.slot /\ d.start = (r.start + 1) % Size
      /\ d.end = r.end /\ d.length = r.length - 1
  BY <1>2 DEF Queues
<1>4. d \in Queues
  <2>1. (r.start + 1) % Size \in Slots
    <3>1. r.start + 1 \in Int
      BY <1>1, SlotIs
    <3> QED
      BY <3>1, Mod
  <2>2. r.length - 1 \in 0 .. Size
    BY <1>1
  <2> QED
    BY <1>1, <1>2, <2>1, <2>2 DEF Queues
<1>5. ASSUME NEW i \in 0 .. Size - 1
      PROVE  (d.start + i) % Size = (r.start + (i + 1)) % Size
  <2>0. r.start \in Int /\ 0 <= r.start /\ r.start < Size
    BY <1>1, SlotIs
  <2>1. CASE r.start + 1 = Size
    <3>1. d.start = 0
      <4>1. Size % Size = 0
        OBVIOUS
      <4> QED
        BY <1>3, <2>1, <4>1
    <3>2. i % Size = i /\ (r.start + (i + 1)) % Size = i
      <4>1. r.start + (i + 1) = Size + i /\ i \in Int /\ 0 <= i /\ i < Size
        BY <2>0, <2>1
      <4>2. Size + i \in Int /\ Size <= Size + i /\ Size + i < 2 * Size /\ (Size + i) - Size = i
        BY <4>1
      <4> QED
        BY <4>1, <4>2, Mod
    <3> QED
      BY <3>1, <3>2
  <2>2. CASE r.start + 1 < Size
    <3>1. d.start = r.start + 1
      <4>1. r.start + 1 \in Int /\ 0 <= r.start + 1
        BY <2>0
      <4> QED
        BY <1>3, <2>2, <4>1, Mod
    <3>2. (r.start + 1) + i = r.start + (i + 1)
      BY <2>0
    <3> QED
      BY <3>1, <3>2
  <2> QED
    BY <2>0, <2>1, <2>2
<1>6. ASSUME NEW i \in Places(d)
      PROVE  Item(d, i) = Item(r, i + 1)
  <2>1. i \in 0 .. Size - 1
    BY <1>1, <1>3 DEF Places
  <2> QED
    BY <1>3, <1>5, <2>1 DEF Item
<1>7. Ends(r) => Ends(d)
  <2>1. r.length - 1 \in 0 .. Size - 1 /\ (r.length - 1) + 1 = r.length
    BY <1>1
  <2>2. (d.start + d.length) % Size = (r.start + r.length) % Size
    BY <1>3, <1>5, <2>1
  <2> QED
    BY <1>3, <2>2 DEF Ends
<1>8. First(r) = Item(r, 0)
  <2>1. r.start + 0 = r.start /\ r.start % Size = r.start
    BY <1>1, Mod, SlotIs
  <2> QED
    BY <2>1 DEF First, Item
<1> QED
  BY <1>3, <1>4, <1>5, <1>6, <1>7, <1>8 DEF d

-----------------------------------------------------------------------------
(* What they make of the two senders' commands. *)

LEMMA KeptWaits ==
  ASSUME NEW k \in Nat, NEW r, NEW p, NEW s, NEW l, Kept(r, k, p, s, l)
  PROVE  Kept(r, k + 1, p, s, l)
<1>1. \A i \in Places(r) : Item(r, i).from = "key" => Item(r, i).n <= k + 1
  <2> SUFFICES ASSUME NEW i \in Places(r), Item(r, i).from = "key" PROVE Item(r, i).n <= k + 1
    OBVIOUS
  <2>1. Item(r, i).n \in Nat /\ Item(r, i).n <= k
    BY IsCommand DEF Kept
  <2> QED
    BY <2>1
<1> QED
  BY <1>1 DEF Kept

LEMMA KeptSame ==
  ASSUME NEW k, NEW p, NEW r, NEW s, NEW l, Kept(r, k, p, s, l), NEW e \in Queues,
         e.length = r.length, \A i \in Places(r) : Item(e, i) = Item(r, i)
  PROVE  Kept(e, k, p, s, l)
<1>1. Places(e) = Places(r)
  BY DEF Places
<1>2. /\ \A i \in Places(e) : Item(e, i) \in Command
      /\ \A i, j \in Places(e) : i < j /\ Item(e, i).from = Item(e, j).from => Item(e, i).n < Item(e, j).n
      /\ \A i \in Places(e) : Item(e, i).from = "key" => Item(e, i).n <= k
      /\ \A i \in Places(e) : Item(e, i).from = "arexx" =>
           Item(e, i).n <= p /\ Item(e, i).n \notin l /\ \A m \in DOMAIN s : s[m] < Item(e, i).n
  BY <1>1 DEF Kept
<1>3. \A m \in 1 .. p : \/ m \in l
                        \/ \E i \in DOMAIN s : s[i] = m
                        \/ \E i \in Places(e) : Item(e, i).from = "arexx" /\ Item(e, i).n = m
  BY <1>1 DEF Kept
<1> QED
  BY <1>2, <1>3 DEF Kept

\* A command of the script that never gets into the queue.
LEMMA KeptRefused ==
  ASSUME NEW k \in Nat, NEW p \in Nat, NEW r, NEW s, NEW l, Kept(r, k, p, s, l)
  PROVE  Kept(r, k, p + 1, s, l \cup {p + 1})
<1> DEFINE l2 == l \cup {p + 1}
<1>1. ASSUME NEW i \in Places(r), Item(r, i).from = "arexx"
      PROVE  Item(r, i).n <= p + 1 /\ Item(r, i).n \notin l2
  <2>1. Item(r, i).n \in Nat /\ Item(r, i).n <= p /\ Item(r, i).n \notin l
    BY <1>1, IsCommand DEF Kept
  <2> QED
    BY <2>1
<1>2. ASSUME NEW m \in DOMAIN s PROVE s[m] <= p + 1 /\ s[m] \notin l2
  <2>1. s \in Seq(1 .. MaxArexx) /\ s[m] <= p /\ s[m] \notin l
    BY DEF Kept
  <2>2. s[m] \in 1 .. MaxArexx
    BY <2>1
  <2> QED
    BY <2>1, <2>2
<1>3. l2 \subseteq 1 .. p + 1
  <2>1. l \subseteq 1 .. p
    BY DEF Kept
  <2> QED
    BY <2>1
<1>4. \A m \in 1 .. p + 1 : m \in 1 .. p \/ m \in l2
  OBVIOUS
<1>5. \A m \in 1 .. p + 1 : \/ m \in l2
                            \/ \E i \in DOMAIN s : s[i] = m
                            \/ \E i \in Places(r) : Item(r, i).from = "arexx" /\ Item(r, i).n = m
  BY <1>4 DEF Kept
<1> HIDE DEF l2
<1>6. Kept(r, k, p + 1, s, l2)
  BY <1>1, <1>2, <1>3, <1>5 DEF Kept
<1> QED
  BY <1>6 DEF l2

\* One command more at the end, of the user or of the script.
LEMMA KeptMore ==
  ASSUME NEW k \in Nat, NEW p \in Nat, NEW r, NEW s, NEW l, Kept(r, k, p, s, l),
         NEW k2 \in Nat, NEW p2 \in Nat, NEW c \in Command, NEW e \in Queues,
         \/ c.from = "key" /\ c.n = k + 1 /\ k2 = k + 1 /\ p2 = p
         \/ c.from = "arexx" /\ c.n = p + 1 /\ p2 = p + 1 /\ k2 = k,
         e.length = r.length + 1, Item(e, r.length) = c,
         \A i \in Places(r) : Item(e, i) = Item(r, i)
  PROVE  Kept(e, k2, p2, s, l)
<1>1. r.length \in Nat /\ Places(r) = 0 .. r.length - 1 /\ Places(e) = 0 .. r.length
  BY DEF Kept, Queues, Places
<1>2. \A i \in Places(e) : i \in Places(r) \/ i = r.length
  BY <1>1
<1>3. \A i \in Places(r) : /\ Item(e, i) = Item(r, i) /\ Item(r, i) \in Command
                           /\ Item(r, i).n \in Nat /\ Item(r, i).from \in {"arexx", "key"}
                           /\ Item(r, i).from = "key" => Item(r, i).n <= k
                           /\ Item(r, i).from = "arexx" => Item(r, i).n <= p
  BY IsCommand DEF Kept
<1>4. \A i \in Places(e) : Item(e, i) \in Command
  BY <1>2, <1>3
<1>5. \A i, j \in Places(e) : i < j /\ Item(e, i).from = Item(e, j).from => Item(e, i).n < Item(e, j).n
  <2> SUFFICES ASSUME NEW i \in Places(e), NEW j \in Places(e), i < j,
                      Item(e, i).from = Item(e, j).from
               PROVE  Item(e, i).n < Item(e, j).n
    OBVIOUS
  <2>1. i \in Places(r)
    BY <1>1, <1>2
  <2>2. CASE j \in Places(r)
    BY <1>3, <2>1, <2>2 DEF Kept
  <2>3. CASE j = r.length
    BY <1>3, <2>1, <2>3
  <2> QED
    BY <1>2, <2>2, <2>3
<1>6. \A i \in Places(e) : Item(e, i).from = "key" => Item(e, i).n <= k2
  BY <1>2, <1>3
<1>7. ASSUME NEW i \in Places(e), Item(e, i).from = "arexx"
      PROVE  /\ Item(e, i).n <= p2 /\ Item(e, i).n \notin l
             /\ \A m \in DOMAIN s : s[m] < Item(e, i).n
  <2>1. CASE i \in Places(r)
    <3>1. Item(e, i) = Item(r, i) /\ Item(r, i).n \in Nat /\ Item(r, i).n <= p
      BY <1>3, <1>7, <2>1
    <3>2. Item(r, i).n <= p2
      BY <3>1
    <3> QED
      BY <1>7, <2>1, <3>1, <3>2 DEF Kept
  <2>2. CASE i = r.length
    <3>1. Item(e, i).n = p + 1 /\ p2 = p + 1 /\ l \subseteq 1 .. p
      BY <1>7, <2>2 DEF Kept
    <3>2. p + 1 \notin l /\ p + 1 <= p2
      BY <3>1
    <3>3. ASSUME NEW m \in DOMAIN s PROVE s[m] < p + 1
      <4>1. s \in Seq(1 .. MaxArexx) /\ s[m] <= p
        BY DEF Kept
      <4>2. s[m] \in 1 .. MaxArexx
        BY <4>1
      <4> QED
        BY <4>1, <4>2
    <3> QED
      BY <3>1, <3>2, <3>3
  <2> QED
    BY <1>2, <2>1, <2>2
<1>8. /\ s \in Seq(1 .. MaxArexx)
      /\ \A i, j \in DOMAIN s : i < j => s[i] < s[j]
  BY DEF Kept
<1>9. \A m \in DOMAIN s : s[m] <= p2 /\ s[m] \notin l
  <2> SUFFICES ASSUME NEW m \in DOMAIN s PROVE s[m] <= p2 /\ s[m] \notin l
    OBVIOUS
  <2>1. s[m] \in 1 .. MaxArexx
    BY <1>8
  <2>2. s[m] <= p /\ s[m] \notin l
    BY DEF Kept
  <2> QED
    BY <2>1, <2>2
<1>10. l \subseteq 1 .. p2
  <2>1. l \subseteq 1 .. p
    BY DEF Kept
  <2> QED
    BY <2>1
<1>11. ASSUME NEW m \in 1 .. p2
       PROVE  \/ m \in l
              \/ \E i \in DOMAIN s : s[i] = m
              \/ \E i \in Places(e) : Item(e, i).from = "arexx" /\ Item(e, i).n = m
  <2>1. CASE m \in 1 .. p
    <3>1. \/ m \in l
          \/ \E i \in DOMAIN s : s[i] = m
          \/ \E i \in Places(r) : Item(r, i).from = "arexx" /\ Item(r, i).n = m
      BY <2>1 DEF Kept
    <3>2. \A i \in Places(r) : i \in Places(e)
      BY <1>1
    <3> QED
      BY <1>3, <3>1, <3>2
  <2>2. CASE m \notin 1 .. p
    <3>1. c.from = "arexx" /\ c.n = m
      BY <2>2
    <3>2. r.length \in Places(e)
      BY <1>1
    <3> QED
      BY <3>1, <3>2
  <2> QED
    BY <2>1, <2>2
<1> QED
  BY <1>4, <1>5, <1>6, <1>7, <1>8, <1>9, <1>10, <1>11 DEF Kept

LEMMA Appended ==
  ASSUME NEW T, NEW s \in Seq(T), NEW x \in T
  PROVE  /\ Append(s, x) \in Seq(T) /\ DOMAIN Append(s, x) = 1 .. Len(s) + 1
         /\ Append(s, x)[Len(s) + 1] = x /\ \A m \in DOMAIN s : Append(s, x)[m] = s[m]
  OBVIOUS

\* The first command gone: run, dropped, or the user's.
LEMMA KeptFewer ==
  ASSUME NEW k \in Nat, NEW p \in Nat, NEW r, NEW s, NEW l, Kept(r, k, p, s, l), r.length > 0,
         NEW s2, NEW l2, NEW c, c = Item(r, 0), NEW d \in Queues,
         \/ c.from = "key" /\ s2 = s /\ l2 = l
         \/ c.from = "arexx" /\ s2 = Append(s, c.n) /\ l2 = l
         \/ c.from = "arexx" /\ s2 = s /\ l2 = l \cup {c.n},
         d.length = r.length - 1, \A i \in Places(d) : Item(d, i) = Item(r, i + 1)
  PROVE  Kept(d, k, p, s2, l2)
<1>1. r.length \in Nat /\ Places(r) = 0 .. r.length - 1 /\ Places(d) = 0 .. r.length - 2
  BY DEF Kept, Queues, Places
<1>2. /\ 0 \in Places(r)
      /\ \A i \in Places(d) : i + 1 \in Places(r) /\ 0 < i + 1 /\ Item(d, i) = Item(r, i + 1)
  BY <1>1
<1>3. c \in Command /\ c.n \in Nat \ {0} /\ c.from \in {"arexx", "key"}
  BY <1>2, IsCommand DEF Kept
<1>4. \A i \in Places(d) : /\ Item(d, i) \in Command /\ Item(d, i).n \in Nat
                           /\ Item(d, i).from = c.from => c.n < Item(d, i).n
  <2>1. ASSUME NEW i \in Places(d) PROVE Item(r, i + 1) \in Command
    BY <1>2 DEF Kept
  <2>2. ASSUME NEW i \in Places(d), Item(r, i + 1).from = c.from PROVE c.n < Item(r, i + 1).n
    BY <1>2, <2>2 DEF Kept
  <2> QED
    BY <1>2, <2>1, <2>2, IsCommand
<1>5. \A i, j \in Places(d) : i < j /\ Item(d, i).from = Item(d, j).from => Item(d, i).n < Item(d, j).n
  <2> SUFFICES ASSUME NEW i \in Places(d), NEW j \in Places(d), i < j,
                      Item(d, i).from = Item(d, j).from
               PROVE  Item(d, i).n < Item(d, j).n
    OBVIOUS
  <2>1. i + 1 < j + 1
    BY <1>1
  <2>2. i + 1 \in Places(r) /\ j + 1 \in Places(r)
    BY <1>2
  <2>3. Item(r, i + 1).from = Item(r, j + 1).from
    BY <1>2
  <2>4. Item(r, i + 1).n < Item(r, j + 1).n
    BY <2>1, <2>2, <2>3 DEF Kept
  <2> QED
    BY <1>2, <2>4
<1>6. \A i \in Places(d) : Item(d, i).from = "key" => Item(d, i).n <= k
  BY <1>2 DEF Kept
<1>7. /\ s \in Seq(1 .. MaxArexx) /\ Len(s) \in Nat /\ DOMAIN s = 1 .. Len(s)
      /\ \A m \in DOMAIN s : s[m] \in 1 .. MaxArexx /\ s[m] <= p /\ s[m] \notin l
      /\ \A i, j \in DOMAIN s : i < j => s[i] < s[j]
      /\ l \subseteq 1 .. p
  BY DEF Kept
<1>8. c.from = "arexx" => /\ c.n \in 1 .. MaxArexx /\ c.n \in 1 .. p /\ c.n \notin l
                          /\ \A m \in DOMAIN s : s[m] < c.n
  <2>1. c.from = "arexx" => c.n <= p /\ c.n \notin l /\ \A m \in DOMAIN s : s[m] < c.n
    BY <1>2 DEF Kept
  <2>2. c.from = "arexx" => c.n \in 1 .. MaxArexx
    BY <1>3, IsCommand
  <2> QED
    BY <1>3, <2>1, <2>2
<1>9. \A i \in Places(d) : Item(d, i).from = "arexx" =>
        Item(d, i).n <= p /\ Item(d, i).n \notin l /\ \A m \in DOMAIN s : s[m] < Item(d, i).n
  BY <1>2 DEF Kept
<1>10. \A m \in 1 .. p : \/ m \in l \/ \E i \in DOMAIN s : s[i] = m
                         \/ c.from = "arexx" /\ c.n = m
                         \/ \E i \in Places(d) : Item(d, i).from = "arexx" /\ Item(d, i).n = m
  <2> SUFFICES ASSUME NEW m \in 1 .. p, m \notin l, ~\E i \in DOMAIN s : s[i] = m
               PROVE  \/ c.from = "arexx" /\ c.n = m
                      \/ \E i \in Places(d) : Item(d, i).from = "arexx" /\ Item(d, i).n = m
    OBVIOUS
  <2>1. PICK j \in Places(r) : Item(r, j).from = "arexx" /\ Item(r, j).n = m
    BY DEF Kept
  <2>2. CASE j = 0
    BY <2>1, <2>2
  <2>3. CASE j # 0
    <3>1. j - 1 \in Places(d) /\ (j - 1) + 1 = j
      BY <1>1, <2>3
    <3>2. Item(d, j - 1) = Item(r, j)
      BY <1>2, <3>1
    <3> QED
      BY <2>1, <3>1, <3>2
  <2> QED
    BY <2>2, <2>3
<1>11. CASE c.from = "key"
  <2>1. s2 = s /\ l2 = l
    BY <1>11
  <2> QED
    BY <1>4, <1>5, <1>6, <1>7, <1>9, <1>10, <1>11, <2>1 DEF Kept
<1>12. CASE c.from = "arexx" /\ s2 = Append(s, c.n) /\ l2 = l
  <2>1. /\ s2 \in Seq(1 .. MaxArexx) /\ DOMAIN s2 = 1 .. Len(s) + 1
        /\ s2[Len(s) + 1] = c.n /\ \A m \in DOMAIN s : s2[m] = s[m]
    <3>1. s \in Seq(1 .. MaxArexx) /\ c.n \in 1 .. MaxArexx /\ s2 = Append(s, c.n)
      BY <1>7, <1>8, <1>12
    <3> QED
      BY <3>1, Appended
  <2>2. \A m \in DOMAIN s2 : m \in DOMAIN s \/ m = Len(s) + 1
    BY <1>7, <2>1
  <2>3. \A m \in DOMAIN s2 : s2[m] <= p /\ s2[m] \notin l2
    <3>1. \A m \in DOMAIN s : s[m] <= p /\ s[m] \notin l
      BY <1>7
    <3>2. c.n <= p /\ c.n \notin l
      BY <1>8, <1>12
    <3>3. l2 = l /\ \A m \in DOMAIN s : s2[m] = s[m]
      BY <1>12, <2>1
    <3> QED
      BY <2>1, <2>2, <3>1, <3>2, <3>3
  <2>4. \A i, j \in DOMAIN s2 : i < j => s2[i] < s2[j]
    <3> SUFFICES ASSUME NEW i \in DOMAIN s2, NEW j \in DOMAIN s2, i < j PROVE s2[i] < s2[j]
      OBVIOUS
    <3>1. i \in DOMAIN s
      BY <1>7, <2>1
    <3> QED
      BY <1>7, <1>8, <1>12, <2>1, <2>2, <3>1
  <2>5. \A i \in Places(d) : Item(d, i).from = "arexx" =>
          Item(d, i).n <= p /\ Item(d, i).n \notin l2 /\ \A m \in DOMAIN s2 : s2[m] < Item(d, i).n
    BY <1>4, <1>9, <1>12, <2>1, <2>2
  <2>6. \A m \in 1 .. p : \/ m \in l2 \/ \E i \in DOMAIN s2 : s2[i] = m
                          \/ \E i \in Places(d) : Item(d, i).from = "arexx" /\ Item(d, i).n = m
    <3>1. Len(s) + 1 \in DOMAIN s2 /\ \A m \in DOMAIN s : m \in DOMAIN s2
      BY <1>7, <2>1
    <3> QED
      BY <1>10, <1>12, <2>1, <3>1
  <2> QED
    BY <1>4, <1>5, <1>6, <1>7, <1>12, <2>1, <2>3, <2>4, <2>5, <2>6 DEF Kept
<1>13. CASE c.from = "arexx" /\ s2 = s /\ l2 = l \cup {c.n}
  <2>1. l2 \subseteq 1 .. p
    BY <1>7, <1>8, <1>13
  <2>2. \A m \in DOMAIN s2 : s2[m] <= p /\ s2[m] \notin l2
    <3> SUFFICES ASSUME NEW m \in DOMAIN s PROVE s[m] <= p /\ s[m] \notin l \cup {c.n}
      BY <1>13
    <3>1. s[m] \in 1 .. MaxArexx /\ s[m] <= p /\ s[m] \notin l
      BY <1>7
    <3>2. s[m] < c.n /\ c.n \in Nat
      BY <1>3, <1>8, <1>13
    <3> QED
      BY <3>1, <3>2
  <2>3. \A i \in Places(d) : Item(d, i).from = "arexx" =>
          Item(d, i).n <= p /\ Item(d, i).n \notin l2 /\ \A m \in DOMAIN s2 : s2[m] < Item(d, i).n
    BY <1>3, <1>4, <1>9, <1>13
  <2>4. \A m \in 1 .. p : \/ m \in l2 \/ \E i \in DOMAIN s2 : s2[i] = m
                          \/ \E i \in Places(d) : Item(d, i).from = "arexx" /\ Item(d, i).n = m
    BY <1>10, <1>13
  <2> QED
    BY <1>4, <1>5, <1>6, <1>7, <1>13, <2>1, <2>2, <2>3, <2>4 DEF Kept
<1> QED
  BY <1>11, <1>12, <1>13

-----------------------------------------------------------------------------
(* The invariant. *)

Stopping == {"stopping", "stopped"}
Posted == IF arexx \in Posting THEN Sent - 1 ELSE Sent
NoGet(r) == \A i \in Places(r) : Item(r, i).kind # "get"
Gets(r) == \A i \in Places(r) : Item(r, i).kind = "get" => Item(r, i) = cmd /\ arexx = "answer"

\* Types that do not depend on the queue.
Typed ==
  /\ main \in {"loop", "checking", "interrupted", "paused", "pause_sleep", "stopping", "stopped"}
  /\ keys \in 0 .. MaxKeys
  /\ arexx \in {"wait", "handler", "answer", "ended"} \cup Posting
  /\ cmd \in Command \cup {None}
  /\ cmd # None => cmd.from = "arexx"
  /\ reg \in 0 .. Size
  /\ ctrl \subseteq {"C", "D"} /\ child \in BOOLEAN /\ rc2 \in 0 .. MaxArexx
  /\ result \in [asked : 0 .. MaxArexx, got : 0 .. MaxArexx]
  /\ mixed \in BOOLEAN

\* The four stores of mp_input_queue_cmd, as main will find them done.
PostInv ==
  /\ arexx \in Posting \cup {"answer"} => cmd # None
  /\ arexx \in Posting => q.length < Size
  /\ arexx \in Posting \ {"store"} => Item(q, q.length) = cmd
  /\ arexx \in {"load", "length"} => q.end = (q.start + (q.length + 1)) % Size
  /\ arexx \notin {"load", "length"} => Ends(q)
  /\ arexx = "length" => reg = q.length

QueueInv == PostInv /\ Kept(q, keys, Posted, ran, lost)

\* A GET in the queue is the one the script waits for; CTRL_D says it has been
\* answered, CTRL_C that main will run no more commands.
AnswerInv ==
  /\ "C" \in ctrl => main \in Stopping
  /\ main \in Stopping => "C" \in ctrl \/ arexx = "ended"
  /\ main \notin Stopping => Gets(q)
  /\ main \notin Stopping /\ "D" \in ctrl => arexx = "answer" /\ rc2 = cmd.n /\ NoGet(q)
  /\ result.got # result.asked => result.got = 0 /\ main \in Stopping

EndInv ==
  /\ child => arexx = "ended"
  /\ main = "stopped" => arexx = "ended"

IInv == Typed /\ QueueInv /\ AnswerInv /\ EndInv


-----------------------------------------------------------------------------
(* Main's steps: first it may put a command of the user at the end of the
   queue, then it may take the first one, to run it or to drop it. *)

LEMMA SentIs ==
  ASSUME Typed
  PROVE  /\ Sent \in 0 .. MaxArexx
         /\ cmd = None => Sent = 0
         /\ cmd # None => cmd \in Command /\ cmd.from = "arexx" /\ Sent = cmd.n /\ cmd.n \in 1 .. MaxArexx
<1>1. CASE cmd = None
  BY <1>1 DEF Sent
<1>2. CASE cmd # None
  <2>1. cmd \in Command /\ cmd.from = "arexx"
    BY <1>2 DEF Typed
  <2>2. cmd.n \in 1 .. MaxArexx
    BY <2>1, IsCommand
  <2>3. Sent = cmd.n
    BY <1>2 DEF Sent
  <2>4. cmd.n \in 0 .. MaxArexx
    BY <2>2
  <2> QED
    BY <1>2, <2>1, <2>2, <2>3, <2>4
<1> QED
  BY <1>1, <1>2

Put(r) == \/ r = q /\ keys' \in {keys, keys + 1}
          \/ \E c \in Key \ {None} : r = Enqueue(q, c) /\ keys' = keys + 1
Taken(r) == /\ r.length > 0 /\ q' = Dequeue(r)
            /\ \/ Run(First(r)) /\ lost' = lost
               \/ Drop(First(r)) /\ ran' = ran
MainQueue(r) == /\ Put(r) /\ keys' \in 0 .. MaxKeys
                /\ \/ q' = r /\ UNCHANGED history
                   \/ Taken(r)

LEMMA PutKept ==
  ASSUME Typed, QueueInv, NEW r, Put(r), keys' \in 0 .. MaxKeys, arexx \in Posting => r = q
  PROVE  /\ r \in Queues /\ Kept(r, keys', Posted, ran, lost)
         /\ arexx \notin Posting => Ends(r)
         /\ \A i \in Places(r) : \/ i \in Places(q) /\ Item(r, i) = Item(q, i)
                                 \/ i = q.length /\ i = r.length - 1 /\ Item(r, i).from = "key"
         /\ q.length <= r.length /\ q.length \in Nat
         /\ \A i \in Places(q) : Item(r, i) = Item(q, i)
<1>1. q \in Queues /\ Kept(q, keys, Posted, ran, lost) /\ keys \in Nat
      /\ Posted \in Nat /\ q.length \in Nat /\ (arexx \notin Posting => Ends(q))
  <2>1. Sent \in Nat
    BY SentIs
  <2>2. Posted = IF arexx \in Posting THEN Sent - 1 ELSE Sent
    BY DEF Posted
  <2>3. arexx \in Posting => Sent \in Nat \ {0}
    BY SentIs DEF QueueInv, PostInv
  <2>4. Posted \in Nat
    BY <2>1, <2>2, <2>3
  <2> QED
    BY <2>4 DEF QueueInv, PostInv, Typed, Kept, Queues, Posting
<1>2. CASE r = q
  <2>1. Kept(q, keys', Posted, ran, lost)
    BY <1>1, KeptWaits DEF Put
  <2> QED
    BY <1>1, <1>2, <2>1
<1>3. ASSUME NEW c \in Key \ {None}, r = Enqueue(q, c), keys' = keys + 1, r # q
      PROVE  /\ r \in Queues /\ Ends(r) /\ Kept(r, keys', Posted, ran, lost)
             /\ \A i \in Places(r) : \/ i \in Places(q) /\ Item(r, i) = Item(q, i)
                                     \/ i = q.length /\ i = r.length - 1 /\ Item(r, i).from = "key"
             /\ q.length <= r.length
             /\ \A i \in Places(q) : Item(r, i) = Item(q, i)
  <2>1. c \in Command /\ c.from = "key" /\ c.n = keys + 1
    <3>1. c \in UserCommand /\ keys < MaxKeys
      BY <1>3 DEF Key
    <3>2. PICK kind \in KeyKinds : c = [from |-> "key", n |-> keys + 1, kind |-> kind]
      BY <3>1 DEF UserCommand
    <3>3. keys + 1 \in 1 .. MaxKeys
      BY <1>1, <3>1
    <3> QED
      BY <3>2, <3>3 DEF Command
  <2>0. arexx \notin Posting
    BY <1>3
  <2>2. CASE Full(q)
    BY <1>3, <2>2 DEF Enqueue
  <2>3. CASE ~Full(q)
    <3>1. /\ r \in Queues /\ Ends(r) /\ r.length = q.length + 1
          /\ \A i \in Places(q) : Item(r, i) = Item(q, i)
          /\ Item(r, q.length) = c
      BY <1>1, <1>3, <2>0, <2>1, <2>3, Enqueued
    <3>2. Kept(r, keys + 1, Posted, ran, lost)
      BY <1>1, <2>1, <3>1, KeptMore
    <3>3. \A i \in Places(r) : i \in Places(q) \/ i = q.length
      BY <1>1, <3>1 DEF Places
    <3> QED
      BY <1>1, <1>3, <2>1, <3>1, <3>2, <3>3
  <2> QED
    BY <2>2, <2>3
<1> QED
  BY <1>1, <1>2, <1>3 DEF Put

LEMMA MainKept ==
  ASSUME Typed, QueueInv, NEW r, MainQueue(r), UNCHANGED <<arexx, cmd, reg>>,
         arexx \in Posting => r = q, arexx = "length" => q' = q
  PROVE  QueueInv'
<1>1. /\ r \in Queues /\ Kept(r, keys', Posted, ran, lost) /\ keys' \in Nat
      /\ arexx \notin Posting => Ends(r)
  BY PutKept DEF MainQueue
<1>2. Posted \in Nat /\ Posted' = Posted
  <2>1. Sent \in Nat /\ Sent' = Sent
    BY SentIs DEF Sent
  <2>2. arexx \in Posting => Sent \in Nat \ {0}
    BY SentIs DEF QueueInv, PostInv
  <2> QED
    BY <2>1, <2>2 DEF Posted
<1>3. arexx \notin Posting /\ Ends(q') => PostInv'
  BY DEF QueueInv, PostInv, Ends, Posting
<1>s. q' = q => PostInv'
  BY DEF QueueInv, PostInv, Ends, Item
<1>4. CASE q' = r /\ UNCHANGED history
  <2>1. PostInv'
    BY <1>1, <1>3, <1>4, <1>s
  <2> QED
    BY <1>1, <1>2, <1>4, <2>1 DEF QueueInv, history
<1>5. CASE Taken(r)
  <2>1. r.length > 0 /\ q' = Dequeue(r)
    BY <1>5 DEF Taken
  <2>2. /\ q' \in Queues /\ q'.length = r.length - 1 /\ First(r) = Item(r, 0)
        /\ q'.slot = r.slot /\ q'.end = r.end /\ (Ends(r) => Ends(q'))
        /\ \A i \in Places(q') : Item(q', i) = Item(r, i + 1)
        /\ \A i \in 0 .. Size - 1 : (q'.start + i) % Size = (r.start + (i + 1)) % Size
    BY <1>1, <2>1, Dequeued
  <2>3. Item(r, 0) \in Command
    <3>1. 0 \in Places(r)
      BY <1>1, <2>1 DEF Places, Queues
    <3> QED
      BY <1>1, <3>1 DEF Kept
  <2>4. LET c == Item(r, 0)
        IN  \/ c.from = "key" /\ ran' = ran /\ lost' = lost
            \/ c.from = "arexx" /\ ran' = Append(ran, c.n) /\ lost' = lost
            \/ c.from = "arexx" /\ ran' = ran /\ lost' = lost \cup {c.n}
    BY <1>5, <2>2, <2>3, IsCommand DEF Taken, Run, Drop, Number
  <2>5. Kept(q', keys', Posted, ran', lost')
    BY <1>1, <1>2, <2>1, <2>2, <2>4, KeptFewer
  <2>6. PostInv'
    <3>1. CASE arexx \notin Posting
      BY <1>1, <1>3, <2>2, <3>1
    <3>2. CASE arexx \in Posting
      <4>1. r = q /\ q.length \in Nat /\ q.length > 0 /\ q.length < Size /\ q'.length # q.length
        BY <1>1, <2>1, <2>2, <3>2 DEF QueueInv, PostInv, Queues
      <4>2. arexx # "length" /\ q'.length < Size
        BY <2>2, <4>1
      <4>3. q.length - 1 \in 0 .. Size - 1 /\ q.length \in 0 .. Size - 1 /\ (q.length - 1) + 1 = q.length
        BY <4>1
      <4>4. (q'.start + q'.length) % Size = (q.start + q.length) % Size
        BY <2>2, <4>1, <4>3
      <4>5. (q'.start + (q'.length + 1)) % Size = (q.start + (q.length + 1)) % Size
        BY <2>2, <4>1, <4>3
      <4>6. Item(q', q'.length) = Item(q, q.length)
        BY <2>2, <4>1, <4>4 DEF Item
      <4>7. Ends(q) => Ends(q')
        BY <2>2, <4>1
      <4> QED
        BY <2>2, <4>1, <4>2, <4>5, <4>6, <4>7 DEF QueueInv, PostInv, Item, Ends
    <3> QED
      BY <3>1, <3>2
  <2> QED
    BY <1>2, <2>5, <2>6 DEF QueueInv
<1> QED
  BY <1>4, <1>5 DEF MainQueue

\* Unless the tasks clash, main puts nothing in while a command is posted, and
\* takes none while the length is being incremented.
LEMMA NoClash ==
  ASSUME QueueInv, Typed, NEW r, MainQueue(r), ~Clash
  PROVE  (arexx \in Posting => r = q) /\ (arexx = "length" => q' = q)
<1> SUFFICES ASSUME arexx \in Posting PROVE r = q /\ (arexx = "length" => q' = q)
  BY DEF Posting
<1>1. q \in Queues /\ q.length < Size /\ q.length \in Nat /\ q.end \in Slots /\ q'.end = q.end
      /\ (arexx = "length" => q'.length = q.length)
  BY DEF QueueInv, PostInv, Kept, Queues, Clash
<1>2. ASSUME NEW c \in Key \ {None}, r = Enqueue(q, c), r # q PROVE FALSE
  <2>1. r = [q EXCEPT !.slot[q.end] = c, !.end = (q.end + 1) % Size, !.length = @ + 1]
    BY <1>2 DEF Enqueue
  <2>2. r.end = (q.end + 1) % Size
    BY <1>1, <2>1 DEF Queues
  <2>3. q' = r \/ q' = Dequeue(r)
    BY DEF MainQueue, Taken
  <2>4. Dequeue(r).end = r.end
    BY <1>1, <2>1 DEF Dequeue, Queues
  <2>5. (q.end + 1) % Size # q.end
    <3>1. q.end \in Int /\ 0 <= q.end /\ q.end < Size
      BY <1>1, SlotIs
    <3>2. CASE q.end + 1 < Size
      <4>1. q.end + 1 \in Int /\ 0 <= q.end + 1
        BY <3>1
      <4>2. (q.end + 1) % Size = q.end + 1
        BY <3>2, <4>1, Mod
      <4> QED
        BY <3>1, <4>2
    <3>3. CASE q.end + 1 = Size
      <4>1. Size % Size = 0
        OBVIOUS
      <4> QED
        BY <3>1, <3>3, <4>1
    <3> QED
      BY <3>1, <3>2, <3>3
  <2> QED
    BY <1>1, <2>2, <2>3, <2>4, <2>5
<1>3. r = q
  BY <1>2 DEF MainQueue, Put
<1>4. arexx = "length" => q' = q
  <2> SUFFICES ASSUME arexx = "length", q' # q PROVE FALSE
    OBVIOUS
  <2>1. q.length > 0 /\ q' = Dequeue(q)
    BY <1>3 DEF MainQueue, Taken
  <2>2. q'.length = q.length - 1
    BY <1>1, <2>1, Dequeued
  <2> QED
    BY <1>1, <2>2
<1> QED
  BY <1>3, <1>4

\* What main's steps do besides: they answer a GET, quit, or signal nothing.
Quits == main' = "stopping" /\ ctrl' = ctrl \cup {"C"} /\ rc2' = rc2 /\ child' = child
Answers(c) == /\ c.kind = "get" /\ main' \notin Stopping
              /\ ctrl' = ctrl \cup {"D"} /\ rc2' = c.n /\ child' = child
Silently == main' \notin Stopping /\ UNCHANGED signals
Mains == {"loop", "checking", "interrupted", "paused", "pause_sleep", "stopping"}
Does(r) ==
  /\ MainQueue(r) /\ main' \in Mains
  /\ \/ Quits \/ Silently
     \/ Taken(r) /\ Answers(First(r))
  /\ UNCHANGED arexxVars

LEMMA Executed ==
  ASSUME NEW c, NEW back \in {"loop", "paused"}, Execute(c, back)
  PROVE  /\ main' \in Mains /\ Run(c) /\ lost' = lost
         /\ Quits \/ Silently \/ Answers(c)
         /\ c.kind # "get" => Quits \/ Silently
<1>1. main' \in After(c, back) /\ Answer(c) /\ Run(c) /\ lost' = lost
  BY DEF Execute
<1>2. c.kind = "quit" => main' = "stopping"
  BY <1>1 DEF After
<1>3. c.kind # "quit" => main' \in {"loop", "paused"}
  BY <1>1 DEF After
<1>4. CASE c.kind = "get"
  BY <1>1, <1>3, <1>4 DEF Answer, Answers, Stopping, Mains
<1>5. CASE c.kind = "quit"
  BY <1>1, <1>2, <1>5 DEF Answer, Quits, signals, Mains
<1>6. CASE c.kind \notin {"get", "quit"}
  BY <1>1, <1>3, <1>6 DEF Answer, Silently, Stopping, Mains
<1> QED
  BY <1>1, <1>4, <1>5, <1>6

LEMMA KeyIs ==
  ASSUME Typed, NEW key \in Key, KeyRead(key)
  PROVE  /\ keys' \in {keys, keys + 1} /\ keys' \in 0 .. MaxKeys
         /\ key # None => key \in Key \ {None} /\ keys' = keys + 1 /\ key.from = "key" /\ key.kind # "get"
<1>1. CASE key = None
  BY <1>1 DEF KeyRead, Typed
<1>2. CASE key # None
  <2>1. key \in UserCommand /\ keys < MaxKeys
    BY <1>2 DEF Key
  <2>2. key.from = "key" /\ key.kind \in KeyKinds
    BY <2>1 DEF UserCommand
  <2>3. keys' = keys + 1 /\ keys \in 0 .. MaxKeys
    BY <1>2 DEF KeyRead, Typed
  <2> QED
    BY <1>2, <2>1, <2>2, <2>3, QueueAssumption
<1> QED
  BY <1>1, <1>2

LEMMA PollDoes == ASSUME Typed, QueueInv, Poll PROVE Does(q)
<1>1. PICK key \in Key : LET g == GetNow(q, key, FALSE) IN
        /\ q.length > 0 => key = None
        /\ g.cmd # None
        /\ KeyRead(key) /\ q' = g.q
        /\ Execute(g.cmd, "loop")
  BY DEF Poll
<1>2. UNCHANGED arexxVars
  BY DEF Poll
<1>3. keys' \in {keys, keys + 1} /\ keys' \in 0 .. MaxKeys
  BY <1>1, KeyIs
<1>4. CASE q.length > 0
  <2>1. q' = Dequeue(q) /\ Execute(First(q), "loop")
    BY <1>1, <1>4 DEF GetNow, FromQueue, Got
  <2>2. Taken(q)
    BY <1>4, <2>1, Executed DEF Taken
  <2> QED
    BY <1>2, <1>3, <2>1, <2>2, Executed DEF Does, MainQueue, Put
<1>5. CASE ~(q.length > 0)
  <2>1. q' = q /\ Execute(key, "loop") /\ key # None
    BY <1>1, <1>5 DEF GetNow, FromKey, Got
  <2>2. key.from = "key" /\ key.kind # "get"
    BY <1>1, <2>1, KeyIs
  <2>3. UNCHANGED history
    BY <2>1, <2>2, Executed DEF Run, Number, history
  <2> QED
    BY <1>2, <1>3, <2>1, <2>2, <2>3, Executed DEF Does, MainQueue, Put
<1> QED
  BY <1>4, <1>5

LEMMA GotIs == ASSUME NEW c, NEW r PROVE Got(c, r).cmd = c /\ Got(c, r).q = r
  BY DEF Got

\* A peek after a sleep finds a command at a place of the queue.
LEMMA AwakePut ==
  ASSUME Typed, QueueInv, NEW key \in Key, KeyRead(key), GetAwake(q, key, TRUE).cmd # None
  PROVE  LET r == GetAwake(q, key, TRUE).q IN r.length > 0 /\ Put(r)
<1>1. q.length \in Nat /\ keys' \in {keys, keys + 1}
  BY KeyIs DEF QueueInv, Kept, Queues
<1>2. CASE key # None \/ q.length = 0
  <2>1. GetAwake(q, key, TRUE) = FromKey(q, key, TRUE)
    BY <1>2 DEF GetAwake
  <2>2. ~Full(q) /\ key # None /\ FromKey(q, key, TRUE).q = Enqueue(q, key)
    <3>1. FromKey(q, key, TRUE).cmd # None
      BY <2>1
    <3>2. key # None
      BY <3>1 DEF FromKey, Got
    <3>3. ~Full(q)
      BY <3>1, <3>2 DEF FromKey, Got
    <3>4. FromKey(q, key, TRUE) = Got(key, Enqueue(q, key))
      BY <3>2, <3>3 DEF FromKey
    <3>5. Got(key, Enqueue(q, key)).q = Enqueue(q, key)
      BY GotIs
    <3> QED
      BY <3>2, <3>3, <3>4, <3>5
  <2>3. Enqueue(q, key).length > 0
    <3>1. Enqueue(q, key).length = q.length + 1
      BY <2>2 DEF Enqueue, QueueInv, Kept, Queues
    <3> QED
      BY <1>1, <3>1
  <2> QED
    BY <2>1, <2>2, <2>3, KeyIs DEF Put
<1>3. CASE ~(key # None \/ q.length = 0)
  <2>1. GetAwake(q, key, TRUE).q = q
    <3>1. GetAwake(q, key, TRUE) = Got(First(q), q)
      BY <1>3 DEF GetAwake, FromQueue
    <3>2. Got(First(q), q).q = q
      BY GotIs
    <3> QED
      BY <3>1, <3>2
  <2>2. Put(q) /\ q.length > 0
    BY <1>1, <1>3 DEF Put
  <2> QED
    BY <2>1, <2>2, Zenon
<1> QED
  BY <1>2, <1>3

LEMMA CheckDoes ==
  ASSUME Typed, QueueInv, Check \/ CheckWake \/ WasInterrupted \/ QueueOwn
  PROVE  \E r : Does(r)
<1>1. ASSUME NEW c, NEW r, r.length > 0, Checked(c, r), Put(r), keys' \in 0 .. MaxKeys,
             UNCHANGED <<arexxVars, signals>>
      PROVE  Does(r)
  <2>1. CASE c.kind = "quit"
    BY <1>1, <2>1 DEF Checked, Leave, Does, MainQueue, Silently, Stopping, Mains
  <2>2. CASE c.kind # "quit"
    BY <1>1, <2>2 DEF Checked, Take, Taken, Does, MainQueue, Silently, Stopping, Mains
  <2> QED
    BY <2>1, <2>2
<1>2. CASE Check
  <2>1. Put(q) /\ keys' \in 0 .. MaxKeys /\ UNCHANGED <<arexxVars, signals>>
    BY <1>2 DEF Check, Put, Typed
  <2>2. CASE q.length > 0 /\ Checked(First(q), q)
    BY <1>1, <2>1, <2>2
  <2>3. CASE main' = "checking" /\ Leave(q) /\ UNCHANGED history
    BY <2>1, <2>3 DEF Leave, Does, MainQueue, Silently, Stopping, Mains
  <2> QED
    BY <1>2, <2>2, <2>3 DEF Check
<1>3. CASE CheckWake
  <2>1. PICK key \in Key :
          LET g == GetAwake(q, key, TRUE) IN
          /\ KeyRead(key)
          /\ IF g.cmd = None THEN main' = "loop" /\ Leave(q) /\ UNCHANGED history
             ELSE Checked(g.cmd, g.q)
    BY <1>3 DEF CheckWake
  <2>2. UNCHANGED <<arexxVars, signals>> /\ keys' \in {keys, keys + 1} /\ keys' \in 0 .. MaxKeys
    BY <1>3, <2>1, KeyIs DEF CheckWake
  <2>3. CASE main' = "loop" /\ Leave(q) /\ UNCHANGED history
    BY <2>2, <2>3 DEF Leave, Does, MainQueue, Put, Silently, Stopping, Mains
  <2>4. CASE GetAwake(q, key, TRUE).cmd # None
    <3> DEFINE g == GetAwake(q, key, TRUE)
    <3>1. g.q.length > 0 /\ Put(g.q)
      BY <2>1, <2>2, <2>4, AwakePut
    <3>2. Checked(g.cmd, g.q)
      BY <2>1, <2>4
    <3> QED
      BY <1>1, <2>2, <3>1, <3>2
  <2> QED
    BY <2>1, <2>3, <2>4
<1>4. CASE WasInterrupted
  <2>1. /\ Put(q) /\ keys' \in 0 .. MaxKeys /\ UNCHANGED arexxVars
        /\ q.length > 0 /\ q' = Dequeue(q)
    BY <1>4 DEF WasInterrupted, Put, Typed
  <2>2. CASE First(q).kind = "quit"
    <3>1. Execute(First(q), "loop")
      BY <1>4, <2>2 DEF WasInterrupted
    <3> QED
      BY <2>1, <2>2, <3>1, Executed DEF Taken, Does, MainQueue
  <2>3. CASE First(q).kind # "quit"
    <3>1. main' = "loop" /\ Drop(First(q)) /\ UNCHANGED <<ran, signals>>
      BY <1>4, <2>3 DEF WasInterrupted
    <3> QED
      BY <2>1, <3>1 DEF Taken, Does, MainQueue, Silently, Stopping, Mains
  <2> QED
    BY <2>2, <2>3
<1>5. CASE QueueOwn
  <2>1. PICK c \in Key \ {None} : KeyRead(c) /\ q' = Enqueue(q, c)
    BY <1>5 DEF QueueOwn
  <2>2. Put(q') /\ keys' \in 0 .. MaxKeys
    BY <2>1, KeyIs DEF Put
  <2>3. main' \in {"loop", "paused"} /\ UNCHANGED <<arexxVars, signals, history>>
    BY <1>5 DEF QueueOwn
  <2> QED
    BY <2>2, <2>3 DEF Does, MainQueue, Silently, Stopping, Mains
<1> QED
  BY <1>2, <1>3, <1>4, <1>5

LEMMA PauseDoes ==
  ASSUME Typed, QueueInv, PauseLook \/ PauseWake
  PROVE  \E r : Does(r)
<1>1. ASSUME NEW c, NEW r, r.length > 0, Unpaused(c, r), Put(r), keys' \in 0 .. MaxKeys,
             UNCHANGED arexxVars
      PROVE  Does(r)
  <2>1. CASE c.kind = "keep"
    <3>1. q' = Dequeue(r) /\ Execute(First(r), "paused")
      BY <1>1, <2>1 DEF Unpaused, Take
    <3>2. Taken(r)
      BY <1>1, <3>1, Executed DEF Taken
    <3> QED
      BY <1>1, <3>1, <3>2, Executed DEF Does, MainQueue
  <2>2. CASE c.kind # "keep"
    <3>1. main' = "loop" /\ UNCHANGED signals
      BY <1>1, <2>2 DEF Unpaused
    <3>2. MainQueue(r)
      <4>1. CASE c.kind # "pause"
        BY <1>1, <2>2, <4>1 DEF Unpaused, Leave, MainQueue
      <4>2. CASE c.kind = "pause"
        <5>1. q' = Dequeue(r)
          BY <1>1, <2>2, <4>2 DEF Unpaused, Take
        <5>2. \/ Run(First(r)) /\ UNCHANGED lost
              \/ Drop(First(r)) /\ UNCHANGED ran
          BY <1>1, <2>2, <4>2 DEF Unpaused
        <5> QED
          BY <1>1, <5>1, <5>2 DEF MainQueue, Taken
      <4> QED
        BY <4>1, <4>2
    <3> QED
      BY <1>1, <3>1, <3>2 DEF Does, Silently, Stopping, Mains
  <2> QED
    BY <2>1, <2>2
<1>2. CASE PauseLook
  <2>1. Put(q) /\ keys' \in 0 .. MaxKeys /\ UNCHANGED arexxVars
    BY <1>2 DEF PauseLook, Put, Typed
  <2>2. CASE q.length > 0 /\ Unpaused(First(q), q)
    BY <1>1, <2>1, <2>2
  <2>3. CASE main' = "pause_sleep" /\ Leave(q) /\ UNCHANGED <<signals, history>>
    BY <2>1, <2>3 DEF Leave, Does, MainQueue, Silently, Stopping, Mains
  <2> QED
    BY <1>2, <2>2, <2>3 DEF PauseLook
<1>3. CASE PauseWake
  <2>1. PICK key \in Key :
          LET g == GetAwake(q, key, TRUE) IN
          /\ KeyRead(key)
          /\ IF g.cmd = None THEN main' = "paused" /\ Leave(q) /\ UNCHANGED <<signals, history>>
             ELSE Unpaused(g.cmd, g.q)
    BY <1>3 DEF PauseWake
  <2>2. UNCHANGED arexxVars /\ keys' \in {keys, keys + 1} /\ keys' \in 0 .. MaxKeys
    BY <1>3, <2>1, KeyIs DEF PauseWake
  <2>3. CASE main' = "paused" /\ Leave(q) /\ UNCHANGED <<signals, history>>
    BY <2>2, <2>3 DEF Leave, Does, MainQueue, Put, Silently, Stopping, Mains
  <2>4. CASE GetAwake(q, key, TRUE).cmd # None
    <3> DEFINE g == GetAwake(q, key, TRUE)
    <3>1. g.q.length > 0 /\ Put(g.q)
      BY <2>1, <2>2, <2>4, AwakePut
    <3>2. Unpaused(g.cmd, g.q)
      BY <2>1, <2>4
    <3> QED
      BY <1>1, <2>2, <3>1, <3>2
  <2> QED
    BY <2>1, <2>3, <2>4
<1> QED
  BY <1>2, <1>3


LEMMA MainAnswers ==
  ASSUME Typed, QueueInv, AnswerInv, main \notin Stopping, NEW r, Does(r),
         arexx \in Posting => r = q
  PROVE  AnswerInv' /\ ctrl' \subseteq {"C", "D"} /\ rc2' \in 0 .. MaxArexx
<1>1. /\ r \in Queues /\ Kept(r, keys', Posted, ran, lost)
      /\ \A i \in Places(r) : \/ i \in Places(q) /\ Item(r, i) = Item(q, i)
                              \/ Item(r, i).from = "key"
  BY PutKept DEF Does, MainQueue
<1>2. UNCHANGED <<arexx, cmd, result>>
  BY DEF Does, arexxVars
<1>3. "C" \notin ctrl /\ result.got = result.asked /\ Gets(q)
      /\ ("D" \in ctrl => arexx = "answer" /\ rc2 = cmd.n /\ NoGet(q))
  BY DEF AnswerInv
<1>4. \A i \in Places(r) : Item(r, i).kind = "get" => i \in Places(q) /\ Item(r, i) = Item(q, i)
  BY <1>1, IsCommand DEF Kept
<1>5. Gets(r) /\ (NoGet(q) => NoGet(r))
  BY <1>3, <1>4 DEF Gets, NoGet
<1>6. \/ q' = r
      \/ /\ Taken(r) /\ First(r) = Item(r, 0) /\ Item(r, 0) \in Command
         /\ \A i \in Places(q') : Item(q', i) = Item(r, i + 1) /\ i + 1 \in Places(r) /\ 0 < i + 1
  <2>1. ASSUME Taken(r)
        PROVE  /\ First(r) = Item(r, 0) /\ Item(r, 0) \in Command
               /\ \A i \in Places(q') : Item(q', i) = Item(r, i + 1) /\ i + 1 \in Places(r) /\ 0 < i + 1
    <3>1. r.length > 0 /\ q' = Dequeue(r)
      BY <2>1 DEF Taken
    <3>2. q'.length = r.length - 1 /\ First(r) = Item(r, 0)
          /\ \A i \in Places(q') : Item(q', i) = Item(r, i + 1)
      BY <1>1, <3>1, Dequeued
    <3>3. r.length \in Nat
      BY <1>1 DEF Queues
    <3>4. 0 \in Places(r) /\ \A i \in Places(q') : i + 1 \in Places(r) /\ 0 < i + 1
      BY <3>1, <3>2, <3>3 DEF Places
    <3> QED
      BY <1>1, <3>2, <3>4 DEF Kept
  <2> QED
    BY <2>1 DEF Does, MainQueue
<1>7. Gets(q') /\ (NoGet(r) => NoGet(q'))
  BY <1>5, <1>6 DEF Gets, NoGet
<1>8. Gets(q)'
  BY <1>2, <1>7 DEF Gets
<1>9. CASE Silently
  <2>1. UNCHANGED <<ctrl, rc2>> /\ main' \notin Stopping
    BY <1>9 DEF Silently, signals
  <2>2. "D" \in ctrl' => NoGet(q')
    BY <1>3, <1>5, <1>7, <2>1
  <2> QED
    BY <1>2, <1>3, <1>8, <2>1, <2>2 DEF AnswerInv, Typed, NoGet
<1>10. CASE Quits
  <2>1. main' \in Stopping /\ ctrl' = ctrl \cup {"C"} /\ rc2' = rc2
    BY <1>10 DEF Quits, Stopping
  <2> QED
    BY <1>2, <1>3, <2>1 DEF AnswerInv, Typed
<1>11. CASE Taken(r) /\ Answers(First(r))
  <2>1. /\ First(r).kind = "get" /\ main' \notin Stopping
        /\ ctrl' = ctrl \cup {"D"} /\ rc2' = First(r).n
    BY <1>11 DEF Answers
  <2>2. /\ First(r) = Item(r, 0) /\ Item(r, 0) \in Command /\ r.length > 0
        /\ q'.length = r.length - 1
        /\ \A i \in Places(q') : Item(q', i) = Item(r, i + 1) /\ i + 1 \in Places(r) /\ 0 < i + 1
    <3>1. r.length > 0 /\ q' = Dequeue(r)
      BY <1>11 DEF Taken
    <3>2. q'.length = r.length - 1 /\ First(r) = Item(r, 0)
          /\ \A i \in Places(q') : Item(q', i) = Item(r, i + 1)
      BY <1>1, <3>1, Dequeued
    <3>3. r.length \in Nat
      BY <1>1 DEF Queues
    <3>4. 0 \in Places(r) /\ \A i \in Places(q') : i + 1 \in Places(r) /\ 0 < i + 1
      BY <3>1, <3>2, <3>3 DEF Places
    <3> QED
      BY <1>1, <3>1, <3>2, <3>4 DEF Kept
  <2>3. 0 \in Places(r)
    BY <1>1, <2>2 DEF Places, Queues
  <2>4. Item(r, 0) = cmd /\ arexx = "answer"
    BY <1>5, <2>1, <2>2, <2>3 DEF Gets
  <2>5. NoGet(q')
    <3> SUFFICES ASSUME NEW i \in Places(q'), Item(q', i).kind = "get" PROVE FALSE
      BY DEF NoGet
    <3>1. i + 1 \in Places(r) /\ Item(r, i + 1) = cmd /\ 0 < i + 1
      BY <1>5, <2>2 DEF Gets
    <3>2. Item(r, 0).n < Item(r, i + 1).n
      BY <1>1, <2>3, <2>4, <3>1 DEF Kept
    <3>3. cmd.n \in Nat
      BY <2>2, <2>4, IsCommand
    <3> QED
      BY <2>4, <3>1, <3>2, <3>3
  <2>6. rc2' = cmd.n /\ cmd.n \in 0 .. MaxArexx
    <3>1. cmd \in Command /\ cmd.kind = "get"
      BY <2>1, <2>2, <2>4
    <3>2. cmd.n \in 1 .. MaxArexx
      BY <3>1, IsCommand
    <3> QED
      BY <2>1, <2>2, <2>4, <3>2
  <2>7. ctrl' \subseteq {"C", "D"} /\ "C" \notin ctrl'
    BY <1>3, <2>1 DEF Typed
  <2>8. NoGet(q)'
    BY <2>5 DEF NoGet
  <2> QED
    BY <1>2, <1>3, <1>8, <2>1, <2>4, <2>6, <2>7, <2>8 DEF AnswerInv
<1> QED
  BY <1>9, <1>10, <1>11 DEF Does

LEMMA MixedTyped ==
  ASSUME Typed, Next
  PROVE  mixed' \in BOOLEAN
<1>1. ASSUME NEW c, NEW r, Take(c, r) \/ Leave(r)
      PROVE  mixed' \in BOOLEAN
  BY <1>1 DEF Take, Leave, Typed
<1>2. CASE Check \/ CheckWake
  <2>1. \E c, r : Take(c, r) \/ Leave(r)
    BY <1>2 DEF Check, CheckWake, Checked
  <2> QED
    BY <1>1, <2>1
<1>3. CASE PauseLook \/ PauseWake
  <2>1. \E c, r : Take(c, r) \/ Leave(r)
    BY <1>3 DEF PauseLook, PauseWake, Unpaused
  <2> QED
    BY <1>1, <2>1
<1>4. CASE Poll \/ QueueOwn \/ WasInterrupted \/ Stop \/ ArexxStep
  <2>1. mixed' = mixed
    BY <1>4 DEF Poll, QueueOwn, WasInterrupted, Stop, ArexxStep, Receive, NextMessage, Message, Break,
                Return, PostStore, PostEnd, PostLoad, PostLength, Post, TakeAnswer, Wake, noted
  <2> QED
    BY <2>1 DEF Typed
<1> QED
  BY <1>2, <1>3, <1>4 DEF Next, MainStep

LEMMA MainInd ==
  ASSUME IInv, MainStep, ~clashed'
  PROVE  IInv'
<1>1. CASE Stop
  <2>1. /\ main = "stopping" /\ child /\ main' = "stopped" /\ child' = FALSE
        /\ UNCHANGED <<q, keys, arexx, cmd, reg, result, ctrl, rc2, ran, lost, mixed>>
    BY <1>1 DEF Stop, Ended, arexxVars, history, noted
  <2>2. Typed'
    BY <2>1 DEF IInv, Typed
  <2>3. QueueInv'
    BY <2>1 DEF IInv, QueueInv, PostInv, Posted, Sent
  <2>4. AnswerInv' /\ EndInv'
    BY <2>1 DEF IInv, AnswerInv, EndInv, Stopping
  <2> QED
    BY <2>2, <2>3, <2>4 DEF IInv
<1>2. CASE ~Stop
  <2>w. Watch /\ main \notin Stopping
    BY <1>2 DEF MainStep, Poll, QueueOwn, Check, CheckWake, WasInterrupted, PauseLook, PauseWake,
                Stopping
  <2>1. ~Clash /\ main \notin Stopping
    BY <2>w DEF Watch
  <2>2. PICK r : Does(r)
    BY <1>2, PollDoes, CheckDoes, PauseDoes DEF MainStep, IInv
  <2>3. MainQueue(r) /\ main' \in Mains /\ UNCHANGED <<arexx, cmd, reg, result>>
    BY <2>2 DEF Does, arexxVars
  <2>c. (arexx \in Posting => r = q) /\ (arexx = "length" => q' = q)
    BY <2>1, <2>3, NoClash DEF IInv
  <2>4. QueueInv'
    BY <2>3, <2>c, MainKept DEF IInv
  <2>5. AnswerInv' /\ ctrl' \subseteq {"C", "D"} /\ rc2' \in 0 .. MaxArexx
    BY <2>1, <2>2, <2>c, MainAnswers DEF IInv
  <2>6. child' = child
    BY <2>2 DEF Does, Quits, Silently, Answers, signals
  <2>7. Typed'
    <3>1. mixed' \in BOOLEAN
      BY MixedTyped DEF IInv, Next
    <3>2. keys' \in 0 .. MaxKeys
      BY <2>3 DEF MainQueue
    <3> QED
      BY <2>3, <2>5, <2>6, <3>1, <3>2 DEF IInv, Typed, Mains
  <2>8. EndInv'
    BY <2>3, <2>6 DEF IInv, EndInv, Mains
  <2> QED
    BY <2>4, <2>5, <2>7, <2>8 DEF IInv
<1> QED
  BY <1>1, <1>2


-----------------------------------------------------------------------------
(* The ARexx task's steps. *)

LEMMA MessageInd ==
  ASSUME IInv, NEW clear, clear \subseteq {"D"}, arexx \in {"wait", "handler"}, Message(clear)
  PROVE  IInv'
<1>1. /\ Sent < MaxArexx /\ Sent \in Nat /\ Posted = Sent
      /\ Ends(q) /\ Kept(q, keys, Sent, ran, lost) /\ keys \in Nat
  BY SentIs DEF Message, Posted, Posting, IInv, QueueInv, PostInv, Typed
<1>2. /\ UNCHANGED <<q, reg, result, main, keys, child, rc2, ran, mixed>>
      /\ ctrl' = ctrl \ clear
  BY DEF Message, mainVars, noted
<1>3. cmd' \in Command /\ cmd'.from = "arexx" /\ cmd'.n = Sent + 1 /\ cmd' # None
  <2>1. PICK k \in ArexxKinds : cmd' = [from |-> "arexx", n |-> Sent + 1, kind |-> k]
    BY DEF Message
  <2>2. Sent + 1 \in 1 .. MaxArexx
    BY <1>1
  <2>3. cmd' \in Command
    BY <2>1, <2>2 DEF Command
  <2> QED
    BY <2>1, <2>3, NoneAssumption
<1>4. Sent' = Sent + 1
  BY <1>3 DEF Sent
<1>5. CASE Full(q)
  <2>1. arexx' \in {"answer", "handler"} /\ lost' = lost \cup {Sent + 1}
    BY <1>3, <1>5 DEF Message, Drop, Number
  <2>2. Kept(q, keys, Sent + 1, ran, lost \cup {Sent + 1})
    BY <1>1, KeptRefused
  <2>3. Posted' = Sent + 1
    BY <1>4, <2>1 DEF Posted, Posting
  <2>4. QueueInv'
    BY <1>1, <1>2, <1>3, <2>1, <2>2, <2>3 DEF QueueInv, PostInv, Posting, Ends
  <2>5. Typed'
    BY <1>2, <1>3, <2>1 DEF IInv, Typed
  <2>6. EndInv'
    BY <1>2, <2>1 DEF IInv, EndInv
  <2>7. main \notin Stopping => NoGet(q) /\ "D" \notin ctrl
    BY DEF IInv, AnswerInv, Gets, NoGet
  <2>8. Gets(q)' \/ main' \in Stopping
    BY <1>2, <2>7 DEF Gets, NoGet
  <2>9. AnswerInv'
    BY <1>2, <2>1, <2>7, <2>8 DEF IInv, AnswerInv, EndInv
  <2> QED
    BY <2>4, <2>5, <2>6, <2>9 DEF IInv
<1>6. CASE ~Full(q)
  <2>1. arexx' = "store" /\ lost' = lost
    BY <1>6 DEF Message
  <2>2. Posted' = Sent
    <3>1. Posted' = (Sent + 1) - 1
      BY <1>4, <2>1 DEF Posted, Posting
    <3> QED
      BY <1>1, <3>1
  <2>3. q.length < Size
    BY <1>1, <1>6 DEF Full, Kept, Queues
  <2>4. QueueInv'
    BY <1>1, <1>2, <1>3, <2>1, <2>2, <2>3 DEF QueueInv, PostInv, Posting, Ends
  <2>5. Typed'
    BY <1>2, <1>3, <2>1 DEF IInv, Typed, Posting
  <2>6. EndInv'
    BY <1>2, <2>1 DEF IInv, EndInv
  <2>7. main \notin Stopping => NoGet(q) /\ "D" \notin ctrl
    BY DEF IInv, AnswerInv, Gets, NoGet
  <2>8. Gets(q)' \/ main' \in Stopping
    BY <1>2, <2>7 DEF Gets, NoGet
  <2>9. AnswerInv'
    BY <1>2, <2>1, <2>7, <2>8 DEF IInv, AnswerInv, EndInv
  <2> QED
    BY <2>4, <2>5, <2>6, <2>9 DEF IInv
<1> QED
  BY <1>5, <1>6

LEMMA PostInd ==
  ASSUME IInv, PostStore \/ PostEnd \/ PostLoad \/ PostLength
  PROVE  IInv'
<1>1. /\ arexx \in Posting /\ q \in Queues /\ q.length \in Nat /\ q.length < Size
      /\ cmd \in Command /\ cmd.from = "arexx" /\ Sent = cmd.n /\ Sent \in Nat \ {0}
      /\ Posted = Sent - 1 /\ keys \in Nat
      /\ Kept(q, keys, Posted, ran, lost)
  <2>1. arexx \in Posting
    BY DEF PostStore, PostEnd, PostLoad, PostLength, Post, Posting
  <2>2. cmd # None
    BY <2>1 DEF IInv, QueueInv, PostInv
  <2>3. Sent \in Nat \ {0}
    BY <2>2, SentIs DEF IInv
  <2>4. Posted = Sent - 1
    BY <2>1 DEF Posted
  <2> QED
    BY <2>1, <2>2, <2>3, <2>4, SentIs DEF IInv, QueueInv, PostInv, Typed, Kept, Queues
<1>2. UNCHANGED <<main, keys, cmd, result, ctrl, child, rc2, ran, lost, mixed>>
  BY DEF PostStore, PostEnd, PostLoad, PostLength, Post, mainVars, signals, history, noted
<1>3. Sent' = Sent
  BY <1>2 DEF Sent
<1>4. main \notin Stopping => NoGet(q) /\ "D" \notin ctrl
  BY <1>1 DEF IInv, AnswerInv, Gets, NoGet, Posting
<1>5. CASE PostStore
  <2>1. arexx = "store" /\ arexx' = "end" /\ reg' = reg /\ q' = [q EXCEPT !.slot[q.end] = cmd]
    BY <1>5 DEF PostStore, Post
  <2>2. /\ q'.slot = [q.slot EXCEPT ![q.end] = cmd] /\ q'.start = q.start /\ q'.end = q.end
        /\ q'.length = q.length
    BY <1>1, <2>1 DEF Queues
  <2>3. q.slot \in [Slots -> Command \cup {None}] /\ q.start \in Slots /\ q.end \in Slots /\ Ends(q)
    BY <1>1, <2>1 DEF Queues, IInv, QueueInv, PostInv
  <2>4. q' \in Queues
    <3>1. [q.slot EXCEPT ![q.end] = cmd] \in [Slots -> Command \cup {None}]
      BY <1>1, <2>3
    <3> QED
      BY <1>1, <2>1, <3>1 DEF Queues
  <2>5. ASSUME NEW i \in Places(q)
        PROVE  Item(q', i) = Item(q, i)
    <3>1. i \in 0 .. Size - 1 /\ q.length \in 0 .. Size - 1 /\ i # q.length
      BY <1>1 DEF Places
    <3>2. (q.start + i) % Size # q.end
      BY <2>3, <3>1, Apart DEF Ends
    <3> QED
      BY <2>2, <2>3, <3>2 DEF Item
  <2>6. Item(q', q'.length) = cmd
    BY <2>2, <2>3 DEF Item, Ends
  <2>7. Posted' = Posted
    BY <1>3, <2>1 DEF Posted, Posting
  <2>8. Kept(q', keys, Posted, ran, lost)
    BY <1>1, <2>2, <2>4, <2>5, KeptSame
  <2>9. QueueInv'
    <3>1. Ends(q')
      BY <2>2, <2>3 DEF Ends
    <3> QED
      BY <1>1, <1>2, <2>1, <2>2, <2>6, <2>7, <2>8, <3>1, NoneAssumption
         DEF QueueInv, PostInv, Posting, Ends, Item
  <2>10. NoGet(q) => NoGet(q')
    BY <2>2, <2>5 DEF NoGet, Places
  <2>11. Gets(q)' \/ main' \in Stopping
    BY <1>2, <1>4, <2>10 DEF Gets, NoGet
  <2>12. Typed' /\ EndInv' /\ AnswerInv'
    BY <1>1, <1>2, <1>4, <2>1, <2>11 DEF IInv, Typed, EndInv, AnswerInv, Posting
  <2> QED
    BY <2>9, <2>12 DEF IInv
<1>6. CASE PostEnd
  <2>1. arexx = "end" /\ arexx' = "load" /\ reg' = reg /\ q' = [q EXCEPT !.end = (@ + 1) % Size]
    BY <1>6 DEF PostEnd, Post
  <2>2. /\ q'.slot = q.slot /\ q'.start = q.start /\ q'.end = (q.end + 1) % Size
        /\ q'.length = q.length
    BY <1>1, <2>1 DEF Queues
  <2>3. q.start \in Slots /\ q.end \in Slots /\ Ends(q) /\ Item(q, q.length) = cmd
    BY <1>1, <2>1 DEF Queues, IInv, QueueInv, PostInv, Posting
  <2>4. q' \in Queues
    <3>1. q.end + 1 \in Int
      BY <2>3, SlotIs
    <3>2. (q.end + 1) % Size \in Slots
      BY <3>1, Mod
    <3> QED
      BY <1>1, <2>1, <3>2 DEF Queues
  <2>5. q'.end = (q'.start + (q'.length + 1)) % Size
    <3>1. q.start + q.length \in Int /\ 0 <= q.start + q.length /\ q.start + q.length < 2 * Size
      BY <1>1, <2>3, SlotIs
    <3>2. q.start + (q.length + 1) = (q.start + q.length) + 1
      BY <1>1, <2>3, SlotIs
    <3> QED
      BY <2>2, <2>3, <3>1, <3>2, Further DEF Ends
  <2>6. \A i : Item(q', i) = Item(q, i)
    BY <2>2 DEF Item
  <2>7. Posted' = Posted
    BY <1>3, <2>1 DEF Posted, Posting
  <2>8. Kept(q', keys, Posted, ran, lost)
    BY <1>1, <2>2, <2>4, <2>6, KeptSame
  <2>9. QueueInv'
    BY <1>1, <1>2, <2>1, <2>2, <2>3, <2>5, <2>6, <2>7, <2>8, NoneAssumption
       DEF QueueInv, PostInv, Posting
  <2>10. NoGet(q) => NoGet(q')
    BY <2>2, <2>6 DEF NoGet, Places
  <2>11. Gets(q)' \/ main' \in Stopping
    BY <1>2, <1>4, <2>10 DEF Gets, NoGet
  <2>12. Typed' /\ EndInv' /\ AnswerInv'
    BY <1>1, <1>2, <1>4, <2>1, <2>11 DEF IInv, Typed, EndInv, AnswerInv, Posting
  <2> QED
    BY <2>9, <2>12 DEF IInv
<1>7. CASE PostLoad
  <2>1. arexx = "load" /\ arexx' = "length" /\ reg' = q.length /\ q' = q
    BY <1>7 DEF PostLoad, Post
  <2>2. Posted' = Posted
    BY <1>3, <2>1 DEF Posted, Posting
  <2>3. QueueInv'
    BY <1>2, <2>1, <2>2 DEF IInv, QueueInv, PostInv, Posting
  <2>4. reg' \in 0 .. Size
    BY <1>1, <2>1 DEF Queues
  <2>5. Gets(q)' \/ main' \in Stopping
    BY <1>2, <1>4, <2>1 DEF Gets, NoGet
  <2>6. Typed' /\ EndInv' /\ AnswerInv'
    BY <1>1, <1>2, <1>4, <2>1, <2>4, <2>5 DEF IInv, Typed, EndInv, AnswerInv, Posting
  <2> QED
    BY <2>3, <2>6 DEF IInv
<1>8. CASE PostLength
  <2>1. /\ arexx = "length" /\ arexx' = IF cmd.kind = "get" THEN "answer" ELSE "handler"
        /\ reg' = 0 /\ q' = [q EXCEPT !.length = reg + 1] /\ reg = q.length
    BY <1>8 DEF PostLength, Post, IInv, QueueInv, PostInv
  <2>2. /\ q'.slot = q.slot /\ q'.start = q.start /\ q'.end = q.end
        /\ q'.length = q.length + 1
    BY <1>1, <2>1 DEF Queues
  <2>3. q.end = (q.start + (q.length + 1)) % Size /\ Item(q, q.length) = cmd
    BY <2>1 DEF IInv, QueueInv, PostInv, Posting
  <2>4. q' \in Queues /\ Ends(q')
    <3>1. q.length + 1 \in 0 .. Size
      BY <1>1
    <3>2. q' = [q EXCEPT !.length = q.length + 1]
      BY <2>1
    <3> QED
      BY <1>1, <2>2, <2>3, <3>1, <3>2 DEF Queues, Ends
  <2>5. \A i : Item(q', i) = Item(q, i)
    BY <2>2 DEF Item
  <2>6. Posted' = Sent /\ Sent = Posted + 1 /\ Posted \in Nat
    BY <1>1, <1>3, <2>1 DEF Posted, Posting
  <2>7. Kept(q', keys, Sent, ran, lost)
    <3>1. cmd.n = Posted + 1 /\ Item(q', q.length) = cmd /\ \A i \in Places(q) : Item(q', i) = Item(q, i)
      BY <1>1, <2>3, <2>5, <2>6
    <3>2. /\ keys \in Nat /\ Posted \in Nat /\ Posted + 1 \in Nat /\ Kept(q, keys, Posted, ran, lost)
          /\ cmd \in Command /\ cmd.from = "arexx" /\ q' \in Queues /\ q'.length = q.length + 1
      BY <1>1, <2>2, <2>4, <2>6
    <3>3. Kept(q', keys, Posted + 1, ran, lost)
      BY <3>1, <3>2, KeptMore
    <3> QED
      BY <2>6, <3>3
  <2>8. arexx' \in {"answer", "handler"}
    BY <2>1
  <2>9. QueueInv'
    BY <1>1, <1>2, <2>4, <2>6, <2>7, <2>8, NoneAssumption DEF QueueInv, PostInv, Posting, Ends
  <2>10. Gets(q)' \/ main' \in Stopping
    <3> SUFFICES ASSUME main \notin Stopping, NEW i \in Places(q'), Item(q', i).kind = "get"
                 PROVE  Item(q', i) = cmd' /\ arexx' = "answer"
      BY <1>2 DEF Gets
    <3>1. i \in Places(q) \/ i = q.length
      BY <1>1, <2>2 DEF Places
    <3>2. i = q.length
      BY <1>4, <2>5, <3>1 DEF NoGet
    <3> QED
      BY <1>2, <2>1, <2>3, <2>5, <3>2
  <2>11. Typed' /\ EndInv' /\ AnswerInv'
    BY <1>1, <1>2, <1>4, <2>1, <2>8, <2>10 DEF IInv, Typed, EndInv, AnswerInv, Posting
  <2> QED
    BY <2>9, <2>11 DEF IInv
<1> QED
  BY <1>5, <1>6, <1>7, <1>8

LEMMA ArexxInd ==
  ASSUME IInv, ArexxStep
  PROVE  IInv'
<1>1. CASE Receive \/ NextMessage
  BY <1>1, MessageInd DEF Receive, NextMessage
<1>2. CASE PostStore \/ PostEnd \/ PostLoad \/ PostLength
  BY <1>2, PostInd
<1>3. CASE Break \/ Return
  <2>1. /\ arexx \in {"wait", "handler"} /\ arexx' \in {"wait", "ended"}
        /\ UNCHANGED <<q, main, keys, cmd, reg, result, rc2, ran, lost, mixed>>
    BY <1>3 DEF Break, Return, mainVars, signals, history, noted
  <2>2. \/ arexx' = "ended" /\ "C" \in ctrl /\ ctrl' = {} /\ child' = TRUE
        \/ arexx' = "wait" /\ ctrl' = ctrl /\ child' = child
    BY <1>3 DEF Break, Return, signals
  <2>3. QueueInv'
    <3>1. Posted' = Posted
      BY <2>1 DEF Posted, Posting, Sent
    <3>2. PostInv'
      BY <2>1 DEF IInv, QueueInv, PostInv, Posting, Ends
    <3> QED
      BY <2>1, <3>1, <3>2 DEF IInv, QueueInv
  <2>4. Typed' /\ EndInv'
    <3>1. main' # "stopped" /\ ~child
      BY <2>1 DEF IInv, EndInv
    <3>2. EndInv'
      <4>1. CASE arexx' = "ended"
        BY <4>1 DEF EndInv
      <4>2. CASE child' = child
        BY <3>1, <4>2 DEF EndInv
      <4> QED
        BY <2>2, <4>1, <4>2
    <3>3. ctrl' \subseteq {"C", "D"}
      BY <2>2 DEF IInv, Typed
    <3>4. child' \in BOOLEAN
      BY <2>2, Zenon DEF IInv, Typed
    <3> QED
      BY <2>1, <3>2, <3>3, <3>4 DEF IInv, Typed
  <2>5. main \notin Stopping => NoGet(q) /\ "D" \notin ctrl
    BY <2>1 DEF IInv, AnswerInv, Gets, NoGet
  <2>6. Gets(q)' \/ main' \in Stopping
    BY <2>1, <2>5 DEF Gets, NoGet
  <2>7. AnswerInv'
    BY <2>1, <2>2, <2>5, <2>6 DEF IInv, AnswerInv, EndInv
  <2> QED
    BY <2>3, <2>4, <2>7 DEF IInv
<1>4. CASE TakeAnswer
  <2>1. /\ arexx = "answer" /\ ctrl # {} /\ ctrl' = ctrl \ {"D"} /\ arexx' = "handler"
        /\ rc2' = IF "C" \in ctrl THEN 0 ELSE rc2
        /\ result' = [asked |-> cmd.n, got |-> rc2']
        /\ UNCHANGED <<q, main, keys, cmd, reg, child, ran, lost, mixed>>
    BY <1>4 DEF TakeAnswer, Wake, mainVars, history, noted
  <2>2. cmd # None /\ cmd.n \in 0 .. MaxArexx
    BY <2>1, SentIs DEF IInv, QueueInv, PostInv
  <2>3. QueueInv'
    <3>1. Posted' = Posted
      BY <2>1 DEF Posted, Posting, Sent
    <3>2. PostInv'
      BY <2>1 DEF IInv, QueueInv, PostInv, Posting, Ends
    <3> QED
      BY <2>1, <3>1, <3>2 DEF IInv, QueueInv
  <2>4. result'.asked = cmd.n /\ result'.got = rc2' /\ rc2' \in 0 .. MaxArexx
        /\ result' \in [asked : 0 .. MaxArexx, got : 0 .. MaxArexx]
    BY <2>1, <2>2 DEF IInv, Typed
  <2>5. Typed' /\ EndInv'
    BY <2>1, <2>4 DEF IInv, Typed, EndInv
  <2>6. main \notin Stopping => /\ "C" \notin ctrl /\ "D" \in ctrl /\ rc2' = cmd.n /\ NoGet(q)
    <3>1. main \notin Stopping => "C" \notin ctrl
      BY DEF IInv, AnswerInv
    <3>2. ctrl \subseteq {"C", "D"}
      BY DEF IInv, Typed
    <3> QED
      BY <2>1, <3>1, <3>2 DEF IInv, AnswerInv
  <2>7. main \in Stopping => "C" \in ctrl /\ rc2' = 0
    BY <2>1 DEF IInv, AnswerInv
  <2>8. Gets(q)' \/ main' \in Stopping
    BY <2>1, <2>6 DEF Gets, NoGet
  <2>9. AnswerInv'
    BY <2>1, <2>4, <2>6, <2>7, <2>8 DEF IInv, AnswerInv
  <2> QED
    BY <2>3, <2>5, <2>9 DEF IInv
<1> QED
  BY <1>1, <1>2, <1>3, <1>4 DEF ArexxStep


-----------------------------------------------------------------------------
(* The theorems. *)

LEMMA Initially == Init => IInv
<1> SUFFICES ASSUME Init PROVE IInv
  OBVIOUS
<1>1. /\ q = [slot |-> [i \in Slots |-> None], start |-> 0, end |-> 0, length |-> 0]
      /\ main = "loop" /\ keys = 0 /\ arexx = "wait" /\ cmd = None /\ reg = 0
      /\ ctrl = {} /\ child = FALSE /\ rc2 = 0
      /\ result = [asked |-> 0, got |-> 0]
      /\ ran = <<>> /\ lost = {} /\ mixed = FALSE
  BY DEF Init, Slots
<1>2. 0 \in Slots /\ q.start = 0 /\ q.end = 0 /\ q.length = 0 /\ q \in Queues
  BY <1>1 DEF Slots, Queues
<1>3. Ends(q) /\ Places(q) = {}
  <2>1. 0 % Size = 0
    BY Mod
  <2> QED
    BY <1>2, <2>1 DEF Ends, Places
<1>4. Posted = 0
  BY <1>1 DEF Posted, Sent, Posting
<1>5. DOMAIN ran = {} /\ ran \in Seq(1 .. MaxArexx)
  BY <1>1
<1>6. Kept(q, keys, Posted, ran, lost)
  BY <1>1, <1>2, <1>3, <1>4, <1>5 DEF Kept
<1>7. Typed
  <2>1. 0 \in 0 .. MaxArexx /\ 0 \in 0 .. MaxKeys /\ 0 \in 0 .. Size
    OBVIOUS
  <2>2. result \in [asked : 0 .. MaxArexx, got : 0 .. MaxArexx]
    BY <1>1, <2>1
  <2>3. child \in BOOLEAN /\ mixed \in BOOLEAN
    BY <1>1, Zenon
  <2> QED
    BY <1>1, <2>1, <2>2, <2>3 DEF Typed
<1>8. PostInv
  BY <1>1, <1>3 DEF PostInv, Posting
<1>9. AnswerInv
  BY <1>1, <1>3 DEF AnswerInv, Stopping, Gets
<1> QED
  BY <1>1, <1>6, <1>7, <1>8, <1>9 DEF IInv, QueueInv, EndInv

LEMMA Inductive == IInv /\ [Next]_vars /\ ~clashed' => IInv'
<1> SUFFICES ASSUME IInv, [Next]_vars, ~clashed' PROVE IInv'
  OBVIOUS
<1>1. CASE Next
  BY <1>1, MainInd, ArexxInd DEF Next
<1>2. CASE UNCHANGED vars
  <2>1. UNCHANGED <<q, main, keys, arexx, cmd, reg, result, ctrl, child, rc2, ran, lost, mixed>>
    BY <1>2 DEF vars, mainVars, arexxVars, signals, history, noted
  <2>2. Typed' /\ AnswerInv' /\ EndInv'
    BY <2>1 DEF IInv, Typed, AnswerInv, Gets, NoGet, EndInv
  <2>3. QueueInv'
    BY <2>1 DEF IInv, QueueInv, PostInv, Posted, Sent
  <2> QED
    BY <2>2, <2>3 DEF IInv
<1> QED
  BY <1>1, <1>2

\* No command is at two places of the queue.
LEMMA CountPlaces ==
  ASSUME NEW r, NEW k, NEW p, NEW s, NEW l, Kept(r, k, p, s, l)
  PROVE  Cardinality({Item(r, i) : i \in Places(r)}) = r.length
<1> DEFINE T == {Item(r, i) : i \in Places(r)}
           f == [i \in Places(r) |-> Item(r, i)]
<1>1. r.length \in Nat /\ Places(r) = 0 .. r.length - 1
  BY DEF Kept, Queues, Places
<1>2. \A i \in Places(r) : Item(r, i).n \in Nat
  BY IsCommand DEF Kept
<1>3. ASSUME NEW i \in Places(r), NEW j \in Places(r), Item(r, i) = Item(r, j)
      PROVE  i = j
  <2>1. ~(i < j) /\ ~(j < i)
    BY <1>2, <1>3 DEF Kept
  <2> QED
    BY <1>1, <2>1
<1>4. f \in Bijection(Places(r), T)
  <2>1. f \in [Places(r) -> T] /\ \A i \in Places(r) : f[i] = Item(r, i)
    OBVIOUS
  <2>2. \A t \in T : \E i \in Places(r) : f[i] = t
    BY <2>1
  <2> HIDE DEF T, f
  <2>3. f \in Injection(Places(r), T)
    BY <1>3, <2>1 DEF Injection, IsInjective
  <2>4. f \in Surjection(Places(r), T)
    BY <2>1, <2>2 DEF Surjection
  <2> QED
    BY <2>3, <2>4 DEF Bijection
<1>5. IsFiniteSet(Places(r)) /\ Cardinality(Places(r)) = r.length
  <2> DEFINE n == r.length - 1
  <2>1. n \in Int /\ Places(r) = 0 .. n /\ n + 1 = r.length /\ ~(n + 1 < 0)
    BY <1>1
  <2> HIDE DEF n
  <2>2. IsFiniteSet(0 .. n) /\ Cardinality(0 .. n) = IF 0 > n THEN 0 ELSE n - 0 + 1
    BY <2>1, FS_Interval
  <2>3. Cardinality(0 .. n) = n + 1
    BY <2>1, <2>2
  <2> QED
    BY <2>1, <2>2, <2>3
<1> HIDE DEF T, f
<1>6. Cardinality(Places(r)) = Cardinality(T)
  <2>1. ExistsBijection(Places(r), T)
    BY <1>4 DEF ExistsBijection
  <2>2. IsFiniteSet(Places(r))
    BY <1>5
  <2> HIDE DEF Places
  <2> QED
    BY <2>1, <2>2, FS_Bijection
<1>7. Cardinality(T) = r.length
  BY <1>5, <1>6
<1> QED
  BY <1>7 DEF T

\* The invariant gives the types.
Flag == clashed \in BOOLEAN
LEMMA InvTypes == IInv /\ Flag => TypeOK
<1> SUFFICES ASSUME IInv, Flag PROVE TypeOK
  OBVIOUS
<1>1. q \in Queues /\ ran \in Seq(1 .. MaxArexx) /\ lost \subseteq 1 .. Posted
  BY DEF IInv, QueueInv, Kept
<1>2. lost \subseteq 1 .. MaxArexx
  <2>1. Sent \in 0 .. MaxArexx
    BY SentIs DEF IInv
  <2>2. Posted \in Int /\ Posted <= MaxArexx
    BY <2>1 DEF Posted
  <2> QED
    BY <1>1, <2>2
<1> QED
  BY <1>1, <1>2 DEF IInv, Typed, TypeOK, Queues, Slots, Flag

LEMMA InvTypesNext == IInv' /\ Flag' => TypeOK'
BY InvTypes, PTL

\* A Clash too leaves commands in the queue, for one step.
LEMMA FirstTyped ==
  ASSUME Typed, QueueInv, NEW r, Put(r), keys' \in 0 .. MaxKeys
  PROVE  r \in Queues /\ (r.length > 0 => First(r) \in Command)
<1>1. /\ q \in Queues /\ q.length \in Nat /\ q.start \in Slots /\ q.end \in Slots
      /\ q.slot \in [Slots -> Command \cup {None}]
      /\ \A i \in Places(q) : Item(q, i) \in Command
  BY DEF QueueInv, Kept, Queues
<1>2. Item(q, 0) = q.slot[q.start] /\ q.start % Size = q.start
  <2>1. q.start \in Int /\ 0 <= q.start /\ q.start < Size /\ q.start + 0 = q.start
    BY <1>1, SlotIs
  <2>2. q.start % Size = q.start
    BY <2>1, Mod
  <2> QED
    BY <2>1, <2>2 DEF Item
<1>3. q.length > 0 => q.slot[q.start] \in Command
  BY <1>1, <1>2 DEF Places
<1>4. CASE r = q
  BY <1>1, <1>3, <1>4 DEF First
<1>5. ASSUME NEW c \in Key \ {None}, r = Enqueue(q, c), keys' = keys + 1, r # q
      PROVE  r \in Queues /\ First(r) \in Command
  <2>1. ~Full(q) /\ r = [q EXCEPT !.slot[q.end] = c, !.end = (q.end + 1) % Size, !.length = @ + 1]
    BY <1>5 DEF Enqueue
  <2>2. /\ r.slot = [q.slot EXCEPT ![q.end] = c] /\ r.start = q.start
        /\ r.end = (q.end + 1) % Size /\ r.length = q.length + 1
    BY <1>1, <2>1 DEF Queues
  <2>3. c \in Command
    <3>1. c \in UserCommand /\ keys < MaxKeys
      BY <1>5 DEF Key
    <3>2. PICK kind \in KeyKinds : c = [from |-> "key", n |-> keys + 1, kind |-> kind]
      BY <3>1 DEF UserCommand
    <3>3. keys + 1 \in 1 .. MaxKeys
      BY <3>1 DEF Typed
    <3> QED
      BY <3>2, <3>3 DEF Command
  <2>4. (q.end + 1) % Size \in Slots /\ q.length + 1 \in 0 .. Size
    <3>1. q.end + 1 \in Int
      BY <1>1, SlotIs
    <3>2. q.length \in 0 .. Size /\ ~(q.length >= Size)
      BY <2>1 DEF Full, QueueInv, Kept, Queues
    <3>3. q.length + 1 \in 0 .. Size
      BY <3>2
    <3> QED
      BY <3>1, <3>3, Mod
  <2>5. r \in Queues
    <3>1. [q.slot EXCEPT ![q.end] = c] \in [Slots -> Command \cup {None}]
      BY <1>1, <2>3
    <3> QED
      BY <1>1, <2>1, <2>4, <3>1 DEF Queues
  <2>6. q.end # q.start => q.slot[q.start] \in Command
    <3> SUFFICES ASSUME q.end # q.start, q.length = 0 PROVE q.slot[q.start] \in Command
      BY <1>1, <1>3
    <3>1. ~Ends(q)
      <4>1. q.start + 0 = q.start
        BY <1>1, SlotIs
      <4> QED
        BY <1>2, <4>1 DEF Ends
    <3>2. arexx \in {"load", "length"}
      BY <3>1 DEF QueueInv, PostInv
    <3>3. Item(q, 0) = cmd /\ cmd # None
      BY <3>2 DEF QueueInv, PostInv, Posting
    <3> QED
      BY <1>2, <3>3 DEF Typed
  <2>7. First(r) = IF q.end = q.start THEN c ELSE q.slot[q.start]
    BY <1>1, <2>2 DEF First
  <2> QED
    BY <2>3, <2>5, <2>6, <2>7
<1> QED
  BY <1>4, <1>5 DEF Put

LEMMA MainTyped ==
  ASSUME IInv, NEW r, Does(r), mixed' \in BOOLEAN, clashed' \in BOOLEAN
  PROVE  TypeOK'
<1>1. /\ Typed /\ QueueInv /\ MainQueue(r) /\ Put(r) /\ keys' \in 0 .. MaxKeys
      /\ main' \in Mains /\ UNCHANGED <<arexx, cmd, reg, result>>
  BY DEF IInv, Does, MainQueue, arexxVars
<1>2. r \in Queues /\ (r.length > 0 => First(r) \in Command)
  BY <1>1, FirstTyped
<1>3. ran \in Seq(1 .. MaxArexx) /\ lost \subseteq 1 .. MaxArexx
  <2>1. Sent \in 0 .. MaxArexx
    BY <1>1, SentIs
  <2>2. Posted \in Int /\ Posted <= MaxArexx
    BY <2>1 DEF Posted
  <2>3. ran \in Seq(1 .. MaxArexx) /\ lost \subseteq 1 .. Posted
    BY <1>1 DEF QueueInv, Kept
  <2> QED
    BY <2>2, <2>3
<1>4. q' \in Queues /\ ran' \in Seq(1 .. MaxArexx) /\ lost' \subseteq 1 .. MaxArexx
  <2>1. CASE q' = r /\ UNCHANGED history
    BY <1>2, <1>3, <2>1 DEF history
  <2>2. CASE Taken(r)
    <3>1. r.length > 0 /\ q' = Dequeue(r) /\ First(r) \in Command
      BY <1>2, <2>2 DEF Taken
    <3>2. q' \in Queues
      BY <1>2, <3>1, Dequeued
    <3>3. Number(First(r)) = {} \/ (Number(First(r)) = {First(r).n} /\ First(r).n \in 1 .. MaxArexx)
      BY <3>1, IsCommand DEF Number
    <3>4. CASE Run(First(r)) /\ lost' = lost
      <4>1. CASE Number(First(r)) = {}
        BY <1>3, <3>2, <3>4, <4>1 DEF Run
      <4>2. CASE Number(First(r)) # {}
        <5>1. ran' = Append(ran, First(r).n) /\ First(r).n \in 1 .. MaxArexx
          BY <3>3, <3>4, <4>2 DEF Run
        <5> QED
          BY <1>3, <3>2, <3>4, <5>1
      <4> QED
        BY <4>1, <4>2
    <3>5. CASE Drop(First(r)) /\ ran' = ran
      BY <1>3, <3>2, <3>3, <3>5 DEF Drop
    <3> QED
      BY <2>2, <3>4, <3>5 DEF Taken
  <2> QED
    BY <1>1, <2>1, <2>2 DEF MainQueue
<1>5. ctrl' \subseteq {"C", "D"} /\ rc2' \in 0 .. MaxArexx /\ child' = child
  <2>1. ctrl \subseteq {"C", "D"} /\ rc2 \in 0 .. MaxArexx
    BY <1>1 DEF Typed
  <2>2. CASE Quits \/ Silently
    BY <2>1, <2>2 DEF Quits, Silently, signals
  <2>3. CASE Taken(r) /\ Answers(First(r))
    <3>1. First(r) \in Command /\ First(r).kind = "get" /\ rc2' = First(r).n /\ ctrl' = ctrl \cup {"D"}
          /\ child' = child
      BY <1>2, <2>3 DEF Taken, Answers
    <3>2. First(r).n \in 1 .. MaxArexx
      BY <3>1, IsCommand
    <3>3. First(r).n \in 0 .. MaxArexx
      BY <3>2
    <3> QED
      BY <2>1, <3>1, <3>3
  <2> QED
    BY <2>2, <2>3 DEF Does
<1>6. main' \in {"loop", "checking", "interrupted", "paused", "pause_sleep", "stopping", "stopped"}
  BY <1>1 DEF Mains
<1> QED
  BY <1>1, <1>4, <1>5, <1>6 DEF TypeOK, Typed, Queues, Slots

\* Up to a Clash the invariant holds, and after it the types.
Safe == TypeOK /\ (~clashed => IInv)

LEMMA SafeStep == Safe /\ [Next]_vars => Safe'
<1> SUFFICES ASSUME Safe, [Next]_vars PROVE Safe'
  OBVIOUS
<1>1. CASE UNCHANGED vars
  <2>1. UNCHANGED <<q, main, keys, arexx, cmd, reg, result, ctrl, child, rc2, ran, lost, mixed, clashed>>
    BY <1>1 DEF vars, mainVars, arexxVars, signals, history, noted
  <2>2. TypeOK'
    BY <2>1 DEF Safe, TypeOK
  <2> QED
    BY <1>1, <2>1, <2>2, Inductive DEF Safe
<1>2. CASE Next
  <2>1. ~clashed
    BY <1>2 DEF Next, MainStep, ArexxStep, Poll, QueueOwn, Check, CheckWake, WasInterrupted, PauseLook,
                PauseWake, Stop, Receive, NextMessage, Message, Break, Return, PostStore, PostEnd,
                PostLoad, PostLength, Post, TakeAnswer, Wake
  <2>2. IInv /\ clashed \in BOOLEAN
    BY <2>1 DEF Safe, TypeOK
  <2>3. clashed' \in BOOLEAN
    <3>1. clashed' = clashed \/ clashed' = Clash
      BY <1>2 DEF Next, MainStep, ArexxStep, Poll, QueueOwn, Check, CheckWake, WasInterrupted, PauseLook,
                  PauseWake, Stop, Receive, NextMessage, Message, Break, Return, PostStore, PostEnd,
                  PostLoad, PostLength, Post, TakeAnswer, Wake, Watch, noted
    <3>2. Clash \in BOOLEAN
      BY Zenon DEF Clash
    <3> QED
      BY <2>2, <3>1, <3>2
  <2>4. CASE ~clashed'
    <3>1. IInv'
      BY <2>2, <2>4, Inductive
    <3>2. TypeOK'
      BY <2>3, <3>1, InvTypesNext DEF Flag
    <3> QED
      BY <3>1, <3>2 DEF Safe
  <2>5. CASE clashed'
    <3>1. MainStep /\ ~Stop
      BY <1>2, <2>1, <2>5 DEF Next, ArexxStep, Stop, Receive, NextMessage, Message, Break, Return,
                    PostStore, PostEnd, PostLoad, PostLength, Post, TakeAnswer, Wake, noted
    <3>2. PICK r : Does(r)
      BY <2>2, <3>1, PollDoes, CheckDoes, PauseDoes DEF MainStep, IInv
    <3>3. mixed' \in BOOLEAN
      BY <1>2, <2>2, MixedTyped DEF IInv
    <3>4. TypeOK'
      BY <2>2, <2>3, <3>2, <3>3, MainTyped
    <3> QED
      BY <2>5, <3>4 DEF Safe
  <2> QED
    BY <2>4, <2>5
<1> QED
  BY <1>1, <1>2

LEMMA Always == Spec => []Safe
<1>1. Init => Safe
  <2> SUFFICES ASSUME Init PROVE Safe
    OBVIOUS
  <2>1. clashed = FALSE
    BY DEF Init
  <2> QED
    BY <2>1, Initially, InvTypes DEF Safe, Flag
<1>2. Safe /\ [Next]_vars => Safe'
  BY SafeStep
<1> QED
  BY <1>1, <1>2, PTL DEF Spec

\* The queue's positions and length, what the two tasks hold and what has
\* become of the script's commands stay within their types, a Clash included.
THEOREM TypeCorrect == Spec => []TypeOK
<1>1. Safe => TypeOK
  BY DEF Safe
<1> QED
  BY <1>1, Always, PTL

\* mp_input_get_queued_cmd takes what mp_input_queue_cmd has put, once, for a
\* queue of any size, with main waking up anywhere: no command is lost in the
\* ring, none is there twice, unless main puts a command in while the ARexx task
\* does, or takes one between its load and its store of the length.
THEOREM NoneVanishes == Spec => []NothingVanishes
<1>1. Safe => NothingVanishes
  <2> SUFFICES ASSUME IInv, ~clashed, arexx \notin Posting
               PROVE  LET queued == UNION {Number(c) : c \in Queued}
                          done == {ran[i] : i \in DOMAIN ran}
                      IN /\ queued \cup done \cup lost = 1 .. Sent
                         /\ queued \cap done = {} /\ queued \cap lost = {} /\ done \cap lost = {}
                         /\ Cardinality(Queued) = q.length /\ None \notin Queued
    BY DEF NothingVanishes, Safe
  <2> DEFINE queued == UNION {Number(c) : c \in Queued}
             done == {ran[i] : i \in DOMAIN ran}
  <2>1. Kept(q, keys, Sent, ran, lost) /\ Sent \in Nat
    BY SentIs DEF IInv, QueueInv, Posted
  <2>2. Queued = {Item(q, i) : i \in Places(q)}
    BY DEF Queued, Item, Places
  <2>3. \A i \in Places(q) : Item(q, i) \in Command /\ Item(q, i) # None
    BY <2>1, IsCommand DEF Kept
  <2>4. \A m : m \in queued <=> \E i \in Places(q) : Item(q, i).from = "arexx" /\ m = Item(q, i).n
    <3>1. \A c \in Command : Number(c) = IF c.from = "arexx" THEN {c.n} ELSE {}
      BY IsCommand DEF Number
    <3> QED
      BY <2>2, <2>3, <3>1
  <2>5. \A m : m \in done <=> \E i \in DOMAIN ran : ran[i] = m
    OBVIOUS
  <2>6. \A i \in DOMAIN ran : ran[i] \in 1 .. MaxArexx
    BY <2>1 DEF Kept
  <2>7. None \notin Queued
    BY <2>2, <2>3
  <2>8. Cardinality(Queued) = q.length
    BY <2>1, <2>2, CountPlaces
  <2> HIDE DEF queued, done
  <2>9. ASSUME NEW m \in 1 .. Sent
        PROVE  m \in queued \cup done \cup lost
    BY <2>1, <2>4, <2>5 DEF Kept
  <2>10. ASSUME NEW m \in queued
         PROVE  m \in 1 .. Sent /\ m \notin done /\ m \notin lost
    <3>1. PICK i \in Places(q) : Item(q, i).from = "arexx" /\ m = Item(q, i).n
      BY <2>4, <2>10
    <3>2. m \in Nat \ {0}
      BY <2>3, <3>1, IsCommand
    <3>3. m <= Sent /\ m \notin lost /\ \A j \in DOMAIN ran : ran[j] < m
      BY <2>1, <3>1 DEF Kept
    <3>4. \A j \in DOMAIN ran : ran[j] # m
      BY <2>6, <3>2, <3>3
    <3> QED
      BY <2>1, <2>5, <3>2, <3>3, <3>4
  <2>11. ASSUME NEW m \in done
         PROVE  m \in 1 .. Sent /\ m \notin lost
    <3>1. PICK i \in DOMAIN ran : ran[i] = m
      BY <2>5, <2>11
    <3>2. m \in 1 .. MaxArexx /\ m <= Sent /\ m \notin lost
      BY <2>1, <2>6, <3>1 DEF Kept
    <3> QED
      BY <2>1, <3>2
  <2>12. lost \subseteq 1 .. Sent
    BY <2>1 DEF Kept
  <2>13. queued \cup done \cup lost = 1 .. Sent
    BY <2>9, <2>10, <2>11, <2>12
  <2>14. queued \cap done = {} /\ queued \cap lost = {} /\ done \cap lost = {}
    BY <2>10, <2>11
  <2> QED
    BY <2>7, <2>8, <2>13, <2>14 DEF queued, done
<1> QED
  BY <1>1, Always, PTL

\* The script's commands run in the order it sent them.
THEOREM RunInOrder == Spec => []InOrder
<1>1. Safe => InOrder
  BY DEF Safe, IInv, QueueInv, Kept, InOrder
<1> QED
  BY <1>1, Always, PTL

\* get_arexx_rc2 never hands a script another question's answer.
THEOREM OwnAnswer == Spec => []AnswerIsOwn
<1>1. Safe => AnswerIsOwn
  BY DEF Safe, IInv, AnswerInv, AnswerIsOwn, Stopping
<1> QED
  BY <1>1, Always, PTL

\* When StopArexx has returned, ArexxTask has ended.
THEOREM StopWaits == Spec => []EndedWhenStopped
<1>1. Safe => EndedWhenStopped
  BY DEF Safe, IInv, EndInv, EndedWhenStopped
<1> QED
  BY <1>1, Always, PTL

=============================================================================
