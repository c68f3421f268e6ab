--------------------------- MODULE KeyFifo_proofs ---------------------------
(***************************************************************************)
(* No key is ever stuck, whatever the FIFO's size, the keys, and the order *)
(* of presses, releases and reads.  NoStuckKey is not inductive by itself: *)
(* when a release is dropped because the FIFO is full, it holds because    *)
(* the event stored last is then a reset, which no read has removed yet.   *)
(***************************************************************************)
EXTENDS KeyFifo, TLAPS

\* The event stored last, as mplayer_put_key_internal remembers it, and what
\* fills the last free entry.
LastStored ==
  /\ (queue # <<>> /\ previous_down_key = AllUp) => queue[Len(queue)].all
  /\ Len(queue) = Size => queue[Len(queue)].all

Inv == TypeOK /\ LastStored /\ NoStuckKey /\ NoKeyTwice

-----------------------------------------------------------------------------
(* The FIFO alone: what Put preserves. *)

Prev == Buttons \cup {NoKey, AllUp}

FifoOK(q, prev) ==
  /\ q \in Seq(Event) /\ Len(q) <= Size
  /\ \A i \in DOMAIN q : q[i].all => ~q[i].down
  /\ \A i \in DOMAIN q : q[i].down => q[i].key \in Buttons
  /\ prev \in Prev
  /\ (q # <<>> /\ prev = AllUp) => q[Len(q)].all
  /\ Len(q) = Size => q[Len(q)].all

\* What the reader has still to read about k: an event that lifts it, and no
\* press that is not followed by one.
Lifted(q, k) == \E j \in DOMAIN q : Lifts(q[j], k)
Covered(q, k) ==
  \A i \in DOMAIN q : q[i] = PressOf(k) => \E j \in DOMAIN q : j > i /\ Lifts(q[j], k)

\* An event as the user makes it: a press of a button, or any release.
Plain == {PressOf(k) : k \in Buttons} \cup {ReleaseOf(k) : k \in Keys}

\* A refused event changes nothing; any other is appended, as it is or as the
\* reset that takes the last free entry.
LEMMA PutCases ==
  ASSUME NEW q, NEW prev, FifoOK(q, prev), NEW e \in Plain
  PROVE  LET g == Put([q |-> q, prev |-> prev], e) IN
         \/ g.q = q /\ g.prev = prev
         \/ Len(q) < Size - 1 /\ g.q = Append(q, e) /\ g.prev = After(e)
         \/ \E k \in Keys \cup {NoKey} :
              Len(q) = Size - 1 /\ g.q = Append(q, AllReleased(k)) /\ g.prev = AllUp
<1> DEFINE f == [q |-> q, prev |-> prev]
<1>0. f.q = q /\ f.prev = prev /\ Len(q) \in Nat
  BY DEF FifoOK
<1>1. CASE Refused(f, e)
  BY <1>0, <1>1 DEF Put
<1>2. CASE ~Refused(f, e) /\ Room(f) = 1
  <2>1. ~e.down /\ e.key \in Keys
    BY <1>0, <1>2, FifoAssumption DEF Refused, Reserved, Plain, PressOf, ReleaseOf, Keys
  <2>2. PICK k \in Keys \cup {NoKey} : Stored(f, e) = AllReleased(k)
    BY <1>2, <2>1 DEF Stored
  <2>3. After(AllReleased(k)) = AllUp
    BY DEF After, AllReleased
  <2>4. Len(q) = Size - 1
    BY <1>0, <1>2, FifoAssumption DEF Room
  <2> QED BY <1>0, <1>2, <2>2, <2>3, <2>4 DEF Put
<1>3. CASE ~Refused(f, e) /\ Room(f) # 1
  <2>1. Stored(f, e) = e
    BY <1>3 DEF Stored
  <2>2. Len(q) < Size - 1
    BY <1>0, <1>3, FifoAssumption DEF Room, Refused, FifoOK
  <2> QED BY <1>0, <1>3, <2>1, <2>2 DEF Put
<1> QED BY <1>1, <1>2, <1>3

\* The facts about Append that the lemmas below use.
LEMMA AppendFacts ==
  ASSUME NEW q \in Seq(Event), NEW e \in Event
  PROVE  /\ Append(q, e) \in Seq(Event)
         /\ Len(Append(q, e)) = Len(q) + 1
         /\ \A i \in DOMAIN q : i \in DOMAIN Append(q, e) /\ Append(q, e)[i] = q[i]
         /\ Len(q) + 1 \in DOMAIN Append(q, e) /\ Append(q, e)[Len(q) + 1] = e
         /\ \A i \in DOMAIN Append(q, e) : i \in DOMAIN q \/ i = Len(q) + 1
         /\ Append(q, e) # <<>>
BY SMT

LEMMA PlainEvent ==
  ASSUME NEW e \in Plain
  PROVE  /\ e \in Event /\ ~e.all
         /\ e.down => e.key \in Buttons
         /\ After(e) \in Prev \ {AllUp}
<1>1. CASE \E k \in Buttons : e = PressOf(k)
  BY <1>1, FifoAssumption DEF Event, PressOf, After, Prev, Keys
<1>2. CASE \E k \in Keys : e = ReleaseOf(k)
  BY <1>2, FifoAssumption DEF Event, ReleaseOf, After, Prev
<1> QED BY <1>1, <1>2 DEF Plain

LEMMA ResetEvent ==
  ASSUME NEW k \in Keys \cup {NoKey}
  PROVE  /\ AllReleased(k) \in Event
         /\ AllReleased(k).all /\ ~AllReleased(k).down
BY DEF AllReleased, Event

\* Putting an event keeps the FIFO's own invariant.
LEMMA PutOK ==
  ASSUME NEW q, NEW prev, FifoOK(q, prev), NEW e \in Plain
  PROVE  LET g == Put([q |-> q, prev |-> prev], e) IN FifoOK(g.q, g.prev)
<1> DEFINE g == Put([q |-> q, prev |-> prev], e)
<1> SUFFICES FifoOK(g.q, g.prev)
  OBVIOUS
<1>0. q \in Seq(Event) /\ Len(q) \in Nat /\ Size \in Nat
  BY FifoAssumption DEF FifoOK
<1>1. CASE g.q = q /\ g.prev = prev
  BY <1>1
<1>2. ASSUME Len(q) < Size - 1, g.q = Append(q, e), g.prev = After(e)
      PROVE  FifoOK(g.q, g.prev)
  <2>1. e \in Event /\ ~e.all /\ (e.down => e.key \in Buttons) /\ After(e) \in Prev \ {AllUp}
    BY PlainEvent
  <2> HIDE DEF g
  <2> QED BY <1>0, <1>2, <2>1, AppendFacts, SMT DEF FifoOK
<1>3. ASSUME NEW k \in Keys \cup {NoKey},
             Len(q) = Size - 1, g.q = Append(q, AllReleased(k)), g.prev = AllUp
      PROVE  FifoOK(g.q, g.prev)
  <2>1. AllReleased(k) \in Event /\ AllReleased(k).all /\ ~AllReleased(k).down
    BY ResetEvent
  <2> HIDE DEF g
  <2> QED BY <1>0, <1>3, <2>1, AppendFacts, SMT DEF FifoOK, Prev
<1>4. \/ g.q = q /\ g.prev = prev
      \/ Len(q) < Size - 1 /\ g.q = Append(q, e) /\ g.prev = After(e)
      \/ \E k \in Keys \cup {NoKey} :
           Len(q) = Size - 1 /\ g.q = Append(q, AllReleased(k)) /\ g.prev = AllUp
  BY PutCases
<1> HIDE DEF g
<1> QED BY <1>1, <1>2, <1>3, <1>4

\* Putting an event that is not a press of k leaves k lifted and covered.
LEMMA PutKeeps ==
  ASSUME NEW q, NEW prev, FifoOK(q, prev), NEW e \in Plain, NEW k \in Buttons
  PROVE  LET g == Put([q |-> q, prev |-> prev], e) IN
         /\ Lifted(q, k) => Lifted(g.q, k)
         /\ Covered(q, k) /\ e # PressOf(k) => Covered(g.q, k)
<1> DEFINE g == Put([q |-> q, prev |-> prev], e)
<1>0. q \in Seq(Event) /\ e \in Event
  BY PlainEvent DEF FifoOK
<1>1. ASSUME NEW x \in Event
      PROVE  /\ Lifted(q, k) => Lifted(Append(q, x), k)
             /\ Covered(q, k) /\ x # PressOf(k) => Covered(Append(q, x), k)
  BY <1>0, AppendFacts DEF Lifted, Covered
<1>2. \A j \in Keys \cup {NoKey} : AllReleased(j) \in Event /\ AllReleased(j) # PressOf(k)
  BY ResetEvent DEF PressOf
<1>3. \/ g.q = q
      \/ g.q = Append(q, e)
      \/ \E j \in Keys \cup {NoKey} : g.q = Append(q, AllReleased(j))
  BY PutCases
<1>4. /\ Lifted(q, k) => Lifted(g.q, k)
      /\ Covered(q, k) /\ e # PressOf(k) => Covered(g.q, k)
  <2> HIDE DEF g
  <2> QED BY <1>0, <1>1, <1>2, <1>3
<1> QED BY <1>4

\* The release of a button always leaves it lifted and covered: it is stored,
\* or replaced by a reset, or dropped behind a reset.
LEMMA PutReleases ==
  ASSUME NEW q, NEW prev, FifoOK(q, prev), NEW k \in Buttons
  PROVE  LET g == Put([q |-> q, prev |-> prev], ReleaseOf(k)) IN
         Lifted(g.q, k) /\ Covered(g.q, k)
<1> DEFINE g == Put([q |-> q, prev |-> prev], ReleaseOf(k))
<1>0. q \in Seq(Event) /\ Len(q) \in Nat /\ Size \in Nat /\ Size >= 2
  BY FifoAssumption DEF FifoOK
<1>1. ReleaseOf(k) \in Plain /\ ReleaseOf(k) \in Event
  BY DEF Plain, Event, ReleaseOf, Keys
<1>2. ASSUME NEW x \in Event, Lifts(x, k), ~x.down
      PROVE  Lifted(Append(q, x), k) /\ Covered(Append(q, x), k)
  <2>1. x # PressOf(k)
    BY <1>2 DEF PressOf
  <2> QED BY <1>0, <1>2, <2>1, AppendFacts, SMT DEF Lifted, Covered
<1>3. CASE Refused([q |-> q, prev |-> prev], ReleaseOf(k))
  <2>1. g.q = q
    BY <1>3 DEF Put
  <2>2. q # <<>> /\ q[Len(q)].all
    BY <1>0, <1>3 DEF Refused, Reserved, Room, ReleaseOf, FifoOK
  <2>3. Len(q) \in DOMAIN q /\ \A i \in DOMAIN q : i < Len(q) \/ i = Len(q)
    BY <1>0, <2>2
  <2>4. q[Len(q)] # PressOf(k) /\ Lifts(q[Len(q)], k)
    BY <2>2 DEF PressOf, Lifts
  <2>5. Lifted(q, k) /\ Covered(q, k)
    BY <2>3, <2>4 DEF Lifted, Covered
  <2> QED BY <2>1, <2>5
<1>4. ASSUME ~Refused([q |-> q, prev |-> prev], ReleaseOf(k))
      PROVE  Lifted(g.q, k) /\ Covered(g.q, k)
  <2>1. PICK x : x = Stored([q |-> q, prev |-> prev], ReleaseOf(k))
    OBVIOUS
  <2>2. x = ReleaseOf(k) \/ \E j \in Keys \cup {NoKey} : x = AllReleased(j)
    BY <2>1 DEF Stored, ReleaseOf, Keys
  <2>3. x \in Event /\ Lifts(x, k) /\ ~x.down
    <3>1. CASE x = ReleaseOf(k)
      BY <3>1, <1>1 DEF Lifts, ReleaseOf
    <3>2. CASE \E j \in Keys \cup {NoKey} : x = AllReleased(j)
      BY <3>2, ResetEvent DEF Lifts
    <3> QED BY <2>2, <3>1, <3>2
  <2>4. g.q = Append(q, x)
    BY <2>1, <1>4 DEF Put
  <2>5. Lifted(Append(q, x), k) /\ Covered(Append(q, x), k)
    BY <1>2, <2>3
  <2> QED BY <2>4, <2>5
<1> QED BY <1>3, <1>4

\* One call of mplayer_put_key: the event, and maybe the double click.
LEMMA WriteOK ==
  ASSUME NEW q, NEW prev, FifoOK(q, prev), NEW e \in Plain, NEW b,
         NEW twice \in BOOLEAN
  PROVE  LET g == Put([q |-> q, prev |-> prev], e)
             h == PutDouble(g, b, twice)
         IN /\ FifoOK(h.q, h.prev)
            /\ \A k \in Buttons : Lifted(g.q, k) => Lifted(h.q, k)
            /\ \A k \in Buttons : Covered(g.q, k) => Covered(h.q, k)
<1> DEFINE g == Put([q |-> q, prev |-> prev], e)
           h == PutDouble(g, b, twice)
<1>1. FifoOK(g.q, g.prev) /\ g = [q |-> g.q, prev |-> g.prev]
  <2>1. FifoOK(g.q, g.prev)
    BY PutOK
  <2>2. g = [q |-> g.q, prev |-> g.prev]
    BY DEF Put
  <2> QED BY <2>1, <2>2
<1>2. CASE ~(twice /\ b \in Mouse)
  BY <1>1, <1>2 DEF PutDouble
<1>3. CASE twice /\ b \in Mouse
  <2> DEFINE d == ReleaseOf(Double[b])
  <2>1. d \in Plain /\ \A k \in Buttons : d # PressOf(k)
    BY <1>3, FifoAssumption DEF Plain, Mouse, Keys, ReleaseOf, PressOf
  <2>2. h = Put([q |-> g.q, prev |-> g.prev], d)
    BY <1>1, <1>3 DEF PutDouble
  <2> HIDE DEF d, g
  <2>3. FifoOK(h.q, h.prev)
    BY <1>1, <2>1, <2>2, PutOK
  <2>4. \A k \in Buttons : /\ Lifted(g.q, k) => Lifted(h.q, k)
                           /\ Covered(g.q, k) => Covered(h.q, k)
    BY <1>1, <2>1, <2>2, PutKeeps
  <2> QED BY <2>3, <2>4 DEF g
<1> QED BY <1>2, <1>3

\* Reading one event keeps the FIFO's invariant and what is still to be read.
LEMMA TailFacts ==
  ASSUME NEW q \in Seq(Event), q # <<>>
  PROVE  /\ Tail(q) \in Seq(Event) /\ Len(Tail(q)) = Len(q) - 1
         /\ Head(q) = q[1] /\ Head(q) \in Event /\ 1 \in DOMAIN q
         /\ \A i \in DOMAIN Tail(q) : i + 1 \in DOMAIN q /\ Tail(q)[i] = q[i + 1]
         /\ \A i \in DOMAIN q : i = 1 \/ (i - 1 \in DOMAIN Tail(q) /\ Tail(q)[i - 1] = q[i])
BY SMT

LEMMA ReadOK ==
  ASSUME NEW q, NEW prev, FifoOK(q, prev), q # <<>>
  PROVE  FifoOK(Tail(q), prev)
<1>1. q \in Seq(Event) /\ Len(q) \in Nat /\ Size \in Nat
  BY FifoAssumption DEF FifoOK
<1>2. Tail(q) # <<>> => Len(Tail(q)) \in DOMAIN Tail(q)
  BY <1>1, TailFacts
<1> QED BY <1>1, <1>2, TailFacts, SMT DEF FifoOK

LEMMA ReadKeeps ==
  ASSUME NEW q \in Seq(Event), q # <<>>, NEW k \in Buttons, Covered(q, k)
  PROVE  /\ Covered(Tail(q), k)
         /\ Head(q) = PressOf(k) => Lifted(Tail(q), k)
         /\ Lifted(q, k) /\ ~Lifts(Head(q), k) => Lifted(Tail(q), k)
<1>1. \A i \in DOMAIN q : i \in Nat \ {0}
  OBVIOUS
<1>2. \A i \in DOMAIN Tail(q) : i \in Nat \ {0}
  BY TailFacts
<1>3. ASSUME NEW j \in DOMAIN q, j > 1, Lifts(q[j], k)
      PROVE  Lifted(Tail(q), k)
  <2>1. j # 1
    BY <1>1, <1>3
  <2>2. j - 1 \in DOMAIN Tail(q) /\ Tail(q)[j - 1] = q[j]
    BY <2>1, TailFacts
  <2> QED BY <1>3, <2>2 DEF Lifted
<1>4. ASSUME NEW i \in DOMAIN Tail(q), Tail(q)[i] = PressOf(k)
      PROVE  \E j \in DOMAIN Tail(q) : j > i /\ Lifts(Tail(q)[j], k)
  <2>1. i + 1 \in DOMAIN q /\ q[i + 1] = PressOf(k)
    BY <1>4, TailFacts
  <2>2. PICK j \in DOMAIN q : j > i + 1 /\ Lifts(q[j], k)
    BY <2>1 DEF Covered
  <2>3. j # 1 /\ j - 1 > i
    BY <1>1, <1>2, <2>2
  <2>4. j - 1 \in DOMAIN Tail(q) /\ Tail(q)[j - 1] = q[j]
    BY <2>3, TailFacts
  <2> QED BY <2>2, <2>3, <2>4
<1>5. Head(q) = PressOf(k) => Lifted(Tail(q), k)
  BY <1>3, TailFacts DEF Covered
<1>6. Lifted(q, k) /\ ~Lifts(Head(q), k) => Lifted(Tail(q), k)
  <2> SUFFICES ASSUME Lifted(q, k), ~Lifts(Head(q), k) PROVE Lifted(Tail(q), k)
    OBVIOUS
  <2>1. PICK j \in DOMAIN q : Lifts(q[j], k)
    BY DEF Lifted
  <2>2. j # 1
    BY <2>1, TailFacts
  <2> QED BY <1>1, <1>3, <2>1, <2>2
<1> QED BY <1>4, <1>5, <1>6 DEF Covered

-----------------------------------------------------------------------------
(* The specification. *)

ReaderType == key_down \in Seq(Keys) /\ ar_state \in {-1, 0, 1} /\ ar_cmd \in Seq(Keys)
UserType ==
  /\ pressed \subseteq Buttons
  /\ last_key \in (Buttons \cup {NoKey}) \X (Buttons \cup {NoKey})
  /\ quick \in BOOLEAN

LEMMA InvParts ==
  Inv <=> /\ FifoOK(queue, previous_down_key) /\ ReaderType /\ UserType /\ NoKeyTwice
          /\ \A k \in Buttons \ pressed : /\ IsDown(key_down, k) => Lifted(queue, k)
                                        /\ Covered(queue, k)
BY DEF Inv, TypeOK, LastStored, NoStuckKey, FifoOK, ReaderType, UserType, Prev,
       Lifted, Covered

LEMMA InvInit == Init => Inv
<1> SUFFICES ASSUME Init PROVE Inv
  OBVIOUS
<1>1. /\ queue = <<>> /\ Len(queue) = 0 /\ DOMAIN queue = {} /\ queue \in Seq(Event)
      /\ key_down = <<>> /\ DOMAIN key_down = {} /\ key_down \in Seq(Keys)
      /\ ar_cmd \in Seq(Keys)
  BY DEF Init
<1>2. FifoOK(queue, previous_down_key)
  BY <1>1, FifoAssumption DEF Init, FifoOK, Prev
<1>3. ReaderType /\ UserType /\ NoKeyTwice
  BY <1>1 DEF Init, ReaderType, UserType, NoKeyTwice
<1>4. \A k : Covered(queue, k) /\ ~IsDown(key_down, k)
  BY <1>1 DEF Covered, IsDown
<1> QED BY <1>2, <1>3, <1>4, InvParts

\* The user's actions: the event goes through WriteOK, the button let go
\* through PutReleases.
LEMMA WriteInv ==
  ASSUME Inv, NEW e \in Plain, NEW b, NEW twice \in BOOLEAN,
         SetFifo(PutDouble(Put(Fifo, e), b, twice)), UserType', UNCHANGED readerVars,
         \A k \in Buttons \ pressed' : (k \in pressed /\ e = ReleaseOf(k)) \/ (k \notin pressed /\ e # PressOf(k))
  PROVE  Inv'
<1> DEFINE g == Put(Fifo, e)
           h == PutDouble(g, b, twice)
<1>1. FifoOK(queue, previous_down_key) /\ ReaderType /\ NoKeyTwice
  BY InvParts
<1>2. queue' = h.q /\ previous_down_key' = h.prev
  BY DEF SetFifo
<1>3. /\ FifoOK(h.q, h.prev)
      /\ \A k \in Buttons : (Lifted(g.q, k) => Lifted(h.q, k)) /\ (Covered(g.q, k) => Covered(h.q, k))
  BY <1>1, WriteOK DEF Fifo
<1>4. FifoOK(queue, previous_down_key)' /\ ReaderType' /\ NoKeyTwice'
  BY <1>1, <1>2, <1>3 DEF ReaderType, NoKeyTwice, readerVars, FifoOK
<1>5. ASSUME NEW k \in Buttons \ pressed'
      PROVE  (IsDown(key_down, k) => Lifted(g.q, k)) /\ Covered(g.q, k)
  <2>1. CASE k \in pressed /\ e = ReleaseOf(k)
    BY <1>1, <2>1, PutReleases DEF Fifo
  <2>2. CASE k \notin pressed /\ e # PressOf(k)
    <3>1. (IsDown(key_down, k) => Lifted(queue, k)) /\ Covered(queue, k)
      BY <2>2, InvParts
    <3> QED BY <1>1, <2>2, <3>1, PutKeeps DEF Fifo
  <2> QED BY <2>1, <2>2
<1>6. ASSUME NEW k \in Buttons \ pressed'
      PROVE  (IsDown(key_down, k)' => Lifted(queue, k)') /\ Covered(queue, k)'
  <2>1. key_down' = key_down
    BY DEF readerVars
  <2>2. (Lifted(g.q, k) => Lifted(queue, k)') /\ (Covered(g.q, k) => Covered(queue, k)')
    BY <1>2, <1>3 DEF Lifted, Covered
  <2> QED BY <1>5, <2>1, <2>2 DEF IsDown
<1> HIDE DEF g, h
<1> QED BY <1>4, <1>6 DEF Inv, TypeOK, LastStored, NoStuckKey, FifoOK, ReaderType, UserType,
                          Prev, Lifted, Covered, NoKeyTwice

\* The reader's actions: what it still takes to be down is lifted later.
LEMMA ReadInv ==
  ASSUME Inv, GetKey, ReaderType', NoKeyTwice',
         \A k \in Buttons : IsDown(key_down, k)' =>
           \/ IsDown(key_down, k) /\ ~Lifts(Head(queue), k)
           \/ Head(queue) = PressOf(k)
  PROVE  Inv'
<1>1. FifoOK(queue, previous_down_key) /\ UserType /\ queue \in Seq(Event) /\ queue # <<>>
  BY InvParts DEF GetKey, FifoOK
<1>2. queue' = Tail(queue) /\ previous_down_key' = previous_down_key /\ pressed' = pressed
  BY DEF GetKey, userVars
<1>3. FifoOK(queue, previous_down_key)'
  <2>1. FifoOK(Tail(queue), previous_down_key)
    BY <1>1, ReadOK
  <2> QED BY <1>2, <2>1 DEF FifoOK
<1>4. UserType'
  BY <1>1 DEF UserType, GetKey, userVars
<1>5. ASSUME NEW k \in Buttons \ pressed'
      PROVE  (IsDown(key_down, k)' => Lifted(queue, k)') /\ Covered(queue, k)'
  <2>1. (IsDown(key_down, k) => Lifted(queue, k)) /\ Covered(queue, k)
    BY <1>2, InvParts
  <2>2. /\ Covered(Tail(queue), k)
        /\ Head(queue) = PressOf(k) => Lifted(Tail(queue), k)
        /\ Lifted(queue, k) /\ ~Lifts(Head(queue), k) => Lifted(Tail(queue), k)
    BY <1>1, <2>1, ReadKeeps
  <2>3. IsDown(key_down, k)' => Lifted(Tail(queue), k)
    BY <2>1, <2>2
  <2> QED BY <1>2, <2>2, <2>3 DEF Lifted, Covered
<1> QED BY <1>3, <1>4, <1>5 DEF Inv, TypeOK, LastStored, NoStuckKey, FifoOK, ReaderType, UserType,
                                Prev, Lifted, Covered, NoKeyTwice

\* The keys left when one of them is taken out.
LEMMA WithoutFacts ==
  ASSUME NEW s \in Seq(Keys), NEW k, IsDown(s, k),
         \A i, j \in DOMAIN s : s[i] = s[j] => i = j
  PROVE  LET w == Without(s, Position(s, k)) IN
         /\ w \in Seq(Keys)
         /\ \A i, j \in DOMAIN w : w[i] = w[j] => i = j
         /\ \A i \in DOMAIN w : w[i] # k /\ IsDown(s, w[i])
<1> DEFINE p == Position(s, k)
           w == Without(s, p)
           old(i) == IF i < p THEN i ELSE i + 1
<1>1. p \in DOMAIN s /\ s[p] = k
  BY DEF IsDown, Position
<1>2. Len(s) \in Nat \ {0} /\ p \in 1 .. Len(s)
  BY <1>1
<1> HIDE DEF p
<1>3. DOMAIN w = 1 .. Len(s) - 1 /\ \A i \in DOMAIN w : w[i] = s[old(i)]
  BY DEF Without
<1>4. \A i \in 1 .. Len(s) - 1 : old(i) \in 1 .. Len(s) /\ old(i) # p
  BY <1>2
<1>5. \A i, j \in 1 .. Len(s) - 1 : old(i) = old(j) => i = j
  BY <1>2
<1>6. DOMAIN s = 1 .. Len(s)
  OBVIOUS
<1>7. w \in Seq(Keys)
  <2>1. w \in [1 .. Len(s) - 1 -> Keys]
    BY <1>2, <1>4, <1>6 DEF Without
  <2>2. Len(s) - 1 \in Nat
    BY <1>2
  <2> QED BY <2>1, <2>2
<1> HIDE DEF w, old
<1>8. \A i, j \in DOMAIN w : w[i] = w[j] => i = j
  BY <1>3, <1>4, <1>5, <1>6
<1>9. \A i \in DOMAIN w : w[i] # k /\ IsDown(s, w[i])
  BY <1>1, <1>3, <1>4, <1>6 DEF IsDown
<1> QED BY <1>7, <1>8, <1>9 DEF w, p

LEMMA InvStep == Inv /\ [Next]_vars => Inv'
<1> SUFFICES ASSUME Inv, [Next]_vars PROVE Inv'
  OBVIOUS
<1> USE DEF ReaderType, UserType
<1>0. UserType /\ ReaderType /\ NoKeyTwice /\ FifoOK(queue, previous_down_key)
  BY InvParts
<1>1. ASSUME NEW b \in Buttons, Press(b)
      PROVE  Inv'
  <2>1. PressOf(b) \in Plain /\ \A k \in Buttons : k # b => PressOf(b) # PressOf(k)
    BY DEF Plain, PressOf
  <2>2. UserType'
    BY <1>0, <1>1 DEF Press
  <2>3. PICK twice \in BOOLEAN : SetFifo(PutDouble(Put(Fifo, PressOf(b)), b, twice))
    BY <1>1 DEF Press
  <2>4. \A k \in Buttons \ pressed' : k \notin pressed /\ PressOf(b) # PressOf(k)
    BY <1>1, <2>1 DEF Press
  <2> QED BY <1>1, <2>1, <2>2, <2>3, <2>4, WriteInv DEF Press
<1>2. ASSUME NEW b \in Buttons, Release(b)
      PROVE  Inv'
  <2>1. ReleaseOf(b) \in Plain /\ \A k \in Buttons : ReleaseOf(b) # PressOf(k)
    BY DEF Plain, PressOf, ReleaseOf, Keys
  <2>2. UserType'
    BY <1>0, <1>2 DEF Release
  <2>3. PICK twice \in BOOLEAN : SetFifo(PutDouble(Put(Fifo, ReleaseOf(b)), b, twice))
    BY <1>2 DEF Release
  <2>4. \A k \in Buttons \ pressed' : (k \in pressed /\ k = b) \/ k \notin pressed
    BY <1>2 DEF Release
  <2> QED BY <1>2, <2>1, <2>2, <2>3, <2>4, WriteInv DEF Release
<1>3. ASSUME NEW t \in Taps, Tap(t)
      PROVE  Inv'
  <2>1. ReleaseOf(t) \in Plain /\ \A k \in Buttons : ReleaseOf(t) # PressOf(k)
    BY DEF Plain, PressOf, ReleaseOf, Keys
  <2>2. UserType' /\ pressed' = pressed
    BY <1>0, <1>3 DEF Tap, userVars
  <2>3. SetFifo(PutDouble(Put(Fifo, ReleaseOf(t)), t, FALSE))
    BY <1>3 DEF Tap, PutDouble
  <2> QED BY <1>3, <2>1, <2>2, <2>3, WriteInv DEF Tap
<1>4. GetKey => /\ queue \in Seq(Event) /\ queue # <<>> /\ Head(queue) \in Event
                /\ Head(queue).all => ~Head(queue).down
                /\ Head(queue).down => Head(queue).key \in Buttons
  BY <1>0, TailFacts DEF FifoOK, GetKey
<1>5. /\ Held \in Seq(Keys) /\ \A i, j \in DOMAIN Held : Held[i] = Held[j] => i = j
      /\ \A k : IsDown(Held, k) => IsDown(key_down, k) /\ ~Head(queue).all
  BY <1>0 DEF Held, NoKeyTwice, IsDown
<1>6. CASE ReadAllUp
  <2>1. GetKey /\ Head(queue).key = NoKey /\ key_down' = Held
    BY <1>6 DEF ReadAllUp
  <2>2. ReaderType' /\ NoKeyTwice'
    BY <1>0, <1>5, <1>6, <2>1 DEF ReadAllUp, NoKeyTwice
  <2>3. ASSUME NEW k \in Buttons, IsDown(key_down, k)'
        PROVE  IsDown(key_down, k) /\ ~Lifts(Head(queue), k)
    BY <1>5, <2>1, <2>3, FifoAssumption DEF Lifts, IsDown
  <2> QED BY <2>1, <2>2, <2>3, ReadInv
<1>7. CASE ReadPress
  <2>1. GetKey /\ Head(queue).down /\ ~Head(queue).all /\ Head(queue).key \in Buttons
    BY <1>4, <1>7 DEF ReadPress
  <2>2. Head(queue) = PressOf(Head(queue).key)
    BY <1>4, <2>1 DEF Event, PressOf
  <2>3. \A k : ~Lifts(Head(queue), k)
    BY <2>1 DEF Lifts
  <2>4. CASE key_down' = key_down /\ ar_state' = ar_state /\ ar_cmd' = ar_cmd
    BY <1>0, <2>1, <2>3, <2>4, ReadInv DEF NoKeyTwice, IsDown
  <2>5. CASE /\ ~IsDown(key_down, Head(queue).key)
             /\ key_down' = Append(key_down, Head(queue).key)
             /\ ar_state' = 0 /\ ar_cmd' = ar_cmd
    <3>1. /\ key_down' \in Seq(Keys)
          /\ \A i \in DOMAIN key_down' :
               \/ i \in DOMAIN key_down /\ key_down'[i] = key_down[i]
               \/ i = Len(key_down) + 1 /\ key_down'[i] = Head(queue).key
      BY <1>0, <2>1, <2>5 DEF Keys
    <3>2. ReaderType' /\ NoKeyTwice'
      BY <1>0, <2>5, <3>1 DEF NoKeyTwice, IsDown
    <3>3. \A k \in Buttons : IsDown(key_down, k)' => IsDown(key_down, k) \/ k = Head(queue).key
      BY <3>1 DEF IsDown
    <3> QED BY <2>1, <2>2, <2>3, <3>2, <3>3, ReadInv
  <2> QED BY <1>7, <2>4, <2>5 DEF ReadPress, readerVars
<1>8. CASE ReadRelease
  <2> DEFINE c == Head(queue).key
  <2>1. GetKey /\ ~Head(queue).down /\ c # NoKey
    BY <1>8 DEF ReadRelease
  <2>2. \A k \in Buttons : IsDown(Held, k) /\ k # c => IsDown(key_down, k) /\ ~Lifts(Head(queue), k)
    BY <1>5 DEF Lifts
  <2>3. CASE key_down' = Held /\ ~IsDown(Held, c)
    <3>0. ar_state' \in {ar_state, -1} /\ ar_cmd' \in {ar_cmd, <<>>}
      BY <1>8 DEF ReadRelease
    <3>1. ar_state' \in {-1, 0, 1} /\ ar_cmd' \in Seq(Keys) /\ key_down' \in Seq(Keys)
      <4>1. <<>> \in Seq(Keys)
        OBVIOUS
      <4> QED BY <1>0, <1>5, <2>3, <3>0, <4>1
    <3>2. NoKeyTwice'
      BY <1>5, <2>3 DEF NoKeyTwice
    <3>3. \A k \in Buttons : IsDown(key_down, k)' => IsDown(Held, k) /\ k # c
      BY <2>3 DEF IsDown
    <3> QED BY <2>1, <2>2, <3>1, <3>2, <3>3, ReadInv
  <2>4. CASE /\ IsDown(Held, c) /\ key_down' = Without(Held, Position(Held, c))
             /\ ar_state' = -1 /\ ar_cmd' = <<>>
    <3>1. /\ key_down' \in Seq(Keys)
          /\ \A i, j \in DOMAIN key_down' : key_down'[i] = key_down'[j] => i = j
          /\ \A i \in DOMAIN key_down' : key_down'[i] # c /\ IsDown(Held, key_down'[i])
      BY <1>5, <2>4, WithoutFacts
    <3>2. ReaderType' /\ NoKeyTwice'
      BY <2>4, <3>1 DEF NoKeyTwice
    <3>3. \A k \in Buttons : IsDown(key_down, k)' => IsDown(Held, k) /\ k # c
      BY <3>1 DEF IsDown
    <3> QED BY <2>1, <2>2, <3>2, <3>3, ReadInv
  <2> QED BY <1>8, <2>3, <2>4 DEF ReadRelease
<1>9. CASE StartRepeat
  <2>1. ar_state' \in {-1, 0, 1} /\ ar_cmd' \in Seq(Keys)
    <3>1. ar_cmd' \in {key_down, <<>>} /\ ar_state' \in {-1, 1}
      BY <1>9 DEF StartRepeat
    <3>2. <<>> \in Seq(Keys)
      OBVIOUS
    <3> QED BY <1>0, <3>1, <3>2
  <2> QED BY <1>9, <2>1 DEF StartRepeat, Inv, TypeOK, LastStored, NoStuckKey, NoKeyTwice, Lifts,
                            fifoVars, userVars, IsDown
<1>10. CASE UNCHANGED vars
  BY <1>10 DEF vars, fifoVars, userVars, readerVars, Inv, TypeOK, LastStored, NoStuckKey,
               NoKeyTwice, Lifts, IsDown
<1> QED BY <1>1, <1>2, <1>3, <1>6, <1>7, <1>8, <1>9, <1>10 DEF Next

-----------------------------------------------------------------------------
(* Resets: the event stored last is one exactly when previous_down_key says so,
   and the last free entry is not given to a second one. *)

ResetKnown(q, prev) == q # <<>> /\ q[Len(q)].all => prev = AllUp
Apart(q) == \A i \in 2 .. Len(q) : ~(q[i - 1].all /\ q[i].all)
ResetInv == ResetKnown(queue, previous_down_key) /\ NoTwoResets

LEMMA PutApart ==
  ASSUME NEW q, NEW prev, FifoOK(q, prev), NEW e \in Plain, ResetKnown(q, prev), Apart(q)
  PROVE  LET g == Put([q |-> q, prev |-> prev], e) IN
         ResetKnown(g.q, g.prev) /\ Apart(g.q)
<1> DEFINE f == [q |-> q, prev |-> prev]
           g == Put(f, e)
<1> SUFFICES ResetKnown(g.q, g.prev) /\ Apart(g.q)
  OBVIOUS
<1>0. q \in Seq(Event) /\ Len(q) \in Nat /\ Size \in Nat /\ Size >= 2
  BY FifoAssumption DEF FifoOK
<1>1. ASSUME NEW x \in Event, ~x.all \/ ~(q # <<>> /\ q[Len(q)].all)
      PROVE  Apart(Append(q, x))
  <2> SUFFICES ASSUME NEW i \in 2 .. Len(q) + 1, Append(q, x)[i - 1].all, Append(q, x)[i].all
               PROVE  FALSE
    BY <1>0, AppendFacts DEF Apart
  <2>1. CASE i <= Len(q)
    <3>1. Append(q, x)[i] = q[i] /\ Append(q, x)[i - 1] = q[i - 1]
      BY <1>0, <2>1
    <3> QED
      BY <1>0, <2>1, <3>1 DEF Apart
  <2>2. CASE i = Len(q) + 1
    <3>1. Append(q, x)[i] = x /\ Append(q, x)[i - 1] = q[Len(q)] /\ q # <<>>
      BY <1>0, <2>2
    <3> QED
      BY <1>1, <3>1
  <2> QED
    BY <1>0, <2>1, <2>2
<1>2. CASE Refused(f, e)
  BY <1>2 DEF Put
<1>3. CASE ~Refused(f, e) /\ Room(f) # 1
  <2>1. g.q = Append(q, e) /\ g.prev = After(e)
    BY <1>3 DEF Put, Stored
  <2>2. e \in Event /\ ~e.all
    BY PlainEvent
  <2>3. Append(q, e)[Len(Append(q, e))] = e
    BY <1>0, <2>2, AppendFacts
  <2> HIDE DEF g
  <2> QED
    BY <1>1, <2>1, <2>2, <2>3 DEF ResetKnown
<1>4. CASE ~Refused(f, e) /\ Room(f) = 1
  <2>1. prev # AllUp
    BY <1>4 DEF Refused
  <2>2. ~e.down /\ e.key \in Keys
    BY <1>0, <1>4, FifoAssumption DEF Refused, Reserved, Plain, PressOf, ReleaseOf, Keys
  <2>3. PICK k \in Keys \cup {NoKey} : Stored(f, e) = AllReleased(k)
    BY <1>4, <2>2 DEF Stored
  <2>4. g.q = Append(q, AllReleased(k)) /\ g.prev = AllUp
    BY <1>4, <2>3 DEF Put, After, AllReleased
  <2>5. AllReleased(k) \in Event
    BY ResetEvent
  <2> HIDE DEF g
  <2> QED
    BY <1>1, <2>1, <2>4, <2>5 DEF ResetKnown
<1> QED
  BY <1>2, <1>3, <1>4

LEMMA WriteApart ==
  ASSUME NEW q, NEW prev, FifoOK(q, prev), NEW e \in Plain, ResetKnown(q, prev), Apart(q),
         NEW b, NEW twice \in BOOLEAN
  PROVE  LET h == PutDouble(Put([q |-> q, prev |-> prev], e), b, twice) IN
         ResetKnown(h.q, h.prev) /\ Apart(h.q)
<1> DEFINE g == Put([q |-> q, prev |-> prev], e)
           h == PutDouble(g, b, twice)
<1>1. FifoOK(g.q, g.prev) /\ ResetKnown(g.q, g.prev) /\ Apart(g.q)
  BY PutOK, PutApart
<1>2. g = [q |-> g.q, prev |-> g.prev]
  BY DEF Put
<1>3. CASE ~(twice /\ b \in Mouse)
  BY <1>1, <1>3 DEF PutDouble
<1>4. CASE twice /\ b \in Mouse
  <2>1. ReleaseOf(Double[b]) \in Plain
    BY <1>4, FifoAssumption DEF Plain, Mouse, Keys
  <2>2. h = Put([q |-> g.q, prev |-> g.prev], ReleaseOf(Double[b]))
    BY <1>2, <1>4 DEF PutDouble
  <2> HIDE DEF g
  <2>3. ResetKnown(h.q, h.prev) /\ Apart(h.q)
    BY <1>1, <2>1, <2>2, PutApart
  <2> QED
    BY <2>3 DEF g
<1> QED
  BY <1>3, <1>4

LEMMA ReadApart ==
  ASSUME NEW q \in Seq(Event), q # <<>>, NEW prev, ResetKnown(q, prev), Apart(q)
  PROVE  ResetKnown(Tail(q), prev) /\ Apart(Tail(q))
<1>1. Len(q) \in Nat \ {0} /\ Len(Tail(q)) = Len(q) - 1
  OBVIOUS
<1>2. \A i \in 1 .. Len(q) - 1 : Tail(q)[i] = q[i + 1]
  BY <1>1
<1>3. ResetKnown(Tail(q), prev)
  <2>1. Tail(q) # <<>> => Len(q) - 1 \in 1 .. Len(q) - 1
    BY <1>1
  <2>2. Tail(q) # <<>> => Tail(q)[Len(Tail(q))] = q[Len(q)]
    BY <1>1, <1>2, <2>1
  <2> QED
    BY <2>2 DEF ResetKnown
<1>4. ASSUME NEW i \in 2 .. Len(Tail(q))
      PROVE  ~(Tail(q)[i - 1].all /\ Tail(q)[i].all)
  <2>1. Tail(q)[i - 1] = q[(i + 1) - 1] /\ Tail(q)[i] = q[i + 1] /\ i + 1 \in 2 .. Len(q)
    BY <1>1, <1>2
  <2> QED
    BY <2>1 DEF Apart
<1> QED
  BY <1>3, <1>4 DEF Apart

\* What a step does to the FIFO: the user's event and maybe a double click are
\* put, the first event is read, or nothing happens.
LEMMA FifoSteps ==
  ASSUME [Next]_vars, TypeOK
  PROVE  \/ \E e \in Plain, b \in Keys, twice \in BOOLEAN :
              SetFifo(PutDouble(Put(Fifo, e), b, twice))
         \/ GetKey
         \/ UNCHANGED fifoVars
<1>1. ASSUME NEW b \in Buttons, Press(b)
      PROVE  \E twice \in BOOLEAN : SetFifo(PutDouble(Put(Fifo, PressOf(b)), b, twice))
  BY <1>1 DEF Press
<1>2. ASSUME NEW b \in Buttons, Release(b)
      PROVE  \E twice \in BOOLEAN : SetFifo(PutDouble(Put(Fifo, ReleaseOf(b)), b, twice))
  BY <1>2 DEF Release
<1>3. ASSUME NEW t \in Taps, Tap(t)
      PROVE  SetFifo(PutDouble(Put(Fifo, ReleaseOf(t)), t, FALSE))
  BY <1>3 DEF Tap, PutDouble
<1>4. /\ \A b \in Buttons : PressOf(b) \in Plain /\ ReleaseOf(b) \in Plain /\ b \in Keys
      /\ \A t \in Taps : ReleaseOf(t) \in Plain /\ t \in Keys
  BY DEF Plain, Keys
<1>5. ReadAllUp \/ ReadPress \/ ReadRelease => GetKey
  BY DEF ReadAllUp, ReadPress, ReadRelease
<1>6. StartRepeat \/ UNCHANGED vars => UNCHANGED fifoVars
  BY DEF StartRepeat, vars
<1> QED
  BY <1>1, <1>2, <1>3, <1>4, <1>5, <1>6 DEF Next

LEMMA ResetStep == Inv /\ ResetInv /\ [Next]_vars => ResetInv'
<1> SUFFICES ASSUME Inv, ResetInv, [Next]_vars PROVE ResetInv'
  OBVIOUS
<1>1. /\ FifoOK(queue, previous_down_key) /\ TypeOK
      /\ ResetKnown(queue, previous_down_key) /\ Apart(queue)
  BY InvParts DEF Inv, ResetInv, Apart, NoTwoResets
<1>2. ASSUME NEW e \in Plain, NEW b \in Keys, NEW twice \in BOOLEAN,
             SetFifo(PutDouble(Put(Fifo, e), b, twice))
      PROVE  ResetInv'
  <2> DEFINE h == PutDouble(Put([q |-> queue, prev |-> previous_down_key], e), b, twice)
  <2>1. ResetKnown(h.q, h.prev) /\ Apart(h.q)
    BY <1>1, WriteApart
  <2>2. queue' = h.q /\ previous_down_key' = h.prev
    BY <1>2 DEF SetFifo, Fifo
  <2> HIDE DEF h
  <2> QED
    BY <2>1, <2>2 DEF ResetInv, ResetKnown, Apart, NoTwoResets
<1>3. CASE GetKey
  <2>1. ResetKnown(Tail(queue), previous_down_key) /\ Apart(Tail(queue))
    BY <1>1, <1>3, ReadApart DEF GetKey, TypeOK
  <2> QED
    BY <1>3, <2>1 DEF GetKey, ResetInv, ResetKnown, Apart, NoTwoResets
<1>4. CASE UNCHANGED fifoVars
  BY <1>4 DEF fifoVars, ResetInv, ResetKnown, NoTwoResets
<1> QED
  BY <1>1, <1>2, <1>3, <1>4, FifoSteps

\* A press is dropped before it would take the last free entry.
LEMMA PressNotReset ==
  ASSUME Inv, NEW k \in Buttons \ Mouse, Press(k), NEW i \in DOMAIN queue', queue'[i].all
  PROVE  i \in DOMAIN queue
<1> DEFINE g == Put(Fifo, PressOf(k))
<1>1. queue' = g.q
  BY DEF Press, PutDouble, SetFifo
<1>2. queue \in Seq(Event) /\ PressOf(k) \in Event /\ ~PressOf(k).all
  BY DEF Inv, TypeOK, PressOf, Event, Keys
<1>3. CASE Refused(Fifo, PressOf(k))
  BY <1>1, <1>3 DEF Put, Fifo
<1>4. CASE ~Refused(Fifo, PressOf(k))
  <2>1. Room(Fifo) # 1
    BY <1>4, FifoAssumption DEF Refused, Reserved, PressOf
  <2>2. queue' = Append(queue, PressOf(k))
    BY <1>1, <1>4, <2>1 DEF Put, Stored, Fifo
  <2> QED
    BY <1>2, <2>2, AppendFacts
<1> QED
  BY <1>3, <1>4

-----------------------------------------------------------------------------
(* The theorems. *)

\* Every variable keeps its type and the FIFO its limit, for any size of 2 or
\* more and any keys.
THEOREM TypeCorrect == Spec => []TypeOK
<1>1. Inv => TypeOK
  BY DEF Inv
<1> QED BY <1>1, InvInit, InvStep, PTL DEF Spec

\* "reserve some space for key release events to avoid stuck keys"
\* (mp_fifo.c:36), for any size of 2 or more and any keys: a button that is up
\* and that the reader takes to be down, or will, is lifted by an event that
\* is still to be read.
THEOREM KeysComeUp == Spec => []NoStuckKey
<1>1. Inv => NoStuckKey
  BY DEF Inv
<1> QED BY <1>1, InvInit, InvStep, PTL DEF Spec

\* No key is in key_down (input.c:590) twice.
THEOREM KeysOnce == Spec => []NoKeyTwice
<1>1. Inv => NoKeyTwice
  BY DEF Inv
<1> QED BY <1>1, InvInit, InvStep, PTL DEF Spec

\* "ensure we do not only create MP_KEY_RELEASE_ALL events" (mp_fifo.c:42): two
\* resets never stand one behind the other, whatever the size and the keys.
THEOREM ResetsApart == Spec => []NoTwoResets
<1>1. Init => ResetInv
  BY DEF Init, ResetInv, ResetKnown, NoTwoResets
<1>2. (Inv /\ ResetInv) /\ [Next]_vars => (Inv /\ ResetInv)'
  BY InvStep, ResetStep
<1>3. Inv /\ ResetInv => NoTwoResets
  BY DEF ResetInv
<1> QED BY <1>1, <1>2, <1>3, InvInit, PTL DEF Spec

\* "Make sure we do not reset key state because of a down event" (mp_fifo.c:37):
\* no press of an ordinary button puts a reset in the FIFO.
THEOREM PressesLiftNothing == Spec => PressResetsNothing
<1> DEFINE Kept == \A k \in (pressed' \ pressed) \ Mouse :
                     \A i \in DOMAIN queue' : queue'[i].all => i \in DOMAIN queue
<1>1. Inv /\ [Next]_vars => [Kept]_vars
  <2> SUFFICES ASSUME Inv, Next, NEW k \in (pressed' \ pressed) \ Mouse,
                      NEW i \in DOMAIN queue', queue'[i].all
               PROVE  i \in DOMAIN queue
    OBVIOUS
  <2>1. PICK b \in Buttons : Press(b)
    BY DEF Next, Release, Tap, GetKey, ReadAllUp, ReadPress, ReadRelease, StartRepeat, userVars
  <2>2. k = b
    BY <2>1 DEF Press
  <2> QED
    BY <2>1, <2>2, PressNotReset
<1> QED BY <1>1, InvInit, InvStep, PTL DEF Spec, PressResetsNothing

\* What is repeated (check_autorepeat, input.c:1213) is the command of the keys
\* that are down, through every press, release and reset read since.
THEOREM RepeatsWhatIsDown == Spec => []RepeatIsCurrent
<1>1. Init => RepeatIsCurrent
  BY DEF Init, RepeatIsCurrent
<1>2. RepeatIsCurrent /\ [Next]_vars => RepeatIsCurrent'
  <2> SUFFICES ASSUME RepeatIsCurrent, [Next]_vars PROVE RepeatIsCurrent'
    OBVIOUS
  <2>1. ASSUME NEW k \in Buttons, Press(k) \/ Release(k)
        PROVE  RepeatIsCurrent'
    BY <2>1 DEF Press, Release, readerVars, RepeatIsCurrent
  <2>2. ASSUME NEW k \in Taps, Tap(k)
        PROVE  RepeatIsCurrent'
    BY <2>2 DEF Tap, readerVars, RepeatIsCurrent
  <2>3. CASE ReadAllUp
    BY <2>3 DEF ReadAllUp, Held, RepeatIsCurrent
  <2>4. CASE ReadPress
    BY <2>4 DEF ReadPress, readerVars, RepeatIsCurrent
  <2>5. CASE ReadRelease
    BY <2>5 DEF ReadRelease, Held, RepeatIsCurrent
  <2>6. CASE StartRepeat
    BY <2>6 DEF StartRepeat, Repeats, RepeatIsCurrent
  <2>7. CASE UNCHANGED vars
    BY <2>7 DEF vars, readerVars, RepeatIsCurrent
  <2> QED
    BY <2>1, <2>2, <2>3, <2>4, <2>5, <2>6, <2>7 DEF Next
<1> QED BY <1>1, <1>2, PTL DEF Spec
=============================================================================
