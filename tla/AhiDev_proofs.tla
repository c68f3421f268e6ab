---------------------------- MODULE AhiDev_proofs ----------------------------
(***************************************************************************)
(* Proofs about AhiDev for a ring and chunks of any size, any number of    *)
(* units, resets, pauses and inits.  That the requests are used in turn    *)
(* and that uninit waits for the end of PlayerTask hold whatever the       *)
(* scheduling; that the ring and its count are exact holds while Calm.     *)
(***************************************************************************)
EXTENDS AhiDev, TLAPS

LEMMA Sizes == /\ ChunkMax \in Nat \ {0} /\ ChunkSize \in 1 .. ChunkMax
               /\ Lengths \subseteq Nat \ {0}
  BY AhiAssumption

USE Sizes

\* A request the device has, or has returned and PlayerTask has not waited for.
Out(r) == r \in done \/ \E i \in DOMAIN queue : queue[i].id = r

\* Of the two requests, only the one sent before (link) is out when the other
\* is prepared; while both are out, PlayerTask waits for the older.
RequestInv ==
  /\ queue \in Seq([id : Requests, left : Int])
  /\ \A i, j \in DOMAIN queue : queue[i].id = queue[j].id => i = j
  /\ \A i \in DOMAIN queue : queue[i].id \notin done
  /\ AHIio # link
  /\ tpc \in {"open", "swap", "ended"} => link = NoRequest
  /\ tpc = "ended" => queue = <<>>
  /\ tpc \in {"open", "loop", "locked", "send", "cleanup", "ended"} =>
       \A r \in Requests : Out(r) => r = link
  /\ tpc \in {"clear", "store", "swap", "waitio"} =>
       \A r \in Requests : Out(r) => r \in {AHIio, link}

\* SIGF_CHILD comes from a PlayerTask that has ended, and uninit takes it.
EndInv ==
  /\ "child" \in signals => tpc = "ended"
  /\ mpc = "closed" => tpc = "ended" /\ "child" \notin signals

LockInv ==
  /\ lock = "main" <=> mpc \in {"put", "account"}
  /\ lock = "task" <=> tpc = "locked"

Taken == tpc \in {"send", "clear"}
Fill == IF buffer_full /\ ~Taken THEN ChunkMax ELSE (buffer_put - buffer_get) % ChunkMax
InHand == IF tpc \in {"send", "clear", "store"} THEN len ELSE 0
RingInv ==
  /\ mpc # "reset"
  /\ mpc \in {"put", "account"} => ~TaskRuns
  /\ mpc = "put" => ~buffer_full
  /\ buffer_full /\ ~Taken => buffer_put = buffer_get
  /\ made - sent = Fill
  /\ \A k \in 0 .. Fill - 1 : buffer[(buffer_get + k) % ChunkMax] = sent + k
FillInv ==
  /\ written_byte = (made - sent) + InHand - (IF mpc = "account" THEN data_put ELSE 0)
  /\ tpc = "store" => twritten = written_byte
  /\ mpc = "account" => mwritten = written_byte
CalmInv == Calm => RingInv /\ FillInv

-----------------------------------------------------------------------------
(* The ring's arithmetic. *)

LEMMA Mod ==
  ASSUME NEW a \in Int
  PROVE  /\ a % ChunkMax \in Int /\ 0 <= a % ChunkMax /\ a % ChunkMax < ChunkMax
         /\ 0 <= a /\ a < ChunkMax => a % ChunkMax = a
         /\ ChunkMax <= a /\ a < 2 * ChunkMax => a % ChunkMax = a - ChunkMax
         /\ -ChunkMax <= a /\ a < 0 => a % ChunkMax = a + ChunkMax
  OBVIOUS

LEMMA CellIs ==
  ASSUME NEW a
  PROVE  a \in Cells <=> a \in Int /\ 0 <= a /\ a < ChunkMax
  BY DEF Cells

LEMMA Behind ==
  ASSUME NEW fill \in Int, NEW l \in Int, NEW k \in Int, 1 <= l, 0 <= k, k < fill - l
  PROVE  l + k \in 0 .. fill - 1 /\ k \in 0 .. fill - l - 1
  OBVIOUS

\* The n units that play puts at put go behind the units in the ring, and over
\* none of them.
LEMMA CopyMath ==
  ASSUME NEW get \in Cells, NEW put \in Cells, NEW n \in Nat \ {0},
         n <= (IF get - put <= 0 THEN ChunkMax - put ELSE get - put)
  PROVE  LET fill == (put - get) % ChunkMax
             put2 == (put + n) % ChunkMax
         IN  /\ put2 \in Cells /\ fill \in Nat
             /\ put2 = get => fill + n = ChunkMax
             /\ put2 # get => (put2 - get) % ChunkMax = fill + n
             /\ \A k \in 0 .. fill - 1 : ((get + k) % ChunkMax) - put \notin 0 .. n - 1
             /\ \A k \in fill .. fill + n - 1 :
                  /\ (get + k) % ChunkMax = put + (k - fill)
                  /\ (get + k) % ChunkMax \in Cells
<1> DEFINE fill == (put - get) % ChunkMax
           put2 == (put + n) % ChunkMax
           d == (put2 - get) % ChunkMax
           at(k) == (get + k) % ChunkMax
<1>0. get \in Int /\ put \in Int /\ ChunkMax \in Int /\ 0 <= get /\ get < ChunkMax
      /\ 0 <= put /\ put < ChunkMax /\ n \in Int /\ 1 <= n
  BY CellIs
<1>f. /\ fill \in Int
      /\ get <= put => fill = put - get
      /\ put < get => fill = put - get + ChunkMax
  <2>1. put - get \in Int
    BY <1>0
  <2> QED
    BY <1>0, <2>1, Mod
<1>n. /\ get <= put => n <= ChunkMax - put
      /\ put < get => n <= get - put
  BY <1>0
<1>p. /\ put2 \in Int
      /\ put + n < ChunkMax => put2 = put + n
      /\ put + n = ChunkMax => put2 = 0
  <2>1. put + n \in Int
    BY <1>0
  <2> QED
    BY <1>0, <2>1, Mod
<1> HIDE DEF fill, put2
<1>d. /\ 0 <= put2 - get => d = put2 - get
      /\ put2 - get < 0 => d = put2 - get + ChunkMax
  <2>1. put2 - get \in Int /\ put2 - get < ChunkMax /\ -ChunkMax <= put2 - get
    BY <1>0, <1>n, <1>p
  <2> QED
    BY <2>1, Mod
<1>k. ASSUME NEW k \in 0 .. ChunkMax - 1
      PROVE  /\ get + k < ChunkMax => at(k) = get + k
             /\ get + k >= ChunkMax => at(k) = get + k - ChunkMax
  <2>1. get + k \in Int /\ 0 <= get + k /\ get + k < 2 * ChunkMax
    BY <1>0
  <2> QED
    BY <1>0, <2>1, Mod
<1> HIDE DEF d, at
<1>1. put2 \in Cells /\ fill \in Nat /\ fill + n <= ChunkMax
  BY <1>0, <1>f, <1>n, <1>p, CellIs
<1>2. put2 = get => fill + n = ChunkMax
  BY <1>0, <1>f, <1>n, <1>p
<1>3. put2 # get => d = fill + n
  <2>1. CASE get <= put
    BY <1>0, <1>f, <1>n, <1>p, <1>d, <2>1
  <2>2. CASE put < get
    BY <1>0, <1>f, <1>n, <1>p, <1>d, <2>2
  <2> QED
    BY <1>0, <2>1, <2>2
<1>4. ASSUME NEW k \in 0 .. fill - 1
      PROVE  at(k) - put \notin 0 .. n - 1
  BY <1>0, <1>1, <1>f, <1>n, <1>k
<1>5. ASSUME NEW k \in fill .. fill + n - 1
      PROVE  at(k) = put + (k - fill) /\ at(k) \in Cells
  BY <1>0, <1>1, <1>f, <1>n, <1>k, CellIs
<1> QED
  BY <1>1, <1>2, <1>3, <1>4, <1>5 DEF fill, put2, d, at

\* What PlayerTask takes at get is there, and the rest stays where it was.
LEMMA TakeMath ==
  ASSUME NEW get \in Cells, NEW put \in Cells, NEW full \in BOOLEAN,
         full => put = get, put # get \/ full,
         NEW l, l = IF put > get THEN put - get
                    ELSE IF ChunkMax - get > ChunkSize THEN ChunkSize ELSE ChunkMax - get
  PROVE  LET fill == IF full THEN ChunkMax ELSE (put - get) % ChunkMax
             get2 == (get + l) % ChunkMax
         IN  /\ l \in 1 .. ChunkMax /\ get2 \in Cells
             /\ (put - get2) % ChunkMax = fill - l
             /\ \A k \in 0 .. fill - l - 1 : (get2 + k) % ChunkMax = (get + (l + k)) % ChunkMax
<1> DEFINE fill == IF full THEN ChunkMax ELSE (put - get) % ChunkMax
           get2 == (get + l) % ChunkMax
           d == (put - get2) % ChunkMax
<1>0. get \in Int /\ put \in Int /\ ChunkMax \in Int /\ 0 <= get /\ get < ChunkMax
      /\ 0 <= put /\ put < ChunkMax /\ ChunkSize \in Int /\ 1 <= ChunkSize /\ ChunkSize <= ChunkMax
  BY CellIs
<1>1. l \in Int /\ 1 <= l /\ l <= ChunkMax - get /\ (put > get => l = put - get)
  BY <1>0
<1>2. /\ get2 \in Int
      /\ get + l < ChunkMax => get2 = get + l
      /\ get + l = ChunkMax => get2 = 0
  <2>1. get + l \in Int
    BY <1>0, <1>1
  <2> QED
    BY <1>0, <1>1, <2>1, Mod
<1>3. /\ fill \in Int
      /\ put > get => fill = put - get
      /\ put <= get => fill = put - get + ChunkMax
  <2>1. put - get \in Int
    BY <1>0
  <2> QED
    BY <1>0, <2>1, Mod
<1>4. l <= fill
  BY <1>0, <1>1, <1>3
<1> HIDE DEF get2, fill
<1>5. d = fill - l
  <2>1. /\ 0 <= put - get2 => d = put - get2
        /\ put - get2 < 0 => d = put - get2 + ChunkMax
    <3>1. put - get2 \in Int /\ put - get2 < ChunkMax /\ -ChunkMax <= put - get2
      BY <1>0, <1>1, <1>2
    <3> QED
      BY <3>1, Mod
  <2> HIDE DEF d
  <2> QED
    BY <1>0, <1>1, <1>2, <1>3, <2>1
<1>6. ASSUME NEW k \in 0 .. fill - l - 1
      PROVE  (get2 + k) % ChunkMax = (get + (l + k)) % ChunkMax
  <2>1. k \in Int /\ 0 <= k /\ k < ChunkMax - l
    BY <1>0, <1>1, <1>3, <1>4
  <2>2. CASE get + l = ChunkMax
    <3>1. get2 + k \in Int /\ 0 <= get2 + k /\ get2 + k < ChunkMax
          /\ get + (l + k) = (get2 + k) + ChunkMax
      BY <1>0, <1>1, <1>2, <2>1, <2>2
    <3> QED
      BY <1>0, <3>1, Mod
  <2>3. CASE get + l < ChunkMax
    <3>1. get2 + k = get + (l + k)
      BY <1>0, <1>1, <1>2, <2>1, <2>3
    <3> QED
      BY <3>1
  <2> QED
    BY <1>0, <1>1, <2>2, <2>3
<1>7. get2 \in Cells /\ l \in 1 .. ChunkMax
  BY <1>0, <1>1, <1>2, CellIs
<1> QED
  BY <1>5, <1>6, <1>7 DEF get2, fill, d

-----------------------------------------------------------------------------
(* Types, without the length of the queue, which RequestInv gives. *)

Typed ==
  /\ bounds \in Cases
  /\ buffer \in [Cells -> 0 .. bounds.units - 1 \cup {Silence}]
  /\ buffer_get \in Cells /\ buffer_put \in Cells /\ buffer_full \in BOOLEAN
  /\ written_byte \in Int /\ mwritten \in Int /\ twritten \in Int
  /\ paused \in BOOLEAN /\ lock \in {"free", "main", "task"}
  /\ mpc \in {"wait", "idle", "put", "account", "reset", "join", "closed"}
  /\ data_put \in 0 .. ChunkMax /\ pend \subseteq ResetFields
  /\ tpc \in {"open", "loop", "locked", "send", "clear", "store", "swap", "waitio",
              "cleanup", "ended"}
  /\ len \in 0 .. ChunkMax /\ AHIio \in Requests /\ link \in Requests \cup {NoRequest}
  /\ signals \subseteq {"ready", "break", "child"} /\ done \subseteq Requests
  /\ queue \in Seq([id : Requests, left : Int])
  /\ made \in 0 .. bounds.units /\ sent \in Nat
  /\ resets \in Nat /\ inits \in Nat

\* The device's queue without one request, without its first, or with the
\* first played in part.
LEMMA Removed ==
  ASSUME NEW T, NEW s \in Seq(T), NEW i \in DOMAIN s
  PROVE  RemoveAt(s, i) \in Seq(T)
<1>1. Len(s) \in Nat /\ i \in 1 .. Len(s)
  OBVIOUS
<1>2. SubSeq(s, 1, i - 1) \in Seq(T) /\ SubSeq(s, i + 1, Len(s)) \in Seq(T)
  BY <1>1
<1> QED
  BY <1>2 DEF RemoveAt

LEMMA Played1 ==
  ASSUME NEW T, NEW s \in Seq(T), s # <<>>
  PROVE  /\ Head(s) \in T /\ Head(s) = s[1] /\ 1 \in DOMAIN s
         /\ Tail(s) \in Seq(T) /\ DOMAIN Tail(s) = 1 .. Len(s) - 1 /\ Len(s) \in Nat
         /\ \A i \in 1 .. Len(s) - 1 : Tail(s)[i] = s[i + 1]
         /\ \A x \in T : /\ <<x>> \o Tail(s) \in Seq(T) /\ DOMAIN (<<x>> \o Tail(s)) = DOMAIN s
                         /\ (<<x>> \o Tail(s))[1] = x
                         /\ \A i \in DOMAIN s : i # 1 => (<<x>> \o Tail(s))[i] = s[i]
<1>1. Len(s) \in Nat \ {0} /\ DOMAIN s = 1 .. Len(s)
  OBVIOUS
<1>2. /\ Head(s) \in T /\ Head(s) = s[1]
      /\ Tail(s) \in Seq(T) /\ Len(Tail(s)) = Len(s) - 1
      /\ \A i \in 1 .. Len(s) - 1 : Tail(s)[i] = s[i + 1]
  BY <1>1
<1>3. ASSUME NEW x \in T
      PROVE  /\ <<x>> \o Tail(s) \in Seq(T) /\ Len(<<x>> \o Tail(s)) = Len(s)
             /\ (<<x>> \o Tail(s))[1] = x
             /\ \A i \in DOMAIN s : i # 1 => (<<x>> \o Tail(s))[i] = s[i]
  <2>1. <<x>> \in Seq(T) /\ Len(<<x>>) = 1
    OBVIOUS
  <2>2. \A i \in DOMAIN s : i # 1 => Tail(s)[i - 1] = s[i]
    BY <1>1, <1>2
  <2> QED
    BY <1>1, <1>2, <2>1, <2>2
<1> QED
  BY <1>1, <1>2, <1>3

LEMMA TypedInit == Init => Typed
<1> SUFFICES ASSUME Init PROVE Typed
  OBVIOUS
<1>1. <<>> \in Seq([id : Requests, left : Int]) /\ 0 \in Cells
  BY CellIs
<1>2. bounds.units \in Nat
  BY AhiAssumption DEF Init
<1> QED
  BY <1>1, <1>2 DEF Init, Typed, Requests, NoRequest, ResetFields

\* How many units play copies: at least one, and what there is room for.
LEMMA Copied ==
  ASSUME Typed, NEW l \in Lengths
  PROVE  LET n == IF l < Contiguous THEN l ELSE Contiguous IN
         n \in Nat \ {0} /\ n <= l /\ n <= ChunkMax /\ n <= Contiguous
<1>1. buffer_get \in Int /\ buffer_put \in Int /\ 0 <= buffer_get /\ buffer_get < ChunkMax
      /\ 0 <= buffer_put /\ buffer_put < ChunkMax
  BY CellIs DEF Typed
<1>2. Contiguous \in 1 .. ChunkMax
  BY <1>1 DEF Contiguous
<1> QED
  BY <1>2

LEMMA TypedMain ==
  ASSUME Typed, MainCall \/ MainStep, UNCHANGED bounds
  PROVE  Typed'
<1> USE DEF ring, main, task, device, ghost
<1>0. bounds.units \in Nat /\ 0 \in Cells
  BY AhiAssumption, CellIs DEF Typed
<1>1. ASSUME NEW l \in Lengths, PlayCopy(l)
      PROVE  Typed'
  <2> DEFINE n == IF l < Contiguous THEN l ELSE Contiguous
  <2>1. n \in Nat \ {0} /\ n <= l /\ n <= ChunkMax
    BY Copied
  <2>2. /\ buffer' = Put(n) /\ buffer_put' = (buffer_put + n) % ChunkMax
        /\ buffer_full' = Filled(buffer_put') /\ data_put' = n /\ made' = made + n
        /\ mwritten' = written_byte /\ mpc' = "account" /\ made + l <= bounds.units
    BY <1>1 DEF PlayCopy
  <2> HIDE DEF n
  <2>3. made \in Nat /\ made + n <= bounds.units
    BY <1>0, <2>1, <2>2 DEF Typed
  <2>4. buffer_put' \in Cells
    <3>1. buffer_put + n \in Int
      BY <2>1, CellIs DEF Typed
    <3> QED
      BY <2>2, <3>1, Mod, CellIs
  <2>5. buffer' \in [Cells -> 0 .. bounds.units - 1 \cup {Silence}]
    <3>1. ASSUME NEW c \in Cells, c - buffer_put \in 0 .. n - 1
          PROVE  made + (c - buffer_put) \in 0 .. bounds.units - 1
      BY <1>0, <2>1, <2>3, <3>1
    <3> QED
      BY <2>2, <3>1 DEF Put, Typed
  <2>6. buffer_full' \in BOOLEAN /\ data_put' \in 0 .. ChunkMax /\ made' \in 0 .. bounds.units
    BY <1>0, <2>1, <2>2, <2>3 DEF Filled, Typed
  <2> QED
    BY <1>1, <2>2, <2>4, <2>5, <2>6 DEF PlayCopy, Typed
<1>2. CASE PlayAccount
  <2>1. written_byte' \in Int
    BY <1>2 DEF PlayAccount, Typed
  <2> QED
    BY <1>2, <2>1 DEF PlayAccount, Typed
<1>3. ASSUME NEW f \in ResetFields, ResetStore(f)
      PROVE  Typed'
  <2>1. /\ buffer_get' \in {0, buffer_get} /\ buffer_put' \in {0, buffer_put}
        /\ buffer_full' = (IF f = "full" THEN FALSE ELSE buffer_full)
        /\ written_byte' \in {0, written_byte} /\ pend' \subseteq pend /\ mpc' \in {"idle", mpc} /\ sent' \in {made, sent}
    BY <1>3 DEF ResetStore
  <2>2. /\ buffer_get' \in Cells /\ buffer_put' \in Cells
        /\ written_byte' \in Int /\ pend' \subseteq ResetFields
    BY <1>0, <2>1 DEF Typed
  <2>5. buffer_full' \in BOOLEAN
    BY <2>1, Zenon DEF Typed
  <2>3. sent' \in Nat /\ mpc' \in {"idle", "reset"}
    BY <1>0, <1>3, <2>1 DEF ResetStore, Typed
  <2>4. UNCHANGED <<bounds, buffer, paused, lock, data_put, mwritten, resets, inits, task,
                    signals, device, made>>
    BY <1>3 DEF ResetStore
  <2> QED
    BY <2>2, <2>3, <2>4, <2>5 DEF Typed
<1>4. CASE ResetStart
  BY <1>4 DEF ResetStart, Typed
<1>5. CASE Reinit
  BY <1>5 DEF Reinit, Typed
<1>6. CASE InitReady \/ PlayLock \/ Pause \/ Resume \/ Uninit \/ Joined
  <2>1. /\ UNCHANGED <<bounds, ring, data_put, mwritten, pend, resets, inits, task, device, ghost>>
        /\ paused' \in {paused, TRUE, FALSE} /\ lock' \in {lock, "main"}
        /\ mpc' \in {mpc, "idle", "put", "join", "closed"}
        /\ signals' \subseteq signals \cup {"break"}
    BY <1>6 DEF InitReady, PlayLock, Pause, Resume, Uninit, Joined
  <2>2. paused' \in BOOLEAN
    BY <2>1, Zenon DEF Typed
  <2> QED
    BY <2>1, <2>2 DEF Typed
<1> QED
  BY <1>1, <1>2, <1>3, <1>4, <1>5, <1>6 DEF MainCall, MainStep

LEMMA TypedTask ==
  ASSUME Typed, TaskStep \/ DevicePlays, UNCHANGED bounds
  PROVE  Typed'
<1> USE DEF ring, main, task, device, ghost
<1>1. CASE Opened \/ OpenFailed \/ Break \/ TaskLock \/ TaskEmpty
  <2>1. /\ UNCHANGED <<bounds, ring, paused, main, len, twritten, AHIio, link, device, ghost>>
        /\ lock' \in {lock, "task", "free"} /\ tpc' \in {"loop", "cleanup", "locked"}
        /\ signals' \subseteq signals \cup {"ready"}
    BY <1>1 DEF Opened, OpenFailed, Break, TaskLock, TaskEmpty
  <2> QED
    BY <2>1 DEF Typed
<1>2. CASE Cleanup
  <2>1. queue' \in Seq([id : Requests, left : Int])
    <3>1. CASE \E i \in DOMAIN queue : queue[i].id = link
      <4>1. PICK i \in DOMAIN queue : queue' = RemoveAt(queue, i)
        BY <1>2, <3>1 DEF Cleanup, Aborted
      <4> QED
        BY <4>1, Removed DEF Typed
    <3>2. CASE ~\E i \in DOMAIN queue : queue[i].id = link
      BY <1>2, <3>2 DEF Cleanup, Aborted, Typed
    <3> QED
      BY <3>1, <3>2
  <2> QED
    BY <1>2, <2>1 DEF Cleanup, EndSignal, Typed
<1>3. CASE TaskTake
  <2>1. len' = ToPlay /\ buffer_get' = (buffer_get + len') % ChunkMax /\ sent' = sent + len'
    BY <1>3 DEF TaskTake
  <2>2. len' \in 1 .. ChunkMax /\ buffer_get' \in Cells
    <3>1. /\ buffer_get \in Int /\ 0 <= buffer_get /\ buffer_get < ChunkMax
          /\ buffer_put \in Int /\ 0 <= buffer_put /\ buffer_put < ChunkMax
      BY CellIs DEF Typed
    <3>2. len' \in 1 .. ChunkMax
      BY <2>1, <3>1 DEF ToPlay
    <3>3. buffer_get + len' \in Int
      BY <3>1, <3>2
    <3> QED
      BY <2>1, <3>2, <3>3, Mod, CellIs
  <2>3. sent' \in Nat
    BY <2>1, <2>2 DEF Typed
  <2> QED
    BY <1>3, <2>2, <2>3 DEF TaskTake, Typed
<1>4. CASE TaskSend
  <2>1. [id |-> AHIio, left |-> len] \in [id : Requests, left : Int]
    BY DEF Typed
  <2>2. queue' \in Seq([id : Requests, left : Int])
    BY <1>4, <2>1 DEF TaskSend, Typed
  <2> QED
    BY <1>4, <2>2 DEF TaskSend, Typed
<1>5. CASE TaskClear
  BY <1>5 DEF TaskClear, Typed
<1>6. CASE TaskStore
  <2>1. written_byte' \in Int
    BY <1>6 DEF TaskStore, Played, Typed
  <2> QED
    BY <1>6, <2>1 DEF TaskStore, Typed
<1>7. CASE TaskSwap
  <2>1. Other(AHIio) \in Requests
    BY DEF Other, Requests, Typed
  <2> QED
    BY <1>7, <2>1 DEF TaskSwap, Typed
<1>8. CASE TaskWait
  <2>1. Other(AHIio) \in Requests
    BY DEF Other, Requests, Typed
  <2>2. done' \subseteq done /\ link' \in {NoRequest, AHIio} /\ AHIio' \in {AHIio, Other(AHIio)}
    BY <1>8 DEF TaskWait
  <2> QED
    BY <1>8, <2>1, <2>2 DEF TaskWait, Typed
<1>9. CASE DevicePlays
  <2> DEFINE r == Head(queue)
  <2>1. r \in [id : Requests, left : Int] /\ Tail(queue) \in Seq([id : Requests, left : Int])
    BY <1>9, Played1 DEF DevicePlays, Typed
  <2>2. [r EXCEPT !.left = @ - 1] \in [id : Requests, left : Int]
    BY <2>1
  <2>3. done' \subseteq Requests
    BY <1>9, <2>1 DEF DevicePlays, Typed
  <2>4. queue' \in Seq([id : Requests, left : Int])
    <3>1. queue \in Seq([id : Requests, left : Int]) /\ queue # <<>>
      BY <1>9 DEF DevicePlays, Typed
    <3>2. <<[r EXCEPT !.left = @ - 1]>> \o Tail(queue) \in Seq([id : Requests, left : Int])
      BY <2>2, <3>1, Played1
    <3> QED
      BY <1>9, <2>1, <3>2 DEF DevicePlays
  <2>5. UNCHANGED <<bounds, ring, paused, lock, main, task, signals, ghost>>
    BY <1>9 DEF DevicePlays
  <2> QED
    BY <2>3, <2>4, <2>5 DEF Typed
<1> QED
  BY <1>1, <1>2, <1>3, <1>4, <1>5, <1>6, <1>7, <1>8, <1>9 DEF TaskStep

-----------------------------------------------------------------------------
(* The two requests. *)

LEMMA Entries ==
  ASSUME NEW s \in Seq([id : Requests, left : Int])
  PROVE  /\ Len(s) \in Nat /\ DOMAIN s = 1 .. Len(s)
         /\ \A i \in DOMAIN s : s[i].id \in Requests
<1>1. Len(s) \in Nat /\ DOMAIN s = 1 .. Len(s)
  OBVIOUS
<1>2. ASSUME NEW i \in DOMAIN s PROVE s[i].id \in Requests
  <2> DEFINE T == [id : Requests, left : Int]
  <2>1. s \in Seq(T) /\ i \in 1 .. Len(s)
    BY <1>1
  <2> HIDE DEF T
  <2>2. s[i] \in T
    BY <2>1
  <2> QED
    BY <2>2 DEF T
<1> QED
  BY <1>1, <1>2

LEMMA RequestInit == Init => RequestInv
<1> SUFFICES ASSUME Init PROVE RequestInv
  OBVIOUS
<1>1. queue = <<>> /\ DOMAIN queue = {} /\ queue \in Seq([id : Requests, left : Int])
  BY DEF Init
<1>2. done = {} /\ AHIio = 1 /\ link = 0 /\ tpc = "open"
  BY DEF Init, NoRequest
<1> QED
  BY <1>1, <1>2 DEF RequestInv, Out, NoRequest

\* Most steps only move on in PlayerTask.
LEMMA RequestKept ==
  ASSUME RequestInv, UNCHANGED <<queue, done, AHIio, link>>,
         \/ tpc' = tpc
         \/ tpc \in {"open", "loop", "locked", "send", "cleanup"}
              /\ tpc' \in {"loop", "locked", "send", "cleanup"}
         \/ tpc \in {"clear", "store"} /\ tpc' \in {"store", "waitio"}
         \/ tpc = "store" /\ link = NoRequest /\ tpc' = "swap"
         \/ tpc = "ended" /\ tpc' = "open"
  PROVE  RequestInv'
<1>1. \A r : Out(r)' <=> Out(r)
  BY DEF Out
<1> QED
  BY <1>1 DEF RequestInv

LEMMA RequestCleanup ==
  ASSUME Typed, RequestInv, Cleanup
  PROVE  RequestInv'
<1>1. queue \in Seq([id : Requests, left : Int]) /\ tpc = "cleanup" /\ tpc' = "ended"
      /\ queue' = Aborted /\ done' = done \ {link} /\ link' = NoRequest /\ AHIio' = AHIio
  BY DEF Cleanup, RequestInv
<1>2. \A i \in DOMAIN queue : queue[i].id \in Requests /\ queue[i].id = link
  BY <1>1, Entries DEF RequestInv, Out
<1>3. done' = {}
  BY <1>1 DEF RequestInv, Out, Typed
<1>4. queue' = <<>>
  <2>1. CASE queue = <<>>
    BY <1>1, <2>1 DEF Aborted
  <2>2. CASE queue # <<>>
    <3>1. Len(queue) \in Nat \ {0} /\ DOMAIN queue = 1 .. Len(queue)
      BY <1>1, <2>2
    <3>2. Len(queue) = 1
      BY <1>2, <3>1 DEF RequestInv
    <3>3. DOMAIN queue = {1}
      BY <3>1, <3>2
    <3>4. queue' = RemoveAt(queue, 1)
      BY <1>1, <1>2, <3>3 DEF Aborted
    <3> QED
      BY <1>1, <3>2, <3>4 DEF RemoveAt
  <2> QED
    BY <2>1, <2>2
<1>5. queue' \in Seq([id : Requests, left : Int]) /\ DOMAIN queue' = {}
  BY <1>4
<1>6. AHIio # NoRequest
  BY DEF Typed, Requests, NoRequest
<1> QED
  BY <1>1, <1>3, <1>4, <1>5, <1>6 DEF RequestInv, Out

LEMMA RequestSend ==
  ASSUME Typed, RequestInv, TaskSend
  PROVE  RequestInv'
<1> DEFINE x == [id |-> AHIio, left |-> len]
<1>1. /\ queue \in Seq([id : Requests, left : Int]) /\ tpc = "send" /\ tpc' = "clear"
      /\ queue' = Append(queue, x) /\ UNCHANGED <<done, link, AHIio>>
  BY DEF TaskSend, RequestInv, task
<1>2. x \in [id : Requests, left : Int] /\ x.id = AHIio
  BY DEF Typed
<1>3. ~Out(AHIio)
  BY <1>1 DEF RequestInv, Typed
<1> HIDE DEF x
<1>4. /\ queue' \in Seq([id : Requests, left : Int])
      /\ DOMAIN queue' = 1 .. Len(queue) + 1 /\ DOMAIN queue = 1 .. Len(queue)
      /\ Len(queue) \in Nat /\ queue'[Len(queue) + 1] = x
      /\ \A i \in DOMAIN queue : queue'[i] = queue[i]
  BY <1>1, <1>2
<1>5. \A i \in DOMAIN queue' : i \in DOMAIN queue \/ i = Len(queue) + 1
  BY <1>4
<1>6. \A i, j \in DOMAIN queue' : queue'[i].id = queue'[j].id => i = j
  BY <1>2, <1>3, <1>4, <1>5 DEF RequestInv, Out
<1>7. \A i \in DOMAIN queue' : queue'[i].id \notin done'
  BY <1>1, <1>2, <1>3, <1>4, <1>5 DEF RequestInv, Out
<1>8. \A r \in Requests : Out(r)' => Out(r) \/ r = AHIio
  BY <1>1, <1>2, <1>4, <1>5 DEF Out
<1> QED
  BY <1>1, <1>4, <1>6, <1>7, <1>8 DEF RequestInv

LEMMA RequestDevice ==
  ASSUME Typed, RequestInv, DevicePlays
  PROVE  RequestInv'
<1> DEFINE T == [id : Requests, left : Int]
           r == Head(queue)
           x == [r EXCEPT !.left = @ - 1]
<1>1. queue \in Seq(T) /\ queue # <<>> /\ UNCHANGED <<tpc, AHIio, link>>
  BY DEF DevicePlays, RequestInv, task
<1>2. /\ r = queue[1] /\ 1 \in DOMAIN queue /\ r \in T /\ Len(queue) \in Nat
      /\ DOMAIN queue = 1 .. Len(queue)
  BY <1>1, Played1, Entries
<1>3. x \in T /\ x.id = r.id
  BY <1>2
<1>4. CASE queue' = Tail(queue) /\ done' = done \cup {r.id}
  <2>1. /\ queue' \in Seq(T) /\ DOMAIN queue' = 1 .. Len(queue) - 1
        /\ \A i \in DOMAIN queue' : queue'[i] = queue[i + 1]
    BY <1>1, <1>4, Played1
  <2>2. \A i \in DOMAIN queue' : i + 1 \in DOMAIN queue /\ i + 1 # 1 /\ i \in Int
    BY <1>2, <2>1
  <2>3. \A i, j \in DOMAIN queue' : queue'[i].id = queue'[j].id => i = j
    <3>1. \A i, j \in DOMAIN queue' : queue'[i].id = queue'[j].id => i + 1 = j + 1
      BY <2>1, <2>2 DEF RequestInv
    <3> QED
      BY <2>2, <3>1
  <2>4. \A i \in DOMAIN queue' : queue'[i].id \notin done'
    BY <1>2, <1>4, <2>1, <2>2 DEF RequestInv
  <2>5. \A q : Out(q)' => Out(q)
    BY <1>2, <1>4, <2>1, <2>2 DEF Out
  <2>6. tpc # "ended"
    BY <1>1 DEF RequestInv
  <2> QED
    BY <1>1, <2>1, <2>3, <2>4, <2>5, <2>6 DEF RequestInv
<1>5. CASE queue' = <<x>> \o Tail(queue) /\ done' = done
  <2> HIDE DEF x, r, T
  <2>1. /\ queue' \in Seq(T) /\ DOMAIN queue' = DOMAIN queue
        /\ queue'[1] = x /\ \A i \in DOMAIN queue : i # 1 => queue'[i] = queue[i]
    BY <1>1, <1>3, <1>5, Played1
  <2>2. \A i \in DOMAIN queue : queue'[i].id = queue[i].id
    <3>1. queue'[1].id = queue[1].id
      <4>1. queue'[1] = x /\ r = queue[1]
        BY <1>2, <2>1
      <4> QED
        BY <1>3, <4>1, Zenon
    <3>2. \A i \in DOMAIN queue : i # 1 => queue'[i] = queue[i]
      BY <2>1, Zenon
    <3> QED
      BY <3>1, <3>2, Zenon
  <2>3. \A q : Out(q)' <=> Out(q)
    BY <1>5, <2>1, <2>2 DEF Out
  <2>4. tpc # "ended"
    BY <1>1 DEF RequestInv
  <2>5. /\ \A i, j \in DOMAIN queue' : queue'[i].id = queue'[j].id => i = j
        /\ \A i \in DOMAIN queue' : queue'[i].id \notin done'
    <3>1. /\ \A i, j \in DOMAIN queue : queue[i].id = queue[j].id => i = j
          /\ \A i \in DOMAIN queue : queue[i].id \notin done
      BY DEF RequestInv
    <3>2. DOMAIN queue' = DOMAIN queue /\ done' = done
      BY <1>5, <2>1
    <3> QED
      BY <2>2, <3>1, <3>2
  <2>6. \A q : Out(q)' => Out(q)
    BY <2>3
  <2>7. queue' \in Seq([id : Requests, left : Int])
    BY <2>1 DEF T
  <2> QED
    BY <1>1, <2>4, <2>5, <2>6, <2>7 DEF RequestInv
<1> QED
  BY <1>4, <1>5 DEF DevicePlays

LEMMA RequestWait ==
  ASSUME Typed, RequestInv, TaskSwap \/ TaskWait
  PROVE  RequestInv'
<1>1. AHIio \in {1, 2} /\ Other(AHIio) = 3 - AHIio /\ NoRequest = 0
  BY DEF Typed, Requests, Other, NoRequest
<1>2. queue' = queue /\ tpc' = "loop"
  BY DEF TaskSwap, TaskWait, device
<1>3. CASE TaskSwap
  <2>1. tpc = "swap" /\ link = NoRequest /\ link' = AHIio /\ AHIio' = Other(AHIio) /\ done' = done
    BY <1>3 DEF TaskSwap, RequestInv, device
  <2>2. \A r \in Requests : Out(r)' => r = link'
    BY <1>1, <1>2, <2>1 DEF RequestInv, Out, Requests
  <2> QED
    BY <1>1, <1>2, <2>1, <2>2 DEF RequestInv
<1>4. CASE TaskWait
  <2>1. tpc = "waitio" /\ link \in done /\ done' \subseteq done
    BY <1>4 DEF TaskWait
  <2>2. \A i \in DOMAIN queue : queue[i].id \in Requests
    BY Entries DEF RequestInv
  <2>3. CASE AHIio \in done
    <3>1. done' = {} /\ link' = NoRequest /\ AHIio' = AHIio
      BY <1>4, <2>3 DEF TaskWait
    <3>2. \A r \in Requests : ~Out(r)'
      BY <1>2, <2>1, <2>2, <2>3, <3>1 DEF RequestInv, Out
    <3> QED
      BY <1>1, <1>2, <3>1, <3>2 DEF RequestInv
  <2>4. CASE AHIio \notin done
    <3>1. done' = done \ {link} /\ link' = AHIio /\ AHIio' = Other(AHIio)
      BY <1>4, <2>4 DEF TaskWait
    <3>2. \A r \in Requests : Out(r)' => r = link'
      BY <1>2, <2>1, <2>2, <3>1 DEF RequestInv, Out
    <3> QED
      BY <1>1, <1>2, <2>1, <3>1, <3>2 DEF RequestInv
  <2> QED
    BY <2>3, <2>4
<1> QED
  BY <1>3, <1>4

LEMMA RequestStep ==
  ASSUME Typed, RequestInv, EndInv, [Next]_<<vars, bounds>>
  PROVE  RequestInv'
<1>1. CASE MainCall \/ MainStep
  <2>1. UNCHANGED <<queue, done, AHIio, link>> /\ (tpc' = tpc \/ (tpc = "ended" /\ tpc' = "open"))
    BY <1>1 DEF MainCall, MainStep, PlayLock, ResetStart, Pause, Resume, Uninit, Reinit, InitReady,
                PlayAccount, Joined, PlayCopy, ResetStore, EndInv, task, device
  <2> QED
    BY <2>1, RequestKept
<1>2. CASE Opened \/ OpenFailed \/ Break \/ TaskLock \/ TaskEmpty \/ TaskTake \/ TaskClear \/ TaskStore
  <2>1. UNCHANGED <<queue, done, AHIio, link>>
    BY <1>2 DEF Opened, OpenFailed, Break, TaskLock, TaskEmpty, TaskTake, TaskClear, TaskStore, device
  <2>2. \/ tpc \in {"open", "loop", "locked", "send", "cleanup"}
             /\ tpc' \in {"loop", "locked", "send", "cleanup"}
        \/ tpc \in {"clear", "store"} /\ tpc' \in {"store", "waitio"}
        \/ tpc = "store" /\ link = NoRequest /\ tpc' = "swap"
    BY <1>2 DEF Opened, OpenFailed, Break, TaskLock, TaskEmpty, TaskTake, TaskClear, TaskStore
  <2> QED
    BY <2>1, <2>2, RequestKept
<1>3. CASE Cleanup
  BY <1>3, RequestCleanup
<1>4. CASE TaskSend
  BY <1>4, RequestSend
<1>5. CASE TaskSwap \/ TaskWait
  BY <1>5, RequestWait
<1>6. CASE DevicePlays
  BY <1>6, RequestDevice
<1>7. CASE UNCHANGED <<vars, bounds>>
  BY <1>7, RequestKept DEF vars, task, device
<1> QED
  BY <1>1, <1>2, <1>3, <1>4, <1>5, <1>6, <1>7 DEF Next, TaskStep

\* At most the two requests are in the device's queue.
LEMMA QueueBound ==
  ASSUME RequestInv
  PROVE  Len(queue) <= 2
<1>1. Len(queue) \in Nat /\ DOMAIN queue = 1 .. Len(queue)
      /\ \A i \in DOMAIN queue : queue[i].id \in {1, 2}
  BY Entries DEF RequestInv, Requests
<1> SUFFICES ASSUME Len(queue) >= 3 PROVE FALSE
  BY <1>1
<1>2. 1 \in DOMAIN queue /\ 2 \in DOMAIN queue /\ 3 \in DOMAIN queue
  BY <1>1
<1>3. queue[1].id # queue[2].id /\ queue[1].id # queue[3].id /\ queue[2].id # queue[3].id
  BY <1>2 DEF RequestInv
<1> QED
  BY <1>1, <1>2, <1>3

-----------------------------------------------------------------------------
(* The end of PlayerTask, and the lock. *)

LEMMA EndStep ==
  ASSUME EndInv, [Next]_<<vars, bounds>>
  PROVE  EndInv'
<1> USE DEF EndInv
<1>1. CASE InitReady \/ PlayLock \/ PlayAccount \/ ResetStart \/ Pause \/ Resume \/ Uninit
  BY <1>1 DEF InitReady, PlayLock, PlayAccount, ResetStart, Pause, Resume, Uninit, main, task
<1>2. ASSUME NEW l \in Lengths, PlayCopy(l)
      PROVE  EndInv'
  BY <1>2 DEF PlayCopy, task
<1>3. ASSUME NEW f \in ResetFields, ResetStore(f)
      PROVE  EndInv'
  BY <1>3 DEF ResetStore, task
<1>4. CASE Joined \/ Reinit
  BY <1>4 DEF Joined, Reinit, task
<1>5. CASE TaskStep
  <2>1. tpc # "ended" /\ mpc' = mpc
    BY <1>5 DEF TaskStep, Opened, OpenFailed, Break, Cleanup, TaskLock, TaskEmpty, TaskTake, TaskSend,
                TaskClear, TaskStore, TaskSwap, TaskWait, main
  <2>2. "child" \in signals' => tpc' = "ended"
    BY <1>5, <2>1 DEF TaskStep, Opened, OpenFailed, Break, Cleanup, TaskLock, TaskEmpty, TaskTake,
                TaskSend, TaskClear, TaskStore, TaskSwap, TaskWait
  <2> QED
    BY <2>1, <2>2
<1>6. CASE DevicePlays \/ UNCHANGED <<vars, bounds>>
  BY <1>6 DEF DevicePlays, vars, main, task
<1> QED
  BY <1>1, <1>2, <1>3, <1>4, <1>5, <1>6 DEF Next, MainCall, MainStep

LEMMA LockStep ==
  ASSUME EndInv, LockInv, [Next]_<<vars, bounds>>
  PROVE  LockInv'
<1> USE DEF LockInv, EndInv
<1>1. CASE InitReady \/ PlayLock \/ PlayAccount \/ ResetStart \/ Pause \/ Resume \/ Uninit
  BY <1>1 DEF InitReady, PlayLock, PlayAccount, ResetStart, Pause, Resume, Uninit, main, task
<1>2. ASSUME NEW l \in Lengths, PlayCopy(l)
      PROVE  LockInv'
  BY <1>2 DEF PlayCopy, task
<1>3. ASSUME NEW f \in ResetFields, ResetStore(f)
      PROVE  LockInv'
  BY <1>3 DEF ResetStore, task
<1>4. CASE Joined \/ Reinit
  BY <1>4 DEF Joined, Reinit, task
<1>5. CASE TaskStep
  BY <1>5 DEF TaskStep, Opened, OpenFailed, Break, Cleanup, TaskLock, TaskEmpty, TaskTake, TaskSend,
              TaskClear, TaskStore, TaskSwap, TaskWait, main
<1>6. CASE DevicePlays \/ UNCHANGED <<vars, bounds>>
  BY <1>6 DEF DevicePlays, vars, main, task
<1> QED
  BY <1>1, <1>2, <1>3, <1>4, <1>5, <1>6 DEF Next, MainCall, MainStep

-----------------------------------------------------------------------------
(* The ring and its count, while Calm. *)

\* Steps that neither touch the ring nor take anything from it in hand.
LEMMA CalmKept ==
  ASSUME RingInv, FillInv, UNCHANGED <<ring, made, sent>>,
         \/ UNCHANGED <<mpc, data_put, mwritten>>
         \/ mpc \notin {"put", "account", "reset"} /\ mpc' \notin {"put", "account", "reset"},
         mpc \in {"put", "account"} => tpc' \notin {"locked", "send", "clear", "store"},
         \/ UNCHANGED <<tpc, len, twritten>>
         \/ tpc \notin {"send", "clear", "store"} /\ tpc' \notin {"send", "clear", "store"}
  PROVE  RingInv' /\ FillInv'
<1>0. /\ UNCHANGED <<buffer, buffer_get, buffer_put, buffer_full, written_byte>>
      /\ made' = made /\ sent' = sent
  BY DEF ring
<1>1. Taken' <=> Taken
  BY DEF Taken
<1>2. Fill' = Fill
  BY <1>0, <1>1 DEF Fill
<1>3. InHand' = InHand /\ (tpc' = "store" => tpc = "store" /\ twritten' = twritten)
  BY DEF InHand
<1>4. /\ mpc' # "reset"
      /\ mpc' \in {"put", "account"} => mpc = mpc' /\ ~TaskRuns'
      /\ mpc' = "account" => data_put' = data_put /\ mwritten' = mwritten
      /\ mpc = "account" => mpc' = mpc
  BY DEF RingInv, TaskRuns
<1>5. RingInv'
  <2>1. \A k \in 0 .. Fill' - 1 : buffer'[(buffer_get' + k) % ChunkMax] = sent' + k
    BY <1>0, <1>2, Zenon DEF RingInv
  <2>2. made' - sent' = Fill'
    BY <1>0, <1>2 DEF RingInv
  <2>3. buffer_full' /\ ~Taken' => buffer_put' = buffer_get'
    BY <1>0, <1>1 DEF RingInv
  <2>4. mpc' = "put" => ~buffer_full'
    BY <1>0, <1>4 DEF RingInv
  <2> QED
    BY <1>4, <2>1, <2>2, <2>3, <2>4 DEF RingInv
<1>6. FillInv'
  BY <1>0, <1>3, <1>4 DEF FillInv
<1> QED
  BY <1>5, <1>6

LEMMA CalmCopy ==
  ASSUME Typed, Calm, RingInv, FillInv, NEW l \in Lengths, PlayCopy(l)
  PROVE  RingInv' /\ FillInv'
<1> DEFINE n == IF l < Contiguous THEN l ELSE Contiguous
           fill == (buffer_put - buffer_get) % ChunkMax
           at(k) == (buffer_get + k) % ChunkMax
<1>1. n \in Nat \ {0} /\ n <= Contiguous
  BY Copied
<1>2. /\ buffer' = Put(n) /\ buffer_put' = (buffer_put + n) % ChunkMax
      /\ buffer_full' = Filled(buffer_put') /\ data_put' = n /\ made' = made + n
      /\ mwritten' = written_byte /\ mpc' = "account" /\ mpc = "put"
      /\ UNCHANGED <<buffer_get, written_byte, tpc, len, twritten, sent>>
  BY DEF PlayCopy, task
<1>3. tpc \notin {"locked", "send", "clear", "store"} /\ ~Taken /\ ~Taken' /\ buffer_full = FALSE
  BY <1>2 DEF RingInv, TaskRuns, Taken, Typed
<1>4. /\ buffer_put' \in Cells /\ fill \in Nat
      /\ buffer_put' = buffer_get => fill + n = ChunkMax
      /\ buffer_put' # buffer_get => (buffer_put' - buffer_get) % ChunkMax = fill + n
      /\ \A k \in 0 .. fill - 1 : at(k) - buffer_put \notin 0 .. n - 1
      /\ \A k \in fill .. fill + n - 1 : at(k) = buffer_put + (k - fill) /\ at(k) \in Cells
  <2>1. buffer_get \in Cells /\ buffer_put \in Cells
    BY DEF Typed
  <2> HIDE DEF n
  <2> QED
    BY <1>1, <1>2, <2>1, CopyMath DEF Contiguous
<1>5. Fill = fill
  BY <1>3 DEF Fill
<1>6. buffer_full' = (buffer_put' = buffer_get)
  BY <1>2, <1>3 DEF Filled
<1> HIDE DEF n, fill
<1>7. Fill' = fill + n
  BY <1>2, <1>3, <1>4, <1>6 DEF Fill
<1>8. made \in Int /\ sent \in Int /\ made - sent = fill
  BY <1>5 DEF Typed, RingInv
<1>9. made' - sent' = Fill'
  BY <1>1, <1>2, <1>4, <1>7, <1>8
<1>10. ASSUME NEW k \in 0 .. fill + n - 1
       PROVE  buffer'[at(k)] = sent + k
  <2>0. k \in Int /\ 0 <= k /\ k < fill + n
    BY <1>1, <1>4
  <2>c. \A c \in Cells : buffer'[c] = IF c - buffer_put \in 0 .. n - 1 THEN made + (c - buffer_put)
                                                                      ELSE buffer[c]
    BY <1>2 DEF Put
  <2>1. CASE k < fill
    <3>1. k \in 0 .. fill - 1
      BY <1>4, <2>0, <2>1
    <3>2. at(k) \in Cells
      <4>1. buffer_get + k \in Int
        BY <2>0, CellIs DEF Typed
      <4> QED
        BY <4>1, Mod, CellIs
    <3>3. buffer[at(k)] = sent + k
      BY <1>5, <3>1 DEF RingInv
    <3>4. at(k) - buffer_put \notin 0 .. n - 1
      BY <1>4, <3>1
    <3> HIDE DEF at
    <3> QED
      BY <2>c, <3>2, <3>3, <3>4
  <2>2. CASE fill <= k
    <3>1. k \in fill .. fill + n - 1
      BY <1>1, <1>4, <2>0, <2>2
    <3>2. at(k) = buffer_put + (k - fill) /\ at(k) \in Cells
      BY <1>4, <3>1
    <3> HIDE DEF at
    <3>3. at(k) - buffer_put = k - fill /\ k - fill \in 0 .. n - 1
      <4>1. buffer_put \in Int
        BY CellIs DEF Typed
      <4> QED
        BY <1>1, <1>4, <2>0, <2>2, <3>2, <4>1
    <3>4. buffer'[at(k)] = made + (k - fill)
      BY <2>c, <3>2, <3>3
    <3> QED
      BY <1>4, <1>8, <2>0, <3>4
  <2> QED
    BY <1>4, <2>0, <2>1, <2>2
<1>11. RingInv'
  <2>1. \A k \in 0 .. Fill' - 1 : buffer'[(buffer_get' + k) % ChunkMax] = sent' + k
    <3>1. buffer_get' = buffer_get /\ sent' = sent
      BY <1>2
    <3>2. \A k \in 0 .. fill + n - 1 : buffer'[(buffer_get + k) % ChunkMax] = sent + k
      BY <1>10
    <3>3. 0 .. Fill' - 1 = 0 .. fill + n - 1
      BY <1>1, <1>4, <1>7
    <3> QED
      BY <3>1, <3>2, <3>3, Zenon
  <2>2. ~TaskRuns'
    BY <1>2, <1>3 DEF TaskRuns
  <2>3. buffer_full' => buffer_put' = buffer_get'
    BY <1>2, <1>6
  <2> QED
    BY <1>2, <1>9, <2>1, <2>2, <2>3 DEF RingInv
<1>12. FillInv'
  <2>1. InHand = 0 /\ InHand' = 0
    BY <1>2, <1>3 DEF InHand
  <2>2. written_byte = fill
    BY <1>2, <1>4, <1>8, <2>1 DEF FillInv
  <2>3. made' - sent' = fill + n
    BY <1>7, <1>9
  <2>4. written_byte' = (made' - sent') + 0 - data_put'
    BY <1>1, <1>2, <1>4, <2>2, <2>3
  <2>5. tpc' # "store" /\ mwritten' = written_byte'
    BY <1>2, <1>3
  <2> QED
    BY <1>2, <2>1, <2>4, <2>5 DEF FillInv
<1> QED
  BY <1>11, <1>12

LEMMA CalmTake ==
  ASSUME Typed, LockInv, RingInv, FillInv, TaskTake
  PROVE  RingInv' /\ FillInv'
<1> DEFINE fill == IF buffer_full THEN ChunkMax ELSE (buffer_put - buffer_get) % ChunkMax
<1>1. /\ len' = ToPlay /\ buffer_get' = (buffer_get + len') % ChunkMax /\ sent' = sent + len'
      /\ (buffer_put # buffer_get \/ buffer_full) /\ tpc = "locked" /\ tpc' = "send"
      /\ UNCHANGED <<buffer, buffer_put, buffer_full, written_byte, made, mpc, twritten>>
  BY DEF TaskTake, main
<1>2. mpc \notin {"put", "account", "reset"} /\ ~Taken /\ Taken'
  BY <1>1 DEF LockInv, RingInv, Taken
<1>3. buffer_get \in Cells /\ buffer_put \in Cells /\ buffer_full \in BOOLEAN
      /\ (buffer_full => buffer_put = buffer_get)
  BY <1>2 DEF Typed, RingInv
<1>4. Fill = fill
  BY <1>2 DEF Fill
<1>5. /\ len' \in 1 .. ChunkMax /\ buffer_get' \in Cells
      /\ (buffer_put - buffer_get') % ChunkMax = fill - len'
      /\ \A k \in 0 .. fill - len' - 1 :
           (buffer_get' + k) % ChunkMax = (buffer_get + (len' + k)) % ChunkMax
  BY <1>1, <1>3, TakeMath DEF ToPlay
<1>6. fill \in Int
  <2>1. buffer_put - buffer_get \in Int
    BY <1>3, CellIs
  <2> QED
    BY <2>1, Mod
<1> HIDE DEF fill
<1>7. Fill' = fill - len'
  BY <1>1, <1>2, <1>5 DEF Fill
<1>8. made \in Int /\ sent \in Int /\ len' \in Int /\ 1 <= len' /\ made - sent = fill
  BY <1>4, <1>5 DEF Typed, RingInv
<1>9. made' - sent' = Fill'
  BY <1>1, <1>7, <1>8
<1>10. ASSUME NEW k \in Int, 0 <= k, k < fill - len'
       PROVE  buffer'[(buffer_get' + k) % ChunkMax] = sent' + k
  <2>1. fill \in Int
    BY <1>6
  <2>2. len' \in Int /\ 1 <= len'
    BY <1>8
  <2>3. k \in Int /\ 0 <= k
    BY <1>10
  <2>4. len' + k \in 0 .. fill - 1 /\ k \in 0 .. fill - len' - 1
    BY <1>10, <2>1, <2>2, <2>3, Behind
  <2>7. buffer[(buffer_get + (len' + k)) % ChunkMax] = sent + (len' + k)
    BY <1>4, <2>4, Zenon DEF RingInv
  <2>8. sent + (len' + k) = sent' + k
    <3>1. sent \in Int
      BY DEF Typed
    <3> QED
      BY <1>1, <2>2, <2>3, <3>1
  <2>9. (buffer_get' + k) % ChunkMax = (buffer_get + (len' + k)) % ChunkMax
    BY <1>5, <2>4, Zenon
  <2>10. buffer' = buffer
    BY <1>1
  <2> QED
    BY <2>7, <2>8, <2>9, <2>10, Zenon
<1>11. RingInv'
  BY <1>1, <1>2, <1>7, <1>9, <1>10 DEF RingInv
<1>12. FillInv'
  <2>1. InHand = 0 /\ InHand' = len'
    BY <1>1 DEF InHand
  <2>2. written_byte = fill
    BY <1>2, <1>6, <1>8, <2>1 DEF FillInv
  <2>3. written_byte' = (made' - sent') + len' - 0
    BY <1>1, <1>6, <1>7, <1>8, <1>9, <2>2
  <2> QED
    BY <1>1, <1>2, <2>1, <2>3 DEF FillInv
<1> QED
  BY <1>11, <1>12

LEMMA CalmAccount ==
  ASSUME Typed, RingInv, FillInv, PlayAccount
  PROVE  RingInv' /\ FillInv'
<1>1. /\ mpc = "account" /\ mpc' = "idle" /\ written_byte' = mwritten + data_put
      /\ UNCHANGED <<buffer, buffer_get, buffer_put, buffer_full, made, sent, tpc, len, twritten>>
  BY DEF PlayAccount, task, ghost
<1>2. tpc \notin {"send", "clear", "store"}
  BY <1>1 DEF RingInv, TaskRuns
<1>3. Fill' = Fill /\ (Taken' <=> Taken)
  BY <1>1 DEF Fill, Taken
<1>4. RingInv'
  <2>1. \A k \in 0 .. Fill' - 1 : buffer'[(buffer_get' + k) % ChunkMax] = sent' + k
    BY <1>1, <1>3, Zenon DEF RingInv
  <2> QED
    BY <1>1, <1>3, <2>1 DEF RingInv
<1>5. FillInv'
  <2>1. InHand = 0 /\ InHand' = 0
    BY <1>1, <1>2 DEF InHand
  <2>2. made \in Int /\ sent \in Int /\ data_put \in Int /\ written_byte \in Int
    BY DEF Typed
  <2>3. mwritten = (made - sent) - data_put
    BY <1>1, <2>1, <2>2 DEF FillInv
  <2>4. written_byte' = made' - sent'
    BY <1>1, <2>2, <2>3
  <2> QED
    BY <1>1, <1>2, <2>1, <2>2, <2>4 DEF FillInv
<1> QED
  BY <1>4, <1>5

LEMMA CalmClear ==
  ASSUME Typed, RingInv, FillInv, TaskClear \/ TaskStore
  PROVE  RingInv' /\ FillInv'
<1>1. /\ UNCHANGED <<buffer, buffer_get, buffer_put, made, sent, mpc, mwritten, data_put>>
      /\ mpc \notin {"put", "account", "reset"}
  BY DEF TaskClear, TaskStore, main, ghost, RingInv, TaskRuns
<1>2. CASE TaskClear
  <2>1. /\ tpc = "clear" /\ tpc' = "store" /\ buffer_full' = FALSE /\ twritten' = written_byte
        /\ written_byte' = written_byte /\ len' = len
    BY <1>2 DEF TaskClear
  <2>2. Fill' = Fill /\ InHand' = InHand
    BY <1>1, <2>1 DEF Fill, Taken, InHand
  <2>3. RingInv'
    <3>1. \A k \in 0 .. Fill' - 1 : buffer'[(buffer_get' + k) % ChunkMax] = sent' + k
      BY <1>1, <2>2, Zenon DEF RingInv
    <3> QED
      BY <1>1, <2>1, <2>2, <3>1 DEF RingInv
  <2>4. FillInv'
    BY <1>1, <2>1, <2>2 DEF FillInv
  <2> QED
    BY <2>3, <2>4
<1>3. CASE TaskStore
  <2>1. /\ tpc = "store" /\ tpc' \in {"swap", "waitio"} /\ buffer_full' = buffer_full
        /\ written_byte' = twritten - len
    BY <1>3 DEF TaskStore, Played
  <2>2. Fill' = Fill /\ InHand = len /\ InHand' = 0 /\ ~Taken /\ ~Taken'
    BY <1>1, <2>1 DEF Fill, Taken, InHand
  <2>3. RingInv'
    <3>1. \A k \in 0 .. Fill' - 1 : buffer'[(buffer_get' + k) % ChunkMax] = sent' + k
      BY <1>1, <2>2, Zenon DEF RingInv
    <3> QED
      BY <1>1, <2>1, <2>2, <3>1 DEF RingInv
  <2>4. FillInv'
    <3>1. made \in Int /\ sent \in Int /\ len \in Int /\ twritten \in Int
      BY DEF Typed
    <3>2. twritten = (made - sent) + len
      BY <1>1, <2>1, <2>2, <3>1 DEF FillInv
    <3>3. written_byte' = made' - sent'
      BY <1>1, <2>1, <3>1, <3>2
    <3> QED
      BY <1>1, <2>1, <2>2, <3>1, <3>3 DEF FillInv
  <2> QED
    BY <2>3, <2>4
<1> QED
  BY <1>2, <1>3

LEMMA CalmStep ==
  ASSUME Typed, LockInv, CalmInv, [Next]_<<vars, bounds>>
  PROVE  CalmInv'
<1> SUFFICES ASSUME Calm' PROVE RingInv' /\ FillInv'
  BY DEF CalmInv
<1> USE DEF ring, main, task, ghost
<1>1. resets' \in {resets, resets + 1} /\ inits' \in {inits, inits + 1} /\ bounds' = bounds
  BY DEF Next, MainCall, MainStep, TaskStep, PlayLock, ResetStart, Pause, Resume, Uninit, Reinit,
         InitReady, PlayAccount, Joined, PlayCopy, ResetStore, Opened, OpenFailed, Break, Cleanup,
         TaskLock, TaskEmpty, TaskTake, TaskSend, TaskClear, TaskStore, TaskSwap, TaskWait,
         DevicePlays, vars
<1>2. Calm /\ resets' = resets /\ inits' = inits
  BY <1>1 DEF Calm, Typed
<1>3. RingInv /\ FillInv
  BY <1>2 DEF CalmInv
<1>4. CASE InitReady \/ Pause \/ Resume \/ Uninit \/ Joined
  <2>1. mpc \notin {"put", "account", "reset"} /\ mpc' \notin {"put", "account", "reset"}
        /\ UNCHANGED <<ring, made, sent, tpc, len, twritten>>
    BY <1>4 DEF InitReady, Pause, Resume, Uninit, Joined
  <2> QED
    BY <1>3, <2>1, CalmKept
<1>5. CASE PlayLock
  <2>1. /\ mpc' = "put" /\ mpc = "idle" /\ ~buffer_full /\ ~TaskRuns
        /\ UNCHANGED <<buffer, buffer_get, buffer_put, buffer_full, written_byte, made, sent,
                       tpc, len, twritten>>
    BY <1>2, <1>5 DEF PlayLock, MainRuns, Calm
  <2>2. Fill' = Fill /\ InHand' = InHand /\ ~TaskRuns'
    BY <2>1 DEF Fill, Taken, InHand, TaskRuns
  <2>3. RingInv'
    <3>1. \A k \in 0 .. Fill' - 1 : buffer'[(buffer_get' + k) % ChunkMax] = sent' + k
      BY <1>3, <2>1, <2>2, Zenon DEF RingInv
    <3> QED
      BY <1>3, <2>1, <2>2, <3>1 DEF RingInv, Taken
  <2>4. FillInv'
    BY <1>3, <2>1, <2>2 DEF FillInv
  <2> QED
    BY <2>3, <2>4
<1>6. ASSUME NEW l \in Lengths, PlayCopy(l)
      PROVE  RingInv' /\ FillInv'
  BY <1>2, <1>3, <1>6, CalmCopy
<1>7. CASE PlayAccount
  BY <1>3, <1>7, CalmAccount
<1>8. ASSUME NEW f \in ResetFields, ResetStore(f)
      PROVE  FALSE
  BY <1>3, <1>8 DEF ResetStore, RingInv
<1>9. CASE ResetStart \/ Reinit
  BY <1>2, <1>9 DEF ResetStart, Reinit, Typed
<1>10. CASE Opened \/ OpenFailed \/ Break \/ Cleanup \/ TaskEmpty \/ TaskSwap \/ TaskWait
  <2>1. tpc \notin {"send", "clear", "store"} /\ tpc' \notin {"locked", "send", "clear", "store"}
        /\ UNCHANGED <<ring, made, sent, mpc, data_put, mwritten>>
    BY <1>10 DEF Opened, OpenFailed, Break, Cleanup, TaskEmpty, TaskSwap, TaskWait
  <2> QED
    BY <1>3, <2>1, CalmKept
<1>11. CASE TaskLock
  <2>1. tpc \notin {"send", "clear", "store"} /\ tpc' \notin {"send", "clear", "store"}
        /\ mpc \notin {"put", "account"} /\ UNCHANGED <<ring, made, sent, mpc, data_put, mwritten>>
    BY <1>11 DEF TaskLock, LockInv
  <2> QED
    BY <1>3, <2>1, CalmKept
<1>12. CASE TaskTake
  BY <1>3, <1>12, CalmTake
<1>13. CASE TaskSend
  <2>1. /\ tpc = "send" /\ tpc' = "clear" /\ mpc \notin {"put", "account", "reset"}
        /\ UNCHANGED <<buffer, buffer_get, buffer_put, buffer_full, written_byte, made, sent,
                       mpc, data_put, mwritten, len, twritten>>
    BY <1>3, <1>13 DEF TaskSend, RingInv, TaskRuns
  <2>2. Fill' = Fill /\ InHand' = InHand /\ Taken /\ Taken'
    BY <2>1 DEF Fill, Taken, InHand
  <2>3. RingInv'
    <3>1. \A k \in 0 .. Fill' - 1 : buffer'[(buffer_get' + k) % ChunkMax] = sent' + k
      BY <1>3, <2>1, <2>2, Zenon DEF RingInv
    <3> QED
      BY <1>3, <2>1, <2>2, <3>1 DEF RingInv
  <2>4. FillInv'
    BY <1>3, <2>1, <2>2 DEF FillInv
  <2> QED
    BY <2>3, <2>4
<1>14. CASE TaskClear \/ TaskStore
  BY <1>3, <1>14, CalmClear
<1>15. CASE DevicePlays \/ UNCHANGED <<vars, bounds>>
  <2>1. UNCHANGED <<ring, made, sent, mpc, data_put, mwritten, tpc, len, twritten>>
    BY <1>15 DEF DevicePlays, vars
  <2>2. mpc \in {"put", "account"} => tpc' \notin {"locked", "send", "clear", "store"}
    BY <1>3, <2>1 DEF RingInv, TaskRuns
  <2> QED
    BY <1>3, <2>1, <2>2, CalmKept
<1> QED
  BY <1>4, <1>5, <1>6, <1>7, <1>8, <1>9, <1>10, <1>11, <1>12, <1>13, <1>14, <1>15
     DEF Next, MainCall, MainStep, TaskStep

-----------------------------------------------------------------------------
(* The theorems. *)

IInv == Typed /\ RequestInv /\ EndInv /\ LockInv /\ CalmInv

LEMMA Initially == Init => IInv
<1> SUFFICES ASSUME Init PROVE IInv
  OBVIOUS
<1>1. EndInv /\ LockInv
  BY DEF Init, EndInv, LockInv
<1>2. CalmInv
  <2>1. Fill = 0 /\ InHand = 0 /\ ~buffer_full /\ made = 0 /\ sent = 0 /\ written_byte = 0
        /\ mpc = "wait" /\ tpc = "open"
    <3>1. (0 - 0) % ChunkMax = 0
      BY Mod
    <3> QED
      BY <3>1 DEF Init, Fill, InHand, Taken
  <2> QED
    BY <2>1 DEF CalmInv, RingInv, FillInv
<1> QED
  BY <1>1, <1>2, TypedInit, RequestInit DEF IInv

LEMMA Inductive == IInv /\ [Next]_<<vars, bounds>> => IInv'
<1> SUFFICES ASSUME IInv, [Next]_<<vars, bounds>> PROVE IInv'
  OBVIOUS
<1>1. Typed'
  <2>1. CASE Next
    BY <2>1, TypedMain, TypedTask DEF Next, IInv
  <2>2. CASE UNCHANGED <<vars, bounds>>
    BY <2>2 DEF IInv, Typed, vars, ring, main, task, device, ghost
  <2> QED
    BY <2>1, <2>2
<1> QED
  BY <1>1, RequestStep, EndStep, LockStep, CalmStep DEF IInv

LEMMA Always == Spec => []IInv
  BY Initially, Inductive, PTL DEF Spec

\* The driver's state stays well formed: positions inside the ring, counts
\* within what the player has, never more than two requests in the device.
THEOREM TypeCorrect == Spec => []TypeOK
<1>1. IInv => TypeOK
  BY QueueBound DEF IInv, Typed, TypeOK
<1> QED
  BY <1>1, Always, PTL

\* PlayerTask never prepares a request that ahi.device has not finished.
THEOREM RequestsTakeTurns == Spec => []RequestIsFree
<1>1. IInv => RequestIsFree
  <2> SUFFICES ASSUME IInv, tpc = "send", NEW i \in 1 .. Len(queue) PROVE queue[i].id # AHIio
    BY DEF RequestIsFree
  <2>1. i \in DOMAIN queue /\ AHIio \in Requests /\ AHIio # link
    BY Entries DEF IInv, Typed, RequestInv
  <2> QED
    BY <2>1 DEF IInv, RequestInv, Out
<1> QED
  BY <1>1, Always, PTL

\* When uninit has returned, PlayerTask has ended and nothing plays.
THEOREM UninitWaits == Spec => []TaskHasEnded
<1>1. IInv => TaskHasEnded
  BY DEF IInv, EndInv, RequestInv, TaskHasEnded
<1> QED
  BY <1>1, Always, PTL

\* The ring holds exactly what was written and not sent, in order, for a ring
\* and chunks of any size.
THEOREM RingIsExact == Spec => []RingIntact
<1>1. IInv => RingIntact
  <2> SUFFICES ASSUME IInv, Calm, tpc \in {"loop", "locked", "waitio"} 
               PROVE  /\ made - sent = IF buffer_full THEN ChunkMax
                                                       ELSE (buffer_put - buffer_get) % ChunkMax
                      /\ \A k \in 0 .. made - sent - 1 :
                           buffer[(buffer_get + k) % ChunkMax] = sent + k
    BY DEF RingIntact
  <2>1. RingInv /\ ~Taken
    BY DEF IInv, CalmInv, Taken
  <2>2. Fill = IF buffer_full THEN ChunkMax ELSE (buffer_put - buffer_get) % ChunkMax
    BY <2>1 DEF Fill
  <2> QED
    BY <2>1, <2>2, Zenon DEF RingInv
<1> QED
  BY <1>1, Always, PTL

\* get_space and get_delay read the exact number of units in the ring.
THEOREM CountIsExact == Spec => []WrittenIsFill
<1>1. IInv => WrittenIsFill
  <2> SUFFICES ASSUME IInv, Calm, mpc = "idle", tpc \in {"loop", "locked", "swap", "waitio"}
               PROVE  written_byte = made - sent
    BY DEF WrittenIsFill
  <2>1. FillInv /\ InHand = 0 /\ made \in Int /\ sent \in Int
    BY DEF IInv, CalmInv, Typed, InHand
  <2> QED
    BY <2>1 DEF FillInv
<1> QED
  BY <1>1, Always, PTL
=============================================================================
