--------------------------- MODULE PlayTree_proofs ---------------------------
(***************************************************************************)
(* Proofs about PlayTree for every list, any options and any commands: the *)
(* iterator is where its stack of loop counts says, and every way through  *)
(* the list uses the configuration as nested scopes, so that PlayTree with *)
(* its ConfigStack implements Scopes.  In a list that is left tidily, a    *)
(* file plays with the options of the groups around it and its own; a list *)
(* plays in the order it is written in, or, shuffled, round after round.   *)
(***************************************************************************)
EXTENDS PlayTree, Flattening, FiniteSetTheorems, WellFoundedInduction, TLAPS

-----------------------------------------------------------------------------
(* Numbers and lists of options. *)

LEMMA MaxIs ==
  ASSUME NEW n \in Nat, NEW S \in SUBSET (0 .. n), S # {}
  PROVE  Max(S) \in S /\ \A x \in S : x <= Max(S)
<1> DEFINE D == {n - x : x \in S}
           R == OpToRel(<, Nat)
<1>1. D \subseteq Nat /\ D # {}
  <2>1. \A x \in S : n - x \in Nat
    OBVIOUS
  <2> QED
    BY <2>1
<1>2. IsWellFoundedOn(R, Nat)
  BY NatLessThanWellFounded
<1>3. \A x \in Nat, y \in Nat : y < x => <<y, x>> \in R
  BY DEF OpToRel
<1> HIDE DEF R
<1>4. PICK d \in D : \A e \in D : ~(<<e, d>> \in R)
  <2> HIDE DEF D
  <2> QED
    BY <1>1, <1>2, WFMin
<1>5. PICK m \in S : d = n - m
  BY <1>4
<1>6. ASSUME NEW x \in S PROVE m >= x
  <2> DEFINE e == n - x
  <2>1. e \in D /\ e \in Nat /\ d \in Nat
    BY <1>1, <1>4
  <2>2. ~(e < d)
    <3> HIDE DEF e, D
    <3> QED
      BY <1>3, <1>4, <2>1
  <2> QED
    BY <1>5, <2>1, <2>2
<1>7. \E x \in S : \A y \in S : x >= y
  BY <1>6
<1>8. Max(S) \in S /\ \A y \in S : Max(S) >= y
  <2>1. Max(S) = CHOOSE x \in S : \A y \in S : x >= y
    BY DEF Max
  <2> QED
    BY <1>7, <2>1, Zenon
<1> QED
  BY <1>8

Params == Seq(Options \X Values)

LEMMA LastOfIs ==
  ASSUME NEW params \in Params, NEW which \in SUBSET DOMAIN params, NEW x \in Values
  PROVE  LastOf(params, which, x) \in Values
<1>1. CASE which = {}
  BY <1>1 DEF LastOf
<1>2. CASE which # {}
  <2>1. Len(params) \in Nat /\ which \subseteq 0 .. Len(params)
    BY DEF Params
  <2>2. Max(which) \in DOMAIN params
    BY <1>2, <2>1, MaxIs
  <2>3. params[Max(which)] \in Options \X Values
    BY <2>2 DEF Params
  <2> QED
    BY <1>2, <2>3 DEF LastOf
<1> QED
  BY <1>1, <1>2

-----------------------------------------------------------------------------
(* The levels of the configuration. *)

\* A saved variable has one slot for every level, the others have two.
Stacked(c) ==
  /\ c \in Configs
  /\ \A v \in Vars : Len(c.slots[v]) = IF v \in Saved THEN c.lvl + 1 ELSE 2
  /\ \A v \in Saved : \A i \in 1 .. c.lvl + 1 : c.slots[v][i].lvl = i - 1

LEMMA StackedIs ==
  ASSUME NEW c, Stacked(c)
  PROVE  /\ c = [lvl |-> c.lvl, slots |-> c.slots, value |-> c.value]
         /\ c.lvl \in Nat /\ c.lvl >= 1 /\ c.value \in [Vars -> Values] /\ c.slots \in [Vars -> Seq(Slots)]
         /\ Saved \subseteq Vars
         /\ \A v \in Saved : Len(c.slots[v]) = c.lvl + 1
         /\ \A v \in Vars : Len(c.slots[v]) >= 2 /\ \A i \in 1 .. Len(c.slots[v]) : c.slots[v][i] \in Slots
<1>1. c \in Configs
  BY DEF Stacked
<1> QED
  BY <1>1, ConfigAssumption DEF Stacked, Configs

LEMMA ConfigExcept ==
  ASSUME NEW c, Stacked(c), NEW l, NEW m, NEW x
  PROVE  /\ [c EXCEPT !.lvl = l, !.slots = m] = [lvl |-> l, slots |-> m, value |-> c.value]
         /\ [c EXCEPT !.slots = m, !.value = x] = [lvl |-> c.lvl, slots |-> m, value |-> x]
<1> DEFINE L == {c.lvl}   S == {c.slots}   V == {c.value}
<1>1. c \in [lvl : L, slots : S, value : V]
  BY StackedIs
<1> HIDE DEF L, S, V
<1>2. /\ [c EXCEPT !.lvl = l] = [lvl |-> l, slots |-> c.slots, value |-> c.value]
      /\ [c EXCEPT !.slots = m] = [lvl |-> c.lvl, slots |-> m, value |-> c.value]
  BY <1>1
<1>3. /\ [[lvl |-> l, slots |-> c.slots, value |-> c.value] EXCEPT !.slots = m]
            = [lvl |-> l, slots |-> m, value |-> c.value]
      /\ [[lvl |-> c.lvl, slots |-> m, value |-> c.value] EXCEPT !.value = x]
            = [lvl |-> c.lvl, slots |-> m, value |-> x]
  OBVIOUS
<1>4. /\ [c EXCEPT !.lvl = l, !.slots = m] = [[c EXCEPT !.lvl = l] EXCEPT !.slots = m]
      /\ [c EXCEPT !.slots = m, !.value = x] = [[c EXCEPT !.slots = m] EXCEPT !.value = x]
  OBVIOUS
<1> QED
  BY <1>2, <1>3, <1>4

LEMMA PushIs ==
  ASSUME NEW c, Stacked(c)
  PROVE  /\ Stacked(PushConfig(c)) /\ PushConfig(c).lvl = c.lvl + 1
         /\ PushConfig(c).value = c.value
         /\ \A v \in Saved : \A i \in 1 .. c.lvl : PushConfig(c).slots[v][i] = c.slots[v][i]
         /\ \A v \in Saved : PushConfig(c).slots[v][c.lvl + 1].data = c.value[v]
<1> DEFINE Pushes(v) == Append(Updated(c.slots[v], c.value[v]), [lvl |-> c.lvl + 1, data |-> c.value[v]])
           slots == [v \in Vars |-> IF v \in Saved THEN Pushes(v) ELSE c.slots[v]]
<1>1. PushConfig(c) = [lvl |-> c.lvl + 1, slots |-> slots, value |-> c.value]
  <2>1. PushConfig(c) = [c EXCEPT !.lvl = c.lvl + 1, !.slots = slots]
    BY DEF PushConfig
  <2> HIDE DEF slots
  <2> QED
    BY <2>1, ConfigExcept
<1>2. ASSUME NEW v \in Saved
      PROVE  /\ Pushes(v) \in Seq(Slots) /\ Len(Pushes(v)) = c.lvl + 2
             /\ \A i \in 1 .. c.lvl : Pushes(v)[i] = c.slots[v][i]
             /\ Pushes(v)[c.lvl + 1] = [lvl |-> c.lvl, data |-> c.value[v]]
             /\ Pushes(v)[c.lvl + 2] = [lvl |-> c.lvl + 1, data |-> c.value[v]]
  <2> DEFINE s == c.slots[v]   x == c.value[v]   u == Updated(s, x)
  <2>1. /\ v \in Vars /\ s \in Seq(Slots) /\ Len(s) = c.lvl + 1 /\ x \in Values
        /\ c.lvl \in Nat /\ s[c.lvl + 1] \in Slots /\ s[c.lvl + 1].lvl = c.lvl
    <3>1. v \in Vars /\ s \in Seq(Slots) /\ Len(s) = c.lvl + 1 /\ x \in Values /\ c.lvl \in Nat
      BY <1>2, StackedIs
    <3>2. s[c.lvl + 1] \in Slots
      BY <3>1
    <3>3. c.lvl + 1 \in 1 .. c.lvl + 1
      BY <3>1
    <3>4. s[c.lvl + 1].lvl = (c.lvl + 1) - 1
      BY <1>2, <3>3 DEF Stacked
    <3> QED
      BY <3>1, <3>2, <3>4
  <2>2. [s[c.lvl + 1] EXCEPT !.data = x] = [lvl |-> c.lvl, data |-> x]
    BY <2>1 DEF Slots
  <2>3. u = [s EXCEPT ![c.lvl + 1] = [lvl |-> c.lvl, data |-> x]]
    BY <2>1, <2>2 DEF Updated
  <2>4. [lvl |-> c.lvl, data |-> x] \in Slots /\ [lvl |-> c.lvl + 1, data |-> x] \in Slots
    BY <2>1 DEF Slots
  <2> HIDE DEF s, x
  <2>5. u \in Seq(Slots) /\ Len(u) = c.lvl + 1
    BY <2>1, <2>3, <2>4
  <2>6. u[c.lvl + 1] = [lvl |-> c.lvl, data |-> x] /\ \A i \in 1 .. c.lvl : u[i] = s[i]
    BY <2>1, <2>3
  <2>7. Pushes(v) = Append(u, [lvl |-> c.lvl + 1, data |-> x])
    BY DEF s, x
  <2> HIDE DEF u, Pushes
  <2>8. /\ Pushes(v) \in Seq(Slots) /\ Len(Pushes(v)) = c.lvl + 2
        /\ \A i \in 1 .. c.lvl + 1 : Pushes(v)[i] = u[i]
        /\ Pushes(v)[c.lvl + 2] = [lvl |-> c.lvl + 1, data |-> x]
    BY <2>1, <2>4, <2>5, <2>7
  <2> QED
    BY <2>1, <2>6, <2>8 DEF s, x
<1> HIDE DEF Pushes
<1>3. slots \in [Vars -> Seq(Slots)]
  BY <1>2, StackedIs
<1>4. PushConfig(c) \in Configs
  BY <1>1, <1>3, StackedIs DEF Configs
<1>5. \A v \in Vars : Len(slots[v]) = IF v \in Saved THEN c.lvl + 2 ELSE 2
  BY <1>2 DEF Stacked
<1>6. \A v \in Saved : slots[v] = Pushes(v)
  BY StackedIs
<1> HIDE DEF slots
<1>7. ASSUME NEW v \in Saved, NEW i \in 1 .. c.lvl + 2 PROVE slots[v][i].lvl = i - 1
  <2>1. c.lvl \in Nat
    BY StackedIs
  <2>2. CASE i \in 1 .. c.lvl
    <3>1. c.slots[v][i].lvl = i - 1
      BY <2>1, <2>2 DEF Stacked
    <3>2. slots[v] = Pushes(v)
      BY <1>6
    <3>3. Pushes(v)[i] = c.slots[v][i]
      BY <1>2, <2>2
    <3> QED
      BY <3>1, <3>2, <3>3
  <2>3. CASE i = c.lvl + 1
    <3>1. slots[v][i] = [lvl |-> c.lvl, data |-> c.value[v]]
      BY <1>2, <1>6, <2>3
    <3> QED
      BY <2>1, <2>3, <3>1
  <2>4. CASE i = c.lvl + 2
    <3>1. slots[v][i] = [lvl |-> c.lvl + 1, data |-> c.value[v]]
      BY <1>2, <1>6, <2>4
    <3> QED
      BY <2>1, <2>4, <3>1
  <2> QED
    BY <1>7, <2>1, <2>2, <2>3, <2>4
<1>8. PushConfig(c).slots = slots /\ PushConfig(c).lvl = c.lvl + 1 /\ PushConfig(c).value = c.value
  BY <1>1
<1>9. Stacked(PushConfig(c))
  <2>1. c.lvl + 1 + 1 = c.lvl + 2
    BY StackedIs
  <2> QED
    BY <1>4, <1>5, <1>7, <1>8, <2>1 DEF Stacked
<1>10. ASSUME NEW v \in Saved
       PROVE  /\ \A i \in 1 .. c.lvl : slots[v][i] = c.slots[v][i]
              /\ slots[v][c.lvl + 1].data = c.value[v]
  <2>1. slots[v] = Pushes(v)
    BY <1>6
  <2>2. slots[v][c.lvl + 1] = [lvl |-> c.lvl, data |-> c.value[v]]
    BY <1>2, <2>1
  <2>3. \A i \in 1 .. c.lvl : slots[v][i] = c.slots[v][i]
    <3>1. \A i \in 1 .. c.lvl : Pushes(v)[i] = c.slots[v][i]
      BY <1>2
    <3> QED
      BY <2>1, <3>1
  <2> QED
    BY <2>2, <2>3
<1> QED
  BY <1>8, <1>9, <1>10

LEMMA SetIs ==
  ASSUME NEW c, Stacked(c), NEW params \in Params
  PROVE  /\ Stacked(SetOptions(c, params)) /\ SetOptions(c, params).lvl = c.lvl
         /\ \A v \in Scoped : \A k \in 1 .. c.lvl :
              SetOptions(c, params).slots[v][k] = c.slots[v][k]
<1> DEFINE In(v, k) == {i \in DOMAIN params : Sets(c, params[i][1], v, k)}
           New(v, k) == LastOf(params, In(v, k), c.slots[v][k].data)
           slots == [v \in Vars |-> [k \in DOMAIN c.slots[v] |-> SetSlot(c, params, v, k)]]
           value == [v \in Vars |-> SetValue(c, params, v)]
<1>1. SetOptions(c, params) = [lvl |-> c.lvl, slots |-> slots, value |-> value]
  <2>1. SetOptions(c, params) = [c EXCEPT !.slots = slots, !.value = value]
    BY DEF SetOptions
  <2> HIDE DEF slots, value
  <2> QED
    BY <2>1, ConfigExcept
<1>2. ASSUME NEW v \in Vars, NEW k \in DOMAIN c.slots[v]
      PROVE  /\ slots[v][k] \in Slots /\ slots[v][k].lvl = c.slots[v][k].lvl
             /\ In(v, k) = {} => slots[v][k] = c.slots[v][k]
  <2>1. c.slots[v][k] \in Slots
    BY <1>2, StackedIs
  <2>2. New(v, k) \in Values /\ (In(v, k) = {} => New(v, k) = c.slots[v][k].data)
    <3>1. In(v, k) \subseteq DOMAIN params
      OBVIOUS
    <3>2. c.slots[v][k].data \in Values
      BY <2>1 DEF Slots
    <3> HIDE DEF In
    <3> QED
      BY <3>1, <3>2, LastOfIs DEF LastOf
  <2>3. slots[v][k] = [c.slots[v][k] EXCEPT !.data = New(v, k)]
    BY DEF SetSlot
  <2> HIDE DEF New, slots, In
  <2> QED
    BY <2>1, <2>2, <2>3 DEF Slots
<1>3. value \in [Vars -> Values]
  <2>1. ASSUME NEW v \in Vars PROVE SetValue(c, params, v) \in Values
    <3> DEFINE w == {i \in DOMAIN params : Variable[params[i][1]] = v}
    <3>1. w \in SUBSET DOMAIN params /\ c.value[v] \in Values
      BY StackedIs
    <3> HIDE DEF w
    <3>2. LastOf(params, w, c.value[v]) \in Values
      BY <3>1, LastOfIs
    <3> QED
      BY <3>2 DEF w, SetValue
  <2> QED
    BY <2>1
<1>4. ASSUME NEW v \in Vars
      PROVE  slots[v] \in Seq(Slots) /\ Len(slots[v]) = Len(c.slots[v])
  <2>1. c.slots[v] \in Seq(Slots) /\ DOMAIN c.slots[v] = 1 .. Len(c.slots[v]) /\ Len(c.slots[v]) \in Nat
    BY StackedIs
  <2>2. DOMAIN slots[v] = 1 .. Len(c.slots[v]) /\ \A k \in 1 .. Len(c.slots[v]) : slots[v][k] \in Slots
    BY <1>2, <2>1
  <2>3. slots[v] = [k \in 1 .. Len(c.slots[v]) |-> slots[v][k]]
    BY <2>1
  <2> HIDE DEF slots
  <2> QED
    BY <2>1, <2>2, <2>3
<1>5. slots \in [Vars -> Seq(Slots)]
  BY <1>4
<1>6. ASSUME NEW v \in Scoped, NEW k \in 1 .. c.lvl PROVE slots[v][k] = c.slots[v][k]
  <2>1. v \in Saved /\ v \in Vars /\ \A o \in Aliases : Variable[o] # v
    BY StackedIs DEF Scoped
  <2>2. k \in DOMAIN c.slots[v] /\ Len(c.slots[v]) = c.lvl + 1 /\ k # c.lvl + 1
    BY <2>1, StackedIs
  <2>3. \A o : ~Sets(c, o, v, k)
    BY <2>1, <2>2 DEF Sets, SlotOf
  <2>4. In(v, k) = {}
    BY <2>3
  <2> HIDE DEF In, slots
  <2> QED
    BY <1>2, <2>1, <2>2, <2>4
<1>7. ASSUME NEW v \in Saved, NEW i \in 1 .. c.lvl + 1 PROVE slots[v][i].lvl = i - 1
  <2>1. v \in Vars /\ i \in DOMAIN c.slots[v] /\ c.slots[v][i].lvl = i - 1
    BY StackedIs DEF Stacked
  <2> HIDE DEF slots
  <2> QED
    BY <1>2, <2>1
<1> HIDE DEF slots, value
<1>8. SetOptions(c, params) \in Configs
  BY <1>1, <1>3, <1>5, StackedIs DEF Configs
<1>9. Stacked(SetOptions(c, params))
  BY <1>1, <1>4, <1>7, <1>8 DEF Stacked
<1> QED
  BY <1>1, <1>6, <1>9

LEMMA BelowIs ==
  ASSUME NEW c, Stacked(c), c.lvl > 1, NEW v \in Saved
  PROVE  /\ Below(c.slots[v], c.lvl) \in Seq(Slots) /\ Len(Below(c.slots[v], c.lvl)) = c.lvl
         /\ \A i \in 1 .. c.lvl : Below(c.slots[v], c.lvl)[i] = c.slots[v][i]
<1> DEFINE s == c.slots[v]   l == c.lvl
           S == {0} \cup {i \in DOMAIN s : s[i].lvl < l}
<1>1. l \in Nat /\ l > 1 /\ s \in Seq(Slots) /\ Len(s) = l + 1
  BY StackedIs
<1>2. \A i \in 1 .. l + 1 : s[i].lvl = i - 1
  BY DEF Stacked
<1>3. Below(s, l) = SubSeq(s, 1, Max(S))
  BY DEF Below
<1> HIDE DEF s, l
<1>4. S \subseteq 0 .. l /\ l \in S /\ S # {}
  BY <1>1, <1>2
<1>5. Max(S) = l
  <2> HIDE DEF S
  <2>1. Max(S) \in S /\ \A i \in S : i <= Max(S)
    BY <1>1, <1>4, MaxIs
  <2>2. Max(S) \in 0 .. l /\ l <= Max(S)
    BY <1>4, <2>1
  <2> QED
    BY <1>1, <2>2
<1>6. Below(s, l) = SubSeq(s, 1, l)
  BY <1>3, <1>5
<1> HIDE DEF S
<1>7. SubSeq(s, 1, l) \in Seq(Slots) /\ Len(SubSeq(s, 1, l)) = l /\ \A i \in 1 .. l : SubSeq(s, 1, l)[i] = s[i]
  BY <1>1
<1> QED
  BY <1>6, <1>7 DEF s, l

LEMMA PopIs ==
  ASSUME NEW c, Stacked(c), c.lvl > 1
  PROVE  /\ Stacked(PopConfig(c)) /\ PopConfig(c).lvl = c.lvl - 1
         /\ \A v \in Saved : /\ \A i \in 1 .. c.lvl : PopConfig(c).slots[v][i] = c.slots[v][i]
                             /\ PopConfig(c).value[v] = c.slots[v][c.lvl].data
<1> DEFINE slots == [v \in Vars |-> IF v \in Saved THEN Below(c.slots[v], c.lvl) ELSE c.slots[v]]
           Val(v) == IF slots[v] # c.slots[v] THEN Last(slots[v]).data ELSE c.value[v]
           value == [v \in Vars |-> Val(v)]
<1>1. PopConfig(c) = [lvl |-> c.lvl - 1, slots |-> slots, value |-> value]
  BY DEF PopConfig
<1>2. ASSUME NEW v \in Saved
      PROVE  /\ slots[v] = Below(c.slots[v], c.lvl) /\ slots[v] \in Seq(Slots) /\ Len(slots[v]) = c.lvl
             /\ \A i \in 1 .. c.lvl : slots[v][i] = c.slots[v][i]
  BY BelowIs, StackedIs
<1>3. ASSUME NEW v \in Vars, v \notin Saved PROVE slots[v] = c.slots[v]
  BY <1>3
<1>4. slots \in [Vars -> Seq(Slots)]
  BY <1>2, <1>3, StackedIs
<1> HIDE DEF slots
<1>5. ASSUME NEW v \in Saved PROVE Val(v) = c.slots[v][c.lvl].data
  <2>1. c.lvl \in Nat /\ c.lvl > 1 /\ Len(c.slots[v]) = c.lvl + 1
    BY StackedIs
  <2>2. slots[v] # c.slots[v]
    BY <1>2, <2>1
  <2>3. Last(slots[v]) = c.slots[v][c.lvl]
    BY <1>2, <2>1 DEF Last
  <2> QED
    BY <2>2, <2>3
<1>6. value \in [Vars -> Values]
  <2>1. ASSUME NEW v \in Vars PROVE Val(v) \in Values
    <3>1. CASE v \in Saved
      <4>1. c.lvl \in 1 .. Len(c.slots[v])
        BY <3>1, StackedIs
      <4>2. c.slots[v][c.lvl] \in Slots
        BY <4>1, StackedIs
      <4>3. c.slots[v][c.lvl].data \in Values
        BY <4>2 DEF Slots
      <4> QED
        BY <1>5, <3>1, <4>3
    <3>2. CASE v \notin Saved
      BY <1>3, <3>2, StackedIs
    <3> QED
      BY <3>1, <3>2
  <2> QED
    BY <2>1
<1>7. ASSUME NEW v \in Saved PROVE value[v] = c.slots[v][c.lvl].data
  BY <1>5, StackedIs
<1> HIDE DEF value
<1>8. c.lvl - 1 \in Nat \ {0} /\ (c.lvl - 1) + 1 = c.lvl
  BY StackedIs
<1>9. PopConfig(c) \in Configs
  BY <1>1, <1>4, <1>6, <1>8 DEF Configs
<1>10. \A v \in Vars : Len(slots[v]) = IF v \in Saved THEN c.lvl ELSE 2
  BY <1>2, <1>3 DEF Stacked
<1>11. ASSUME NEW v \in Saved, NEW i \in 1 .. c.lvl PROVE slots[v][i].lvl = i - 1
  <2>1. i \in 1 .. c.lvl + 1
    BY StackedIs
  <2>2. c.slots[v][i].lvl = i - 1
    BY <2>1 DEF Stacked
  <2> QED
    BY <1>2, <2>2
<1>12. PopConfig(c).slots = slots /\ PopConfig(c).value = value /\ PopConfig(c).lvl = c.lvl - 1
  BY <1>1
<1>13. Stacked(PopConfig(c))
  BY <1>8, <1>9, <1>10, <1>11, <1>12 DEF Stacked
<1> QED
  BY <1>2, <1>7, <1>12, <1>13

LEMMA ChangeIs ==
  ASSUME NEW c, Stacked(c), NEW v \in Vars, NEW x \in Values
  PROVE  /\ Stacked(ChangeVar(c, v, x)) /\ ChangeVar(c, v, x).lvl = c.lvl
         /\ ChangeVar(c, v, x).slots = c.slots
<1> DEFINE value == [c.value EXCEPT ![v] = x]
<1>1. ChangeVar(c, v, x) = [c EXCEPT !.slots = c.slots, !.value = value]
  <2>1. ChangeVar(c, v, x) = [c EXCEPT !.value = value]
    BY DEF ChangeVar
  <2>2. c \in [lvl : {c.lvl}, slots : {c.slots}, value : {c.value}]
    BY StackedIs
  <2>3. [c EXCEPT !.value = value] = [lvl |-> c.lvl, slots |-> c.slots, value |-> value]
    <3> HIDE DEF value
    <3> QED
      BY <2>2
  <2> QED
    BY <2>1, <2>3, ConfigExcept
<1>2. ChangeVar(c, v, x) = [lvl |-> c.lvl, slots |-> c.slots, value |-> value]
  <2> HIDE DEF value
  <2> QED
    BY <1>1, ConfigExcept
<1>3. value \in [Vars -> Values]
  BY StackedIs
<1> HIDE DEF value
<1>4. ChangeVar(c, v, x) \in Configs
  BY <1>2, <1>3, StackedIs DEF Configs
<1> QED
  BY <1>2, <1>4 DEF Stacked

-----------------------------------------------------------------------------
(* What the levels hold: ConfigStack as nested scopes. *)

Scope == [Scoped -> Values]

LEMMA IsSequence ==
  ASSUME NEW T, NEW n \in Nat, NEW f, f = [i \in 1 .. n |-> f[i]], \A i \in 1 .. n : f[i] \in T
  PROVE  f \in Seq(T) /\ Len(f) = n
<1>1. f \in [1 .. n -> T]
  OBVIOUS
<1> QED
  BY <1>1

LEMMA LevelsIs ==
  ASSUME NEW c, Stacked(c)
  PROVE  /\ Levels(c) \in Seq(Scope) /\ Len(Levels(c)) = c.lvl
         /\ \A i \in 1 .. c.lvl : Levels(c)[i] =
              [v \in Scoped |-> IF i = c.lvl THEN c.value[v] ELSE c.slots[v][i + 1].data]
<1>1. c.lvl \in Nat /\ Scoped \subseteq Saved /\ Scoped \subseteq Vars
  BY StackedIs DEF Scoped
<1>2. ASSUME NEW i \in 1 .. c.lvl, NEW v \in Scoped
      PROVE  (IF i = c.lvl THEN c.value[v] ELSE c.slots[v][i + 1].data) \in Values
  <2>1. i + 1 \in 1 .. Len(c.slots[v])
    BY <1>1, StackedIs
  <2>2. c.slots[v][i + 1] \in Slots
    BY <1>1, <2>1, StackedIs
  <2> QED
    BY <1>1, <2>2, StackedIs DEF Slots
<1>3. \A i \in 1 .. c.lvl : Levels(c)[i] =
              [v \in Scoped |-> IF i = c.lvl THEN c.value[v] ELSE c.slots[v][i + 1].data]
  BY DEF Levels
<1>4. ASSUME NEW i \in 1 .. c.lvl PROVE Levels(c)[i] \in Scope
  <2> DEFINE x(v) == IF i = c.lvl THEN c.value[v] ELSE c.slots[v][i + 1].data
  <2>1. \A v \in Scoped : x(v) \in Values
    BY <1>2
  <2>2. Levels(c)[i] = [v \in Scoped |-> x(v)]
    BY <1>3
  <2> HIDE DEF x
  <2> QED
    BY <2>1, <2>2 DEF Scope
<1>5. Levels(c) = [i \in 1 .. c.lvl |-> Levels(c)[i]]
  BY DEF Levels
<1>6. Levels(c) \in Seq(Scope) /\ Len(Levels(c)) = c.lvl
  <2> DEFINE f == Levels(c)   n == c.lvl
  <2>1. n \in Nat /\ f = [i \in 1 .. n |-> f[i]] /\ \A i \in 1 .. n : f[i] \in Scope
    BY <1>1, <1>4, <1>5
  <2> HIDE DEF f, n
  <2>2. f \in Seq(Scope) /\ Len(f) = n
    BY <2>1, IsSequence
  <2> QED
    BY <2>2 DEF f, n
<1> QED
  BY <1>3, <1>6

\* Two configurations that agree below their top hold the same levels there.
LEMMA LevelsAgree ==
  ASSUME NEW c, Stacked(c), NEW d, Stacked(d), NEW n \in Nat, n < c.lvl, n <= d.lvl,
         \A v \in Scoped : \A i \in 1 .. n : c.slots[v][i + 1].data =
           IF i = d.lvl THEN d.value[v] ELSE d.slots[v][i + 1].data
  PROVE  \A i \in 1 .. n : Levels(c)[i] = Levels(d)[i]
<1> SUFFICES ASSUME NEW i \in 1 .. n PROVE Levels(c)[i] = Levels(d)[i]
  OBVIOUS
<1>1. i \in 1 .. c.lvl /\ i \in 1 .. d.lvl /\ i # c.lvl
  BY StackedIs
<1>2. Levels(c)[i] = [v \in Scoped |-> c.slots[v][i + 1].data]
  <2>1. Levels(c)[i] = [v \in Scoped |-> IF i = c.lvl THEN c.value[v] ELSE c.slots[v][i + 1].data]
    BY <1>1, LevelsIs
  <2> QED
    BY <1>1, <2>1
<1>3. Levels(d)[i] = [v \in Scoped |-> IF i = d.lvl THEN d.value[v] ELSE d.slots[v][i + 1].data]
  BY <1>1, LevelsIs
<1> QED
  BY <1>2, <1>3

\* A sequence of the right length that begins like another one extends it.
LEMMA IsAppend ==
  ASSUME NEW T, NEW s \in Seq(T), NEW t \in Seq(T), Len(t) = Len(s) + 1,
         \A i \in 1 .. Len(s) : t[i] = s[i]
  PROVE  t = Append(s, t[Len(t)]) /\ t[Len(t)] \in T /\ Front(t) = s
<1>1. Len(Append(s, t[Len(t)])) = Len(t) /\ \A i \in 1 .. Len(t) : t[i] = Append(s, t[Len(t)])[i]
  OBVIOUS
<1>2. t = Append(s, t[Len(t)])
  BY <1>1
<1>3. Front(t) \in Seq(T) /\ Len(Front(t)) = Len(s) /\ \A i \in 1 .. Len(s) : Front(t)[i] = s[i]
  BY DEF Front
<1>4. Front(t) = s
  BY <1>3
<1> QED
  BY <1>2, <1>4

LEMMA PushEnters ==
  ASSUME NEW c, Stacked(c), NEW params \in Params
  PROVE  /\ Stacked(SetOptions(PushConfig(c), params))
         /\ SetOptions(PushConfig(c), params).lvl = c.lvl + 1
         /\ \E e \in Scope : Levels(SetOptions(PushConfig(c), params)) = Append(Levels(c), e)
<1> DEFINE p == PushConfig(c)   d == SetOptions(p, params)
<1>1. /\ Stacked(p) /\ p.lvl = c.lvl + 1
      /\ \A v \in Saved : \A i \in 1 .. c.lvl : p.slots[v][i] = c.slots[v][i]
      /\ \A v \in Saved : p.slots[v][c.lvl + 1].data = c.value[v]
  BY PushIs
<1> HIDE DEF p
<1>2. /\ Stacked(d) /\ d.lvl = c.lvl + 1
      /\ \A v \in Scoped : \A k \in 1 .. c.lvl + 1 : d.slots[v][k] = p.slots[v][k]
  BY <1>1, SetIs
<1> HIDE DEF d
<1>3. c.lvl \in Nat /\ Scoped \subseteq Saved
  BY StackedIs DEF Scoped
<1>4. ASSUME NEW v \in Scoped, NEW i \in 1 .. c.lvl
      PROVE  d.slots[v][i + 1].data = IF i = c.lvl THEN c.value[v] ELSE c.slots[v][i + 1].data
  <2>1. d.slots[v][i + 1] = p.slots[v][i + 1]
    BY <1>2, <1>3
  <2>2. CASE i = c.lvl
    BY <1>1, <1>3, <2>1, <2>2
  <2>3. CASE i # c.lvl
    <3>1. i + 1 \in 1 .. c.lvl
      BY <1>3, <2>3
    <3> QED
      BY <1>1, <1>3, <2>1, <2>3, <3>1
  <2> QED
    BY <2>2, <2>3
<1>5. \A i \in 1 .. c.lvl : Levels(d)[i] = Levels(c)[i]
  <2>1. c.lvl < d.lvl /\ c.lvl <= c.lvl
    BY <1>2, <1>3
  <2> QED
    BY <1>2, <1>3, <1>4, <2>1, LevelsAgree
<1>6. Levels(d) \in Seq(Scope) /\ Len(Levels(d)) = Len(Levels(c)) + 1 /\ Levels(c) \in Seq(Scope)
      /\ Len(Levels(c)) = c.lvl
  BY <1>2, LevelsIs
<1>7. Levels(d) = Append(Levels(c), Levels(d)[Len(Levels(d))]) /\ Levels(d)[Len(Levels(d))] \in Scope
  BY <1>5, <1>6, IsAppend
<1>8. \E e \in Scope : Levels(d) = Append(Levels(c), e)
  BY <1>7
<1> QED
  BY <1>2, <1>8 DEF d, p

LEMMA PopLeaves ==
  ASSUME NEW c, Stacked(c), c.lvl > 1
  PROVE  Len(Levels(c)) > 1 /\ Levels(PopConfig(c)) = Front(Levels(c))
<1> DEFINE d == PopConfig(c)
<1>1. /\ Stacked(d) /\ d.lvl = c.lvl - 1
      /\ \A v \in Saved : /\ \A i \in 1 .. c.lvl : d.slots[v][i] = c.slots[v][i]
                          /\ d.value[v] = c.slots[v][c.lvl].data
  BY PopIs
<1> HIDE DEF d
<1>2. c.lvl \in Nat /\ Scoped \subseteq Saved
  BY StackedIs DEF Scoped
<1>3. ASSUME NEW v \in Scoped, NEW i \in 1 .. d.lvl
      PROVE  c.slots[v][i + 1].data = IF i = d.lvl THEN d.value[v] ELSE d.slots[v][i + 1].data
  <2>1. v \in Saved /\ i + 1 \in 1 .. c.lvl
    BY <1>1, <1>2
  <2>2. d.slots[v][i + 1] = c.slots[v][i + 1]
    BY <1>1, <2>1
  <2>3. i = d.lvl => i + 1 = c.lvl
    BY <1>1, <1>2
  <2> QED
    BY <1>1, <2>1, <2>2, <2>3
<1>4. d.lvl \in Nat /\ d.lvl < c.lvl /\ d.lvl <= d.lvl
  BY <1>1, <1>2
<1>5. \A i \in 1 .. d.lvl : Levels(c)[i] = Levels(d)[i]
  BY <1>1, <1>3, <1>4, LevelsAgree
<1>6. Levels(d) \in Seq(Scope) /\ Len(Levels(d)) = d.lvl /\ Levels(c) \in Seq(Scope) /\ Len(Levels(c)) = c.lvl
  BY <1>1, LevelsIs
<1>7. Len(Levels(c)) = Len(Levels(d)) + 1
  BY <1>1, <1>2, <1>6
<1>8. Front(Levels(c)) = Levels(d)
  BY <1>5, <1>6, <1>7, IsAppend
<1> QED
  BY <1>6, <1>8 DEF d

LEMMA ChangeStays ==
  ASSUME NEW c, Stacked(c), NEW v \in Vars, NEW x \in Values
  PROVE  \E e \in Scope : Levels(ChangeVar(c, v, x)) = Append(Front(Levels(c)), e)
<1> DEFINE d == ChangeVar(c, v, x)
<1>1. Stacked(d) /\ d.lvl = c.lvl /\ d.slots = c.slots
  BY ChangeIs
<1> HIDE DEF d
<1>2. /\ Levels(d) \in Seq(Scope) /\ Len(Levels(d)) = c.lvl /\ Levels(c) \in Seq(Scope) /\ Len(Levels(c)) = c.lvl
      /\ c.lvl \in Nat /\ c.lvl >= 1
  BY <1>1, LevelsIs, StackedIs
<1> DEFINE s == Front(Levels(c))
<1>3. s \in Seq(Scope) /\ Len(s) = c.lvl - 1 /\ \A i \in 1 .. Len(s) : s[i] = Levels(c)[i]
  BY <1>2 DEF Front
<1> HIDE DEF s
<1>4. \A i \in 1 .. Len(s) : Levels(d)[i] = s[i]
  <2> SUFFICES ASSUME NEW i \in 1 .. Len(s) PROVE Levels(d)[i] = Levels(c)[i]
    BY <1>3
  <2>1. i \in 1 .. c.lvl /\ i # c.lvl
    BY <1>2, <1>3
  <2>2. Levels(c)[i] = [w \in Scoped |-> c.slots[w][i + 1].data]
    <3>1. Levels(c)[i] = [w \in Scoped |-> IF i = c.lvl THEN c.value[w] ELSE c.slots[w][i + 1].data]
      BY <2>1, LevelsIs
    <3> QED
      BY <2>1, <3>1
  <2>3. Levels(d)[i] = [w \in Scoped |-> c.slots[w][i + 1].data]
    <3>1. i \in 1 .. d.lvl
      BY <1>1, <2>1
    <3>2. Levels(d)[i] = [w \in Scoped |-> IF i = d.lvl THEN d.value[w] ELSE d.slots[w][i + 1].data]
      BY <1>1, <3>1, LevelsIs
    <3> QED
      BY <1>1, <2>1, <3>2
  <2> QED
    BY <2>2, <2>3
<1>5. Len(Levels(d)) = Len(s) + 1
  BY <1>2, <1>3
<1>6. Levels(d) = Append(s, Levels(d)[Len(Levels(d))]) /\ Levels(d)[Len(Levels(d))] \in Scope
  BY <1>2, <1>3, <1>4, <1>5, IsAppend
<1> QED
  BY <1>6 DEF d, s

-----------------------------------------------------------------------------
(* The tree: every change keeps it one, with the levels of its nodes. *)

Layers == [Nodes -> Nat]

Tree(t, level) == t \in GivenTrees /\ Layered(t, level)

LEMMA TreeFields ==
  ASSUME NEW level \in Layers, NEW t, Tree(t, level)
  PROVE  /\ t.kids \in [Nodes -> Seq(Nodes)] /\ t.loop \in [Nodes -> Int]
         /\ t.params \in [Nodes -> Params] /\ t.rnd \subseteq Nodes /\ t.played \subseteq Nodes
         /\ \A n \in Nodes : t.params[n] \in Params /\ t.loop[n] \in Int /\ t.kids[n] \in Seq(Nodes)
         /\ \A n \in Nodes : \A k \in Range(t.kids[n]) : k \in Nodes /\ level[k] = level[n] + 1
         /\ Root \in Nodes /\ level[Root] = 0
<1>1. t \in GivenTrees
  BY DEF Tree
<1>2. /\ t.kids \in [Nodes -> Seq(Nodes)] /\ t.loop \in [Nodes -> Int]
      /\ t.params \in [Nodes -> Params] /\ t.rnd \subseteq Nodes /\ t.played \subseteq Nodes
  BY <1>1 DEF GivenTrees, Params
<1>3. \A n \in Nodes : \A k \in Range(t.kids[n]) : k \in Nodes
  BY <1>2 DEF Range
<1>4. \A n \in Nodes : \A k \in Range(t.kids[n]) : level[k] = level[n] + 1
  BY DEF Tree, Layered
<1>5. Root \in Nodes /\ level[Root] = 0
  BY PlayTreeAssumption DEF Tree, Layered
<1>6. \A n \in Nodes : t.params[n] \in Params /\ t.loop[n] \in Int /\ t.kids[n] \in Seq(Nodes)
  BY <1>2
<1> QED
  BY <1>2, <1>3, <1>4, <1>5, <1>6

\* Any field may change; the levels only depend on the children.
LEMMA TreeExcept ==
  ASSUME NEW level \in Layers, NEW t, Tree(t, level)
  PROVE  /\ \A x \in SUBSET Nodes : Tree([t EXCEPT !.played = x], level)
         /\ \A x \in [Nodes -> Int] : Tree([t EXCEPT !.loop = x], level)
         /\ \A x \in [Nodes -> Params] : Tree([t EXCEPT !.params = x], level)
         /\ \A x \in [Nodes -> Seq(Nodes)] :
              (\A n \in Nodes : \A k \in Range(x[n]) : level[k] = level[n] + 1)
                => Tree([t EXCEPT !.kids = x], level)
<1>1. t \in GivenTrees /\ Layered(t, level)
  BY DEF Tree
<1>2. ASSUME NEW x \in SUBSET Nodes PROVE Tree([t EXCEPT !.played = x], level)
  <2>1. [t EXCEPT !.played = x] \in GivenTrees
    BY <1>1 DEF GivenTrees
  <2>2. [t EXCEPT !.played = x].kids = t.kids
    BY <1>1 DEF GivenTrees
  <2> QED
    BY <1>1, <2>1, <2>2 DEF Tree, Layered
<1>3. ASSUME NEW x \in [Nodes -> Int] PROVE Tree([t EXCEPT !.loop = x], level)
  <2>1. [t EXCEPT !.loop = x] \in GivenTrees
    BY <1>1 DEF GivenTrees
  <2>2. [t EXCEPT !.loop = x].kids = t.kids
    BY <1>1 DEF GivenTrees
  <2> QED
    BY <1>1, <2>1, <2>2 DEF Tree, Layered
<1>4. ASSUME NEW x \in [Nodes -> Params] PROVE Tree([t EXCEPT !.params = x], level)
  <2>1. [t EXCEPT !.params = x] \in GivenTrees
    BY <1>1 DEF GivenTrees, Params
  <2>2. [t EXCEPT !.params = x].kids = t.kids
    BY <1>1 DEF GivenTrees
  <2> QED
    BY <1>1, <2>1, <2>2 DEF Tree, Layered
<1>5. ASSUME NEW x \in [Nodes -> Seq(Nodes)], \A n \in Nodes : \A k \in Range(x[n]) : level[k] = level[n] + 1
      PROVE  Tree([t EXCEPT !.kids = x], level)
  <2>1. [t EXCEPT !.kids = x] \in GivenTrees
    BY <1>1 DEF GivenTrees
  <2>2. [t EXCEPT !.kids = x].kids = x
    BY <1>1 DEF GivenTrees
  <2> QED
    BY <1>1, <1>5, <2>1, <2>2 DEF Tree, Layered
<1> QED
  BY <1>2, <1>3, <1>4, <1>5

LEMMA KidsExcept ==
  ASSUME NEW level \in Layers, NEW t, Tree(t, level), NEW p, NEW s \in Seq(Nodes),
         \A k \in Range(s) : p \in Nodes => level[k] = level[p] + 1
  PROVE  Tree([t EXCEPT !.kids[p] = s], level)
<1> DEFINE x == [t.kids EXCEPT ![p] = s]
<1>1. t.kids \in [Nodes -> Seq(Nodes)] /\ \A n \in Nodes : \A k \in Range(t.kids[n]) : level[k] = level[n] + 1
  BY TreeFields
<1>2. x \in [Nodes -> Seq(Nodes)]
  BY <1>1
<1>3. \A n \in Nodes : x[n] = IF n = p THEN s ELSE t.kids[n]
  BY <1>1
<1>4. [t EXCEPT !.kids[p] = s] = [t EXCEPT !.kids = x]
  OBVIOUS
<1> HIDE DEF x
<1>5. ASSUME NEW n \in Nodes, NEW k \in Range(x[n]) PROVE level[k] = level[n] + 1
  <2>1. CASE n = p
    <3>1. k \in Range(s)
      BY <1>3, <2>1
    <3> QED
      BY <2>1, <3>1
  <2>2. CASE n # p
    <3>1. k \in Range(t.kids[n])
      BY <1>3, <2>2
    <3> QED
      BY <1>1, <3>1
  <2> QED
    BY <2>1, <2>2
<1> QED
  BY <1>2, <1>4, <1>5, TreeExcept

LEMMA ParentIs ==
  ASSUME NEW level \in Layers, NEW t, Tree(t, level), NEW n, Parent(t, n) # None
  PROVE  /\ Parent(t, n) \in Nodes /\ n \in Range(t.kids[Parent(t, n)])
         /\ n \in Nodes /\ level[n] = level[Parent(t, n)] + 1
<1> DEFINE ps == {p \in Nodes : n \in Range(t.kids[p])}
<1>1. ps # {} /\ Parent(t, n) = CHOOSE p \in ps : TRUE
  BY DEF Parent
<1>2. Parent(t, n) \in ps
  BY <1>1
<1> QED
  BY <1>2, TreeFields

LEMMA SiblingsAre ==
  ASSUME NEW level \in Layers, NEW t, Tree(t, level), NEW n \in Nodes
  PROVE  /\ Siblings(t, n) \in Seq(Nodes) /\ n \in Range(Siblings(t, n))
         /\ Siblings(t, n) # << >>
         /\ \A k \in Range(Siblings(t, n)) : k \in Nodes /\ level[k] = level[n]
<1>1. CASE Parent(t, n) = None
  <2>1. Siblings(t, n) = <<n>>
    BY <1>1 DEF Siblings
  <2>2. Range(<<n>>) = {n}
    BY DEF Range
  <2> QED
    BY <2>1, <2>2
<1>2. CASE Parent(t, n) # None
  <2> DEFINE p == Parent(t, n)
  <2>1. p \in Nodes /\ n \in Range(t.kids[p]) /\ level[n] = level[p] + 1
    BY <1>2, ParentIs
  <2>2. Siblings(t, n) = t.kids[p]
    BY <1>2 DEF Siblings
  <2> HIDE DEF p
  <2>3. t.kids[p] \in Seq(Nodes) /\ \A k \in Range(t.kids[p]) : k \in Nodes /\ level[k] = level[p] + 1
    BY <2>1, TreeFields
  <2>4. t.kids[p] # << >>
    BY <2>1 DEF Range
  <2> QED
    BY <2>1, <2>2, <2>3, <2>4
<1> QED
  BY <1>1, <1>2

LEMMA EndsAre ==
  ASSUME NEW s \in Seq(Nodes), s # << >>
  PROVE  /\ Head(s) \in Range(s) /\ Last(s) \in Range(s)
<1>1. Len(s) \in Nat \ {0}
  OBVIOUS
<1>2. 1 \in DOMAIN s /\ Len(s) \in DOMAIN s /\ Head(s) = s[1] /\ Last(s) = s[Len(s)]
  BY <1>1 DEF Last
<1> QED
  BY <1>2 DEF Range
LEMMA IndexOfIs ==
  ASSUME NEW s \in Seq(Nodes), NEW n \in Range(s)
  PROVE  IndexOf(s, n) \in 1 .. Len(s)
<1>1. \E i \in DOMAIN s : s[i] = n
  BY DEF Range
<1>2. IndexOf(s, n) \in DOMAIN s
  BY <1>1 DEF IndexOf
<1> QED
  BY <1>2

LEMMA ConcatIs ==
  ASSUME NEW s \in Seq(Nodes), NEW t \in Seq(Nodes)
  PROVE  /\ s \o t \in Seq(Nodes) /\ Len(s \o t) = Len(s) + Len(t)
         /\ \A j \in 1 .. Len(s) + Len(t) :
              (s \o t)[j] = IF j <= Len(s) THEN s[j] ELSE t[j - Len(s)]
OBVIOUS

LEMMA InsertIs ==
  ASSUME NEW s \in Seq(Nodes), NEW i \in 1 .. Len(s) + 1, NEW n \in Nodes
  PROVE  /\ InsertAt(s, i, n) \in Seq(Nodes)
         /\ \A k \in Range(InsertAt(s, i, n)) : k \in Range(s) \cup {n}
<1> DEFINE a == SubSeq(s, 1, i - 1)   b == SubSeq(s, i, Len(s))   c == a \o <<n>>   d == c \o b
<1>1. Len(s) \in Nat /\ i \in Nat /\ i >= 1 /\ i <= Len(s) + 1
  OBVIOUS
<1>2. a \in Seq(Nodes) /\ Len(a) = i - 1 /\ \A j \in 1 .. i - 1 : a[j] = s[j]
  BY <1>1
<1>3. b \in Seq(Nodes) /\ Len(b) = Len(s) - i + 1 /\ \A j \in 1 .. Len(s) - i + 1 : b[j] = s[j + i - 1]
  BY <1>1
<1>4. InsertAt(s, i, n) = d
  BY DEF InsertAt
<1> HIDE DEF a, b
<1>5. c \in Seq(Nodes) /\ Len(c) = i /\ \A j \in 1 .. i : c[j] = IF j = i THEN n ELSE s[j]
  BY <1>1, <1>2
<1> HIDE DEF c
<1>6. d \in Seq(Nodes) /\ Len(d) = Len(s) + 1
      /\ \A j \in 1 .. Len(s) + 1 : d[j] = IF j <= i THEN c[j] ELSE b[j - i]
  <2>1. d \in Seq(Nodes) /\ Len(d) = Len(c) + Len(b)
        /\ \A j \in 1 .. Len(c) + Len(b) : d[j] = IF j <= Len(c) THEN c[j] ELSE b[j - Len(c)]
    BY <1>3, <1>5, ConcatIs
  <2> HIDE DEF d
  <2>2. Len(c) = i /\ Len(c) + Len(b) = Len(s) + 1
    BY <1>1, <1>3, <1>5
  <2> QED
    BY <2>1, <2>2
<1>7. ASSUME NEW j \in 1 .. Len(s) + 1 PROVE d[j] \in Range(s) \cup {n}
  <2>1. CASE j = i
    BY <1>1, <1>5, <1>6, <2>1
  <2>2. CASE j < i
    <3>1. d[j] = s[j] /\ j \in DOMAIN s
      BY <1>1, <1>5, <1>6, <2>2
    <3> QED
      BY <3>1 DEF Range
  <2>3. CASE j > i
    <3>1. d[j] = s[j - 1] /\ j - 1 \in DOMAIN s
      BY <1>1, <1>3, <1>6, <2>3
    <3> QED
      BY <3>1 DEF Range
  <2>4. j \in Nat /\ (j = i \/ j < i \/ j > i)
    BY <1>1, <1>7
  <2> QED
    BY <2>1, <2>2, <2>3, <2>4
<1>8. \A k \in Range(d) : k \in Range(s) \cup {n}
  <2> HIDE DEF d
  <2>1. DOMAIN d = 1 .. Len(s) + 1
    BY <1>6
  <2>2. \A k \in Range(d) : \E j \in 1 .. Len(s) + 1 : k = d[j]
    BY <2>1 DEF Range
  <2> QED
    BY <1>7, <2>2
<1> QED
  BY <1>4, <1>6, <1>8

LEMMA RemoveIs ==
  ASSUME NEW s \in Seq(Nodes), NEW i \in 1 .. Len(s)
  PROVE  /\ RemoveAt(s, i) \in Seq(Nodes)
         /\ \A k \in Range(RemoveAt(s, i)) : k \in Range(s)
<1> DEFINE a == SubSeq(s, 1, i - 1)   b == SubSeq(s, i + 1, Len(s))   d == a \o b
<1>1. Len(s) \in Nat /\ i \in Nat /\ i >= 1 /\ i <= Len(s)
  OBVIOUS
<1>2. a \in Seq(Nodes) /\ Len(a) = i - 1 /\ \A j \in 1 .. i - 1 : a[j] = s[j]
  BY <1>1
<1>3. b \in Seq(Nodes) /\ Len(b) = Len(s) - i /\ \A j \in 1 .. Len(s) - i : b[j] = s[j + i]
  BY <1>1
<1>4. RemoveAt(s, i) = d
  BY DEF RemoveAt
<1> HIDE DEF a, b
<1>5. d \in Seq(Nodes) /\ Len(d) = Len(s) - 1
      /\ \A j \in 1 .. Len(s) - 1 : d[j] = IF j <= i - 1 THEN a[j] ELSE b[j - (i - 1)]
  <2>1. d \in Seq(Nodes) /\ Len(d) = Len(a) + Len(b)
        /\ \A j \in 1 .. Len(a) + Len(b) : d[j] = IF j <= Len(a) THEN a[j] ELSE b[j - Len(a)]
    BY <1>2, <1>3, ConcatIs
  <2> HIDE DEF d
  <2>2. Len(a) = i - 1 /\ Len(a) + Len(b) = Len(s) - 1
    BY <1>1, <1>2, <1>3
  <2> QED
    BY <2>1, <2>2
<1>6. ASSUME NEW j \in 1 .. Len(s) - 1 PROVE d[j] \in Range(s)
  <2>1. CASE j < i
    <3>1. d[j] = s[j] /\ j \in DOMAIN s
      BY <1>1, <1>2, <1>5, <2>1
    <3> QED
      BY <3>1 DEF Range
  <2>2. CASE j >= i
    <3>1. d[j] = s[j + 1] /\ j + 1 \in DOMAIN s
      BY <1>1, <1>3, <1>5, <2>2
    <3> QED
      BY <3>1 DEF Range
  <2>3. j < i \/ j >= i
    BY <1>1, <1>6
  <2> QED
    BY <2>1, <2>2, <2>3
<1>7. \A k \in Range(d) : k \in Range(s)
  <2> HIDE DEF d
  <2>1. DOMAIN d = 1 .. Len(s) - 1
    BY <1>5
  <2>2. \A k \in Range(d) : \E j \in 1 .. Len(s) - 1 : k = d[j]
    BY <2>1 DEF Range
  <2> QED
    BY <1>6, <2>2
<1> QED
  BY <1>4, <1>5, <1>7

LEMMA InsertAfterIs ==
  ASSUME NEW level \in Layers, NEW t, Tree(t, level), NEW n \in Nodes, NEW m \in Nodes,
         level[m] = level[n]
  PROVE  Tree(InsertAfter(t, n, m), level)
<1> DEFINE p == Parent(t, n)   s == InsertAt(t.kids[p], IndexOf(t.kids[p], n) + 1, m)
<1>1. InsertAfter(t, n, m) = [t EXCEPT !.kids[p] = s]
  BY DEF InsertAfter
<1>2. CASE p \in Nodes
  <2>1. n \in Range(t.kids[p]) /\ level[n] = level[p] + 1 /\ t.kids[p] \in Seq(Nodes)
        /\ \A k \in Range(t.kids[p]) : level[k] = level[p] + 1
    <3>1. p # None
      BY <1>2, PlayTreeAssumption
    <3> QED
      BY <1>2, <3>1, ParentIs, TreeFields
  <2> HIDE DEF p
  <2>2. IndexOf(t.kids[p], n) + 1 \in 1 .. Len(t.kids[p]) + 1
    BY <2>1, IndexOfIs
  <2>3. s \in Seq(Nodes) /\ \A k \in Range(s) : k \in Range(t.kids[p]) \cup {m}
    BY <2>1, <2>2, InsertIs
  <2> HIDE DEF s
  <2>4. \A k \in Range(s) : level[k] = level[p] + 1
    BY <2>1, <2>3
  <2>5. Tree([t EXCEPT !.kids[p] = s], level)
    BY <2>3, <2>4, KidsExcept
  <2> QED
    BY <1>1, <2>5
<1>3. CASE p \notin Nodes
  <2>1. t.kids \in [Nodes -> Seq(Nodes)] /\ t \in GivenTrees
    BY TreeFields DEF Tree
  <2> HIDE DEF p, s
  <2>2. [t.kids EXCEPT ![p] = s] = t.kids
    BY <1>3, <2>1
  <2>3. InsertAfter(t, n, m) = [t EXCEPT !.kids = [t.kids EXCEPT ![p] = s]]
    BY <1>1
  <2>4. [t EXCEPT !.kids = t.kids] = t
    BY <2>1 DEF GivenTrees
  <2> QED
    BY <2>2, <2>3, <2>4
<1> QED
  BY <1>2, <1>3

LEMMA RemovedIs ==
  ASSUME NEW level \in Layers, NEW t, Tree(t, level), NEW n
  PROVE  Tree(Removed(t, n), level)
<1> DEFINE p == Parent(t, n)   s == RemoveAt(t.kids[p], IndexOf(t.kids[p], n))
<1>1. CASE p = None
  BY <1>1 DEF Removed
<1>2. CASE p # None
  <2>1. Removed(t, n) = [t EXCEPT !.kids[p] = s]
    BY <1>2 DEF Removed
  <2>2. p \in Nodes /\ n \in Range(t.kids[p]) /\ t.kids[p] \in Seq(Nodes)
        /\ \A k \in Range(t.kids[p]) : level[k] = level[p] + 1
    BY <1>2, ParentIs, TreeFields
  <2> HIDE DEF p
  <2>3. IndexOf(t.kids[p], n) \in 1 .. Len(t.kids[p])
    BY <2>2, IndexOfIs
  <2>4. s \in Seq(Nodes) /\ \A k \in Range(s) : k \in Range(t.kids[p])
    BY <2>2, <2>3, RemoveIs
  <2> HIDE DEF s
  <2> QED
    BY <2>1, <2>2, <2>4, KidsExcept
<1> QED
  BY <1>1, <1>2

LEMMA AppendToIs ==
  ASSUME NEW level \in Layers, NEW t, Tree(t, level), NEW n \in Fresh
  PROVE  /\ Tree(AppendTo(t, Root, n), level)
         /\ Tree([t EXCEPT !.kids[Root] = <<n>>], level)
<1>1. n \in Nodes /\ level[n] = level[Root] + 1 /\ Root \in Nodes
  <2>1. level[n] = 1
    BY DEF Tree, Layered
  <2>2. n \in Nodes
    BY PlayTreeAssumption
  <2> QED
    BY <2>1, <2>2, TreeFields
<1> DEFINE s == t.kids[Root]
<1>2. s \in Seq(Nodes) /\ \A k \in Range(s) : level[k] = level[Root] + 1
  BY <1>1, TreeFields
<1>3. AppendTo(t, Root, n) = [t EXCEPT !.kids[Root] = Append(s, n)]
  BY DEF AppendTo
<1> HIDE DEF s
<1>4. Append(s, n) \in Seq(Nodes) /\ \A k \in Range(Append(s, n)) : k \in Range(s) \cup {n}
  <2>1. Append(s, n) \in Seq(Nodes) /\ DOMAIN Append(s, n) = 1 .. Len(s) + 1 /\ Len(s) \in Nat
        /\ \A i \in 1 .. Len(s) + 1 : Append(s, n)[i] = IF i = Len(s) + 1 THEN n ELSE s[i]
    BY <1>1, <1>2
  <2> QED
    BY <1>2, <2>1 DEF Range
<1>5. Tree([t EXCEPT !.kids[Root] = Append(s, n)], level)
  <2>1. \A k \in Range(Append(s, n)) : Root \in Nodes => level[k] = level[Root] + 1
    BY <1>1, <1>2, <1>4
  <2> QED
    BY <1>4, <2>1, KidsExcept
<1>6. Tree([t EXCEPT !.kids[Root] = <<n>>], level)
  <2>1. <<n>> \in Seq(Nodes) /\ Range(<<n>>) = {n}
    BY <1>1 DEF Range
  <2>2. \A k \in Range(<<n>>) : Root \in Nodes => level[k] = level[Root] + 1
    BY <1>1, <2>1
  <2> QED
    BY <2>1, <2>2, KidsExcept
<1> QED
  BY <1>3, <1>5, <1>6

LEMMA CleanIs ==
  ASSUME NEW level \in Layers, NEW t, Tree(t, level), NEW n \in Nodes
  PROVE  Tree(Clean(t, n), level)
<1> DEFINE params == [t.params EXCEPT ![n] = << >>]   u == [t EXCEPT !.params = params]
           played == t.played \ ({n} \cup Range(t.kids[n]))
<1>1. params \in [Nodes -> Params] /\ played \in SUBSET Nodes
  BY TreeFields DEF Params
<1>2. Clean(t, n) = [t EXCEPT !.params = params, !.played = played]
  BY DEF Clean
<1> HIDE DEF params, played
<1>3. [t EXCEPT !.params = params, !.played = played] = [u EXCEPT !.played = played]
  OBVIOUS
<1>4. Tree(u, level)
  BY <1>1, TreeExcept
<1> HIDE DEF u
<1>5. Tree([u EXCEPT !.played = played], level)
  BY <1>1, <1>4, TreeExcept
<1> QED
  BY <1>2, <1>3, <1>5

-----------------------------------------------------------------------------
(* The iterator. *)

LEMMA IterExcept ==
  ASSUME NEW it \in Iterators
  PROVE  /\ \A x \in Nodes \cup {None} : [it EXCEPT !.tree = x] \in Iterators
         /\ \A x \in Int : [it EXCEPT !.loop = x] \in Iterators
         /\ \A x \in Int : [it EXCEPT !.file = x] \in Iterators
         /\ \A x \in Nat : [it EXCEPT !.num = x] \in Iterators
         /\ \A x \in BOOLEAN : [it EXCEPT !.pushed = x] \in Iterators
         /\ \A x \in BOOLEAN : [it EXCEPT !.random = x] \in Iterators
         /\ \A x \in Seq(Int) : [it EXCEPT !.stack = x] \in Iterators
         /\ \A x \in BOOLEAN : [it EXCEPT !.config = x] \in Iterators
<1>1. \A x \in Nodes \cup {None} : [it EXCEPT !.tree = x] \in Iterators
  BY DEF Iterators
<1>2. \A x \in Int : [it EXCEPT !.loop = x] \in Iterators
  BY DEF Iterators
<1>3. \A x \in Int : [it EXCEPT !.file = x] \in Iterators
  BY DEF Iterators
<1>4. \A x \in Nat : [it EXCEPT !.num = x] \in Iterators
  BY DEF Iterators
<1>5. \A x \in BOOLEAN : [it EXCEPT !.pushed = x] \in Iterators
  BY DEF Iterators
<1>6. \A x \in BOOLEAN : [it EXCEPT !.random = x] \in Iterators
  BY DEF Iterators
<1>7. \A x \in Seq(Int) : [it EXCEPT !.stack = x] \in Iterators
  BY DEF Iterators
<1>8. \A x \in BOOLEAN : [it EXCEPT !.config = x] \in Iterators
  BY DEF Iterators
<1> QED
  BY <1>1, <1>2, <1>3, <1>4, <1>5, <1>6, <1>7, <1>8

LEMMA IterFields ==
  ASSUME NEW it \in Iterators
  PROVE  /\ it.tree \in Nodes \cup {None} /\ it.loop \in Int /\ it.file \in Int /\ it.num \in Nat
         /\ it.pushed \in BOOLEAN /\ it.random \in BOOLEAN /\ it.stack \in Seq(Int) /\ it.config \in BOOLEAN
         /\ it # None
<1>1. it # None
  BY PlayTreeAssumption
<1> QED
  BY <1>1 DEF Iterators

LEMMA SettledIs ==
  ASSUME iter \in Iterators
  PROVE  /\ Settled \in Iterators /\ Settled.file = -1
         /\ Settled.tree = iter.tree /\ Settled.loop = iter.loop /\ Settled.num = iter.num
         /\ Settled.stack = iter.stack /\ Settled.config = iter.config
         /\ iter.config => ~Settled.pushed
<1> DEFINE b == iter.pushed /\ ~iter.config   r == Random
           it1 == [iter EXCEPT !.pushed = b]   it2 == [it1 EXCEPT !.random = r]
           it3 == [it2 EXCEPT !.file = -1]
<1>1. Settled = [iter EXCEPT !.pushed = b, !.random = r, !.file = -1]
  BY DEF Settled
<1>2. b \in BOOLEAN /\ r \in BOOLEAN /\ (iter.config => ~b)
  BY DEF Random
<1> HIDE DEF b, r
<1>3. Settled = it3
  BY <1>1
<1>4. it1 \in Iterators /\ it2 \in Iterators /\ it3 \in Iterators
  <2>1. it1 \in Iterators
    BY <1>2, IterExcept
  <2> HIDE DEF it1
  <2>2. it2 \in Iterators
    BY <1>2, <2>1, IterExcept
  <2> HIDE DEF it2
  <2> DEFINE m == -1
  <2>3. m \in Int
    OBVIOUS
  <2> HIDE DEF m
  <2>4. [it2 EXCEPT !.file = m] \in Iterators
    BY <2>2, <2>3, IterExcept
  <2>5. it3 \in Iterators
    BY <2>4 DEF m
  <2> QED
    BY <2>1, <2>2, <2>5
<1>5. /\ Settled.file = -1 /\ Settled.tree = iter.tree /\ Settled.loop = iter.loop
      /\ Settled.num = iter.num /\ Settled.stack = iter.stack /\ Settled.config = iter.config
      /\ Settled.pushed = b
  BY <1>1 DEF Iterators
<1> QED
  BY <1>2, <1>3, <1>4, <1>5

\* A sequence of levels s goes on to t.
ScopeStep(s, t) ==
  \/ t = s
  \/ \E e \in Scope : t = Append(s, e)
  \/ \E e \in Scope : t = Append(Front(s), e)
  \/ Len(s) > 1 /\ t = Front(s)

\* An iterator that moves the configuration has a level for every group around
\* it, and one for the entry when it is open.
Opened(c, it) == c.lvl >= 1 + Len(it.stack) + (IF it.pushed THEN 1 ELSE 0)

LEMMA OpenedIs ==
  ASSUME NEW c, NEW it, c.lvl \in Nat, Len(it.stack) \in Nat
  PROVE  /\ ~it.pushed => (Opened(c, it) <=> c.lvl >= 1 + Len(it.stack))
         /\ it.pushed => (Opened(c, it) <=> c.lvl >= 2 + Len(it.stack))
         /\ Opened(c, it) => c.lvl >= 1 + Len(it.stack)
         /\ c.lvl >= 2 + Len(it.stack) => Opened(c, it)
<1>1. ASSUME ~it.pushed PROVE Opened(c, it) <=> c.lvl >= 1 + Len(it.stack)
  <2>1. Opened(c, it) <=> c.lvl >= 1 + Len(it.stack) + 0
    BY <1>1 DEF Opened
  <2> QED
    BY <2>1
<1>2. ASSUME it.pushed PROVE Opened(c, it) <=> c.lvl >= 2 + Len(it.stack)
  <2>1. Opened(c, it) <=> c.lvl >= 1 + Len(it.stack) + 1
    BY <1>2 DEF Opened
  <2> QED
    BY <2>1
<1>3. c.lvl >= 2 + Len(it.stack) => c.lvl >= 1 + Len(it.stack)
  OBVIOUS
<1>4. CASE ~it.pushed
  BY <1>1, <1>3, <1>4
<1>5. CASE it.pushed
  BY <1>2, <1>3, <1>5
<1> QED
  BY <1>4, <1>5

LEMMA LeftIs ==
  ASSUME iter \in Iterators, Stacked(config), iter.config => Opened(config, iter)
  PROVE  /\ Stacked(Left) /\ ScopeStep(Levels(config), Levels(Left))
         /\ IF iter.config THEN Left.lvl >= 1 + Len(iter.stack) ELSE Left = config
<1>1. config.lvl \in Nat /\ iter.stack \in Seq(Int) /\ Len(iter.stack) \in Nat
  BY StackedIs, IterFields
<1>2. CASE ~(iter.config /\ iter.pushed)
  <2>1. Left = config
    BY <1>2 DEF Left
  <2>2. iter.config => config.lvl >= 1 + Len(iter.stack)
    <3>1. iter.config => config.lvl >= 1 + Len(iter.stack) + 0
      BY <1>2 DEF Opened
    <3> QED
      BY <1>1, <3>1
  <2> QED
    BY <2>1, <2>2 DEF ScopeStep
<1>3. CASE iter.config /\ iter.pushed
  <2>1. Left = PopConfig(config)
    BY <1>3 DEF Left
  <2>2. config.lvl >= 2 + Len(iter.stack)
    BY <1>1, <1>3 DEF Opened
  <2>3. config.lvl > 1
    BY <1>1, <2>2
  <2>4. Stacked(PopConfig(config)) /\ PopConfig(config).lvl = config.lvl - 1
    BY <2>3, PopIs
  <2>5. Len(Levels(config)) > 1 /\ Levels(PopConfig(config)) = Front(Levels(config))
    BY <2>3, PopLeaves
  <2>6. PopConfig(config).lvl >= 1 + Len(iter.stack)
    BY <1>1, <2>2, <2>4
  <2>7. ScopeStep(Levels(config), Levels(PopConfig(config)))
    BY <2>5 DEF ScopeStep
  <2> QED
    BY <1>3, <2>1, <2>4, <2>6, <2>7
<1> QED
  BY <1>2, <1>3

\* The entry's own level is closed and opened again: its options change.
LEMMA LeftPushed ==
  ASSUME iter \in Iterators, Stacked(config), iter.config, Opened(config, iter), NEW params \in Params
  PROVE  LET d == SetOptions(PushConfig(Left), params) IN
         /\ Stacked(d) /\ ScopeStep(Levels(config), Levels(d))
         /\ d.lvl >= 2 + Len(iter.stack)
<1> DEFINE d == SetOptions(PushConfig(Left), params)
<1>1. Stacked(Left) /\ Left.lvl >= 1 + Len(iter.stack)
  BY LeftIs
<1>2. Stacked(d) /\ d.lvl = Left.lvl + 1 /\ \E e \in Scope : Levels(d) = Append(Levels(Left), e)
  BY <1>1, PushEnters
<1>3. d.lvl >= 2 + Len(iter.stack)
  BY <1>1, <1>2, StackedIs, IterFields
<1>4. PICK e \in Scope : Levels(d) = Append(Levels(Left), e)
  BY <1>2
<1> HIDE DEF d
<1>5. CASE ~iter.pushed
  <2>1. Left = config
    BY <1>5 DEF Left
  <2> QED
    BY <1>2, <1>3, <1>4, <2>1 DEF ScopeStep, d
<1>6. CASE iter.pushed
  <2>1. Left = PopConfig(config)
    BY <1>6 DEF Left
  <2>2. config.lvl > 1
    <3>1. config.lvl \in Nat /\ Len(iter.stack) \in Nat
      BY StackedIs, IterFields
    <3> QED
      BY <1>6, <3>1 DEF Opened
  <2>3. Levels(Left) = Front(Levels(config))
    BY <2>1, <2>2, PopLeaves
  <2>4. Levels(d) = Append(Front(Levels(config)), e)
    BY <1>4, <2>3
  <2> QED
    BY <1>2, <1>3, <2>4 DEF ScopeStep, d
<1> QED
  BY <1>5, <1>6

-----------------------------------------------------------------------------
(* The inductive invariant. *)

\* Where an iterator may be: never deeper in the tree than its stack of loop
\* counts, and at a file its entry has.
Standing(it, level) ==
  /\ it \in Iterators /\ it.file \in -1 .. it.num - 1 \cup {0}
  /\ it.tree # None => level[it.tree] <= Len(it.stack)

Asking == {"first", "next", "again", "list", "listup", "asked", "unwind", "head"}

IterInv(level) ==
  /\ iter = None \/ Standing(iter, level)
  /\ kept = None \/ Standing(kept, level)
  /\ iter # None => (iter.config <=> pc # "asked")
  /\ kept # None => kept.config

ConfigInv ==
  /\ Stacked(config)
  /\ iter # None /\ iter.config => Opened(config, iter)
  /\ kept # None => Opened(config, kept)

CallInv ==
  /\ iter = None => pc \in {"file", "idle", "over"}
  /\ call.op # "none" => pc \in Asking
  /\ call.op = "down" => iter.tree \in Nodes /\ tree.kids[iter.tree] # << >>
  /\ pc = "asked" => arg.eof \in {-3, -1, 1, 3} /\ arg.step \in {-1, 1, 2}
  /\ pc \in {"unwind", "head"} => arg \in Fresh \cup {"stop"}
  /\ kept # None <=> pc = "asked"
  /\ eof \in -3 .. 4 /\ step \in {-1, 1, 2}

IInv(level) == Tree(tree, level) /\ IterInv(level) /\ ConfigInv /\ CallInv

\* What a function of playtree.c keeps.
Walked(level) ==
  /\ Tree(tree', level) /\ Standing(iter', level)
  /\ iter'.config <=> iter.config
  /\ Stacked(config') /\ ScopeStep(Levels(config), Levels(config'))
  /\ IF iter.config THEN Opened(config', iter') ELSE config' = config
  /\ call'.op = "down" => iter'.tree \in Nodes /\ tree'.kids[iter'.tree] # << >>
  /\ UNCHANGED <<kept, pc, eof, step, arg>>

LEMMA CallIs ==
  ASSUME NEW level \in Layers, IInv(level), call.op # "none"
  PROVE  /\ iter # None /\ Standing(iter, level) /\ iter \in Iterators
         /\ pc \in Asking /\ (iter.config <=> kept = None)
         /\ Stacked(config) /\ (iter.config => Opened(config, iter))
         /\ Tree(tree, level)
<1>1. pc \in Asking /\ iter # None
  BY DEF IInv, CallInv, Asking
<1>2. Standing(iter, level)
  BY <1>1 DEF IInv, IterInv
<1>3. iter.config <=> kept = None
  BY <1>1 DEF IInv, IterInv, CallInv
<1>4. Stacked(config) /\ (iter.config => Opened(config, iter)) /\ Tree(tree, level)
  BY <1>1 DEF IInv, ConfigInv
<1> QED
  BY <1>1, <1>2, <1>3, <1>4 DEF Standing

LEMMA WalkedKeeps ==
  ASSUME NEW level \in Layers, IInv(level), call.op # "none", Walked(level)
  PROVE  IInv(level)' /\ ScopeStep(Levels(config), Levels(config'))
<1>1. iter # None /\ pc \in Asking /\ (iter.config <=> kept = None)
  BY CallIs
<1>2. UNCHANGED <<kept, pc, eof, step, arg>>
  BY DEF Walked
<1>3. Standing(iter', level) /\ iter' # None /\ (iter'.config <=> iter.config)
  <2>1. Standing(iter', level) /\ (iter'.config <=> iter.config)
    BY DEF Walked
  <2> QED
    BY <2>1, PlayTreeAssumption DEF Standing
<1>4. IterInv(level)'
  BY <1>1, <1>2, <1>3 DEF IInv, IterInv, Standing
<1>5. ConfigInv'
  <2>1. CASE iter.config
    <3>1. kept' = None /\ Opened(config', iter')
      BY <1>1, <1>2, <2>1 DEF Walked
    <3>2. Stacked(config')
      BY DEF Walked
    <3> QED
      BY <3>1, <3>2 DEF ConfigInv, Opened, Stacked
  <2>2. CASE ~iter.config
    <3>1. config' = config /\ kept' = kept /\ ~iter'.config
      BY <1>2, <1>3, <2>2 DEF Walked
    <3> QED
      BY <3>1 DEF IInv, ConfigInv, Opened, Stacked
  <2> QED
    BY <2>1, <2>2
<1>6. CallInv'
  <2>1. call'.op = "down" => iter'.tree \in Nodes /\ tree'.kids[iter'.tree] # << >>
    BY DEF Walked
  <2> QED
    BY <1>1, <1>2, <1>3, <2>1 DEF IInv, CallInv
<1>7. Tree(tree, level)'
  BY DEF Walked, Tree, Layered
<1> QED
  BY <1>4, <1>5, <1>6, <1>7 DEF IInv, Walked

LEMMA WalkingIs ==
  ASSUME Walking
  PROVE  UNCHANGED <<kept, pc, eof, step, arg>>
BY DEF Walking

LEMMA StepRootWalks ==
  ASSUME NEW level \in Layers, IInv(level), StepRoot
  PROVE  Walked(level)
<1>1. call.op # "none" /\ iter' = [iter EXCEPT !.tree = Root] /\ tree' = tree /\ config' = config
      /\ call'.op = "step" /\ UNCHANGED <<kept, pc, eof, step, arg>>
  BY WalkingIs DEF StepRoot, GoOn, Call
<1>2. Standing(iter, level) /\ iter \in Iterators /\ Stacked(config)
      /\ (iter.config => Opened(config, iter)) /\ Tree(tree, level)
  BY <1>1, CallIs
<1>3. Root \in Nodes /\ level[Root] = 0
  BY <1>2, TreeFields
<1>4. iter' \in Iterators
  BY <1>1, <1>2, <1>3, IterExcept
<1>5. /\ iter'.file = iter.file /\ iter'.num = iter.num /\ iter'.stack = iter.stack /\ iter'.tree = Root
      /\ iter'.config = iter.config /\ iter'.pushed = iter.pushed
  BY <1>1, <1>2 DEF Iterators
<1>6. Standing(iter', level)
  BY <1>2, <1>3, <1>4, <1>5, IterFields DEF Standing
<1>7. IF iter.config THEN Opened(config', iter') ELSE config' = config
  BY <1>1, <1>2, <1>5 DEF Opened
<1> QED
  BY <1>1, <1>2, <1>5, <1>6, <1>7 DEF Walked, ScopeStep

\* The steps of play_tree_iter_step from a node.
LEMMA TargetsAre ==
  ASSUME NEW level \in Layers, IInv(level), Stepping, NEW n \in Targets
  PROVE  n \in Nodes /\ level[n] <= Len(iter.stack)
<1>1. call.op # "none" /\ Here # None /\ Here = iter.tree
  BY DEF Stepping, Here
<1>2. Standing(iter, level) /\ iter \in Iterators /\ Tree(tree, level)
  BY <1>1, CallIs
<1>3. Here \in Nodes /\ level[Here] <= Len(iter.stack)
  BY <1>1, <1>2, IterFields DEF Standing
<1>4. n \in Range(Siblings(tree, Here))
  BY DEF Targets, Unplayed, Range
<1>5. n \in Nodes /\ level[n] = level[Here]
  BY <1>2, <1>3, <1>4, SiblingsAre
<1> QED
  BY <1>3, <1>5

LEMMA SteppingIs ==
  ASSUME NEW level \in Layers, IInv(level), Stepping
  PROVE  /\ call.op # "none" /\ Here = iter.tree /\ Here \in Nodes /\ level[Here] <= Len(iter.stack)
         /\ iter \in Iterators /\ Standing(iter, level) /\ Tree(tree, level)
         /\ Stacked(config) /\ (iter.config => Opened(config, iter))
         /\ Stacked(Left) /\ ScopeStep(Levels(config), Levels(Left))
         /\ IF iter.config THEN Left.lvl >= 1 + Len(iter.stack) ELSE Left = config
<1>1. call.op # "none" /\ Here # None /\ Here = iter.tree
  BY DEF Stepping, Here
<1>2. Standing(iter, level) /\ iter \in Iterators /\ Tree(tree, level) /\ Stacked(config)
      /\ (iter.config => Opened(config, iter))
  BY <1>1, CallIs
<1>3. Here \in Nodes /\ level[Here] <= Len(iter.stack)
  BY <1>1, <1>2, IterFields DEF Standing
<1> QED
  BY <1>1, <1>2, <1>3, LeftIs

\* A step that leaves the entry and stands at n, or where it stood.
LEMMA LeftWalks ==
  ASSUME NEW level \in Layers, IInv(level), Stepping, NEW it \in Iterators, Tree(tree', level),
         iter' = it, it.file = -1, it.stack = iter.stack, it.config <=> iter.config,
         iter.config => ~it.pushed, it.tree # None => level[it.tree] <= Len(iter.stack),
         config' = Left, UNCHANGED <<kept, pc, eof, step, arg>>,
         call'.op = "down" => it.tree \in Nodes /\ tree'.kids[it.tree] # << >>
  PROVE  Walked(level)
<1>1. /\ Stacked(Left) /\ ScopeStep(Levels(config), Levels(Left))
      /\ IF iter.config THEN Left.lvl >= 1 + Len(iter.stack) ELSE Left = config
  BY SteppingIs
<1>2. Standing(it, level)
  <2>1. it.num \in Nat
    BY IterFields
  <2>2. -1 \in -1 .. it.num - 1
    BY <2>1
  <2> QED
    BY <2>2 DEF Standing
<1>3. ASSUME iter.config PROVE Opened(Left, it)
  <2>1. Left.lvl >= 1 + Len(iter.stack) /\ Left.lvl \in Nat /\ Len(iter.stack) \in Nat /\ ~it.pushed
    BY <1>1, <1>3, StackedIs, IterFields
  <2>2. Left.lvl >= 1 + Len(it.stack) + 0
    BY <2>1
  <2> QED
    BY <2>1, <2>2 DEF Opened
<1> QED
  BY <1>1, <1>2, <1>3 DEF Walked

LEMMA StepNodeWalks ==
  ASSUME NEW level \in Layers, IInv(level), StepNode
  PROVE  Walked(level)
<1>1. PICK n \in Targets : HasValidChild(n) /\ iter' = [Settled EXCEPT !.tree = n]
  BY DEF StepNode
<1>2. Stepping /\ config' = Left /\ tree' = tree /\ UNCHANGED <<kept, pc, eof, step, arg>>
  BY WalkingIs DEF StepNode
<1>3. iter \in Iterators /\ Tree(tree, level)
  BY <1>2, SteppingIs
<1>4. n \in Nodes /\ level[n] <= Len(iter.stack)
  BY <1>2, TargetsAre
<1> DEFINE it == [Settled EXCEPT !.tree = n]
<1>5. it \in Iterators
  BY <1>3, <1>4, SettledIs, IterExcept
<1>6. /\ it.tree = n /\ it.file = -1 /\ it.stack = iter.stack /\ it.config = iter.config
      /\ it.pushed = Settled.pushed
  BY <1>3, SettledIs DEF Iterators
<1>7. iter.config => ~it.pushed
  BY <1>3, <1>6, SettledIs
<1>8. tree.kids[n] # << >>
  BY <1>1 DEF HasValidChild
<1> HIDE DEF it
<1> QED
  BY <1>1, <1>2, <1>3, <1>4, <1>5, <1>6, <1>7, <1>8, LeftWalks DEF it

LEMMA StepEntryWalks ==
  ASSUME NEW level \in Layers, IInv(level), StepEntry
  PROVE  Walked(level)
<1>1. PICK n \in Targets :
        /\ iter' = [Settled EXCEPT !.tree = n, !.num = Files[n], !.pushed = @ \/ iter.config]
        /\ config' = IF iter.config THEN Pushed(Left, n) ELSE config
        /\ MarkPlayed(n)
  BY DEF StepEntry
<1>2. Stepping /\ call'.op = "none" /\ UNCHANGED <<kept, pc, eof, step, arg>>
  BY WalkingIs DEF StepEntry, Return, NoCall
<1>3. /\ iter \in Iterators /\ Tree(tree, level) /\ Stacked(config)
      /\ (iter.config => Opened(config, iter))
  BY <1>2, SteppingIs
<1>4. n \in Nodes /\ level[n] <= Len(iter.stack)
  BY <1>2, TargetsAre
<1>5. Files[n] \in Nat /\ tree.params[n] \in Params
  BY <1>3, <1>4, TreeFields, PlayTreeAssumption
<1> DEFINE b == Settled.pushed \/ iter.config
           it1 == [Settled EXCEPT !.tree = n]   it2 == [it1 EXCEPT !.num = Files[n]]
           it == [it2 EXCEPT !.pushed = b]
<1>6. b \in BOOLEAN
  OBVIOUS
<1>7. iter' = it
  BY <1>1
<1> HIDE DEF b
<1>8. it \in Iterators
  <2>1. it1 \in Iterators
    BY <1>3, <1>4, SettledIs, IterExcept
  <2> HIDE DEF it1
  <2>2. it2 \in Iterators
    BY <1>5, <2>1, IterExcept
  <2> HIDE DEF it2
  <2> QED
    BY <1>6, <2>2, IterExcept
<1>9. it.tree = n /\ it.num = Files[n] /\ it.file = -1 /\ it.stack = iter.stack /\ it.config = iter.config
  BY <1>3, SettledIs DEF Iterators
<1> HIDE DEF it
<1>10. Standing(iter', level)
  <2>1. -1 \in -1 .. it.num - 1
    BY <1>5, <1>9
  <2> QED
    BY <1>4, <1>7, <1>8, <1>9, <2>1 DEF Standing
<1>11. Tree(tree', level)
  <2> DEFINE x == IF iter.config /\ Random THEN tree.played \cup {n} ELSE tree.played
  <2>1. x \in SUBSET Nodes
    BY <1>3, <1>4, TreeFields
  <2>2. tree' = [tree EXCEPT !.played = x]
    BY <1>1 DEF MarkPlayed
  <2> HIDE DEF x
  <2> QED
    BY <1>3, <2>1, <2>2, TreeExcept
<1>12. CASE iter.config
  <2>1. config' = SetOptions(PushConfig(Left), tree.params[n])
    BY <1>1, <1>12 DEF Pushed
  <2>2. Stacked(config') /\ ScopeStep(Levels(config), Levels(config')) /\ config'.lvl >= 2 + Len(iter.stack)
    BY <1>3, <1>5, <1>12, <2>1, LeftPushed
  <2>3. Opened(config', it)
    <3>1. config'.lvl \in Nat /\ Len(it.stack) \in Nat /\ config'.lvl >= 2 + Len(it.stack)
      BY <1>3, <1>9, <2>2, StackedIs, IterFields
    <3> QED
      BY <3>1, OpenedIs
  <2> QED
    BY <1>2, <1>7, <1>9, <1>10, <1>11, <1>12, <2>2, <2>3 DEF Walked
<1>13. CASE ~iter.config
  <2>1. config' = config
    BY <1>1, <1>13
  <2> QED
    BY <1>2, <1>3, <1>7, <1>9, <1>10, <1>11, <1>13, <2>1 DEF Walked, ScopeStep
<1> QED
  BY <1>12, <1>13

LEMMA SettledWalks ==
  ASSUME NEW level \in Layers, IInv(level), Stepping, Tree(tree', level), iter' = Settled,
         config' = Left, UNCHANGED <<kept, pc, eof, step, arg>>, call'.op # "down"
  PROVE  Walked(level)
<1>1. iter \in Iterators /\ Here = iter.tree /\ level[Here] <= Len(iter.stack)
  BY SteppingIs
<1>2. /\ Settled \in Iterators /\ Settled.file = -1 /\ Settled.tree = iter.tree
      /\ Settled.stack = iter.stack /\ Settled.config = iter.config /\ (iter.config => ~Settled.pushed)
  BY <1>1, SettledIs
<1> QED
  BY <1>1, <1>2, LeftWalks

LEMMA StepInvalidWalks ==
  ASSUME NEW level \in Layers, IInv(level), StepInvalid
  PROVE  Walked(level)
<1>1. Stepping /\ iter' = Settled /\ config' = Left /\ tree' = tree
      /\ UNCHANGED <<kept, pc, eof, step, arg>>
  BY WalkingIs DEF StepInvalid
<1>2. call'.op # "down"
  BY DEF StepInvalid, Return, NoCall, GoOn, Call
<1>3. Tree(tree', level)
  BY <1>1, SteppingIs
<1> QED
  BY <1>1, <1>2, <1>3, SettledWalks

LEMMA StepRoundWalks ==
  ASSUME NEW level \in Layers, IInv(level), StepRound
  PROVE  Walked(level)
<1>1. Stepping /\ iter' = Settled /\ config' = Left /\ UNCHANGED <<kept, pc, eof, step, arg>>
  BY WalkingIs DEF StepRound
<1>2. call'.op # "down"
  BY DEF StepRound, Return, NoCall, GoOn, Call
<1>3. Tree(tree, level)
  BY <1>1, SteppingIs
<1>4. Tree(tree', level)
  <2>1. CASE tree.loop[Root] = 0
    BY <1>3, <2>1 DEF StepRound
  <2>2. CASE tree.loop[Root] # 0
    <3> DEFINE l == IF tree.loop[Root] > 0 THEN tree.loop[Root] - 1 ELSE tree.loop[Root]
               loop == [tree.loop EXCEPT ![Root] = l]
               t == [tree EXCEPT !.played = {}]
    <3>1. tree.loop[Root] \in Int /\ tree.loop \in [Nodes -> Int]
      BY <1>3, TreeFields
    <3>2. l \in Int
      BY <3>1
    <3>3. tree' = [tree EXCEPT !.played = {}, !.loop[Root] = l]
      BY <2>2 DEF StepRound
    <3> HIDE DEF l
    <3>4. loop \in [Nodes -> Int]
      BY <3>1, <3>2
    <3>5. t.loop = tree.loop
      BY <1>3 DEF Tree, GivenTrees
    <3>6. tree' = [t EXCEPT !.loop = loop]
      <4>1. tree' = [t EXCEPT !.loop[Root] = l]
        BY <3>3
      <4>2. [t EXCEPT !.loop[Root] = l] = [t EXCEPT !.loop = [t.loop EXCEPT ![Root] = l]]
        OBVIOUS
      <4> HIDE DEF t
      <4> QED
        BY <3>5, <4>1, <4>2
    <3>7. Tree(t, level)
      <4>1. {} \in SUBSET Nodes
        OBVIOUS
      <4> QED
        BY <1>3, <4>1, TreeExcept
    <3> HIDE DEF t, loop
    <3> QED
      BY <3>4, <3>6, <3>7, TreeExcept
  <2> QED
    BY <2>1, <2>2
<1> QED
  BY <1>1, <1>2, <1>4, SettledWalks

LEMMA StepLoopWalks ==
  ASSUME NEW level \in Layers, IInv(level), StepLoop
  PROVE  Walked(level)
<1> DEFINE s == Siblings(tree, Here)
           n == IF Rest > 0 THEN Head(s) ELSE Last(s)
           more == IF iter.loop > 0 THEN iter.loop - 1 ELSE iter.loop
           less == IF iter.loop >= 0 THEN iter.loop + 1 ELSE iter.loop
           l == IF Rest > 0 THEN more ELSE less
           it1 == [Settled EXCEPT !.tree = n]
           it == [it1 EXCEPT !.loop = l]
<1>1. Stepping /\ config' = Left /\ tree' = tree /\ call'.op = "step"
      /\ UNCHANGED <<kept, pc, eof, step, arg>>
  BY WalkingIs DEF StepLoop, GoOn, Call
<1>2. iter \in Iterators /\ Tree(tree, level) /\ Here \in Nodes /\ level[Here] <= Len(iter.stack)
  BY <1>1, SteppingIs
<1>3. Settled.loop = iter.loop /\ iter.loop \in Int
  BY <1>2, SettledIs, IterFields
<1>4. iter' = [Settled EXCEPT !.tree = n, !.loop = l]
  <2>1. iter' = [Settled EXCEPT !.tree = n,
                   !.loop = IF Rest > 0 THEN (IF @ > 0 THEN @ - 1 ELSE @)
                            ELSE IF @ >= 0 THEN @ + 1 ELSE @]
    BY DEF StepLoop
  <2> QED
    BY <1>3, <2>1
<1>5. l \in Int
  BY <1>3
<1>6. n \in Nodes /\ level[n] = level[Here]
  <2>1. s \in Seq(Nodes) /\ s # << >> /\ \A k \in Range(s) : k \in Nodes /\ level[k] = level[Here]
    BY <1>2, SiblingsAre
  <2> HIDE DEF s
  <2>2. Head(s) \in Range(s) /\ Last(s) \in Range(s)
    BY <2>1, EndsAre
  <2> QED
    BY <2>1, <2>2
<1> HIDE DEF n, l
<1>7. iter' = it
  BY <1>4
<1>8. it \in Iterators
  <2>1. it1 \in Iterators
    BY <1>2, <1>6, SettledIs, IterExcept
  <2> HIDE DEF it1
  <2> QED
    BY <1>5, <2>1, IterExcept
<1>9. /\ it.tree = n /\ it.file = -1 /\ it.stack = iter.stack /\ it.config = iter.config
      /\ it.pushed = Settled.pushed
  BY <1>2, SettledIs DEF Iterators
<1>10. iter.config => ~it.pushed
  BY <1>2, <1>9, SettledIs
<1> HIDE DEF it
<1> QED
  BY <1>1, <1>2, <1>6, <1>7, <1>8, <1>9, <1>10, LeftWalks

LEMMA StepUpWalks ==
  ASSUME NEW level \in Layers, IInv(level), StepUp
  PROVE  Walked(level)
<1>1. Stepping /\ iter' = Settled /\ config' = Left /\ tree' = tree /\ call'.op = "up"
      /\ UNCHANGED <<kept, pc, eof, step, arg>>
  BY WalkingIs DEF StepUp, GoOn, Call
<1>2. Tree(tree', level)
  BY <1>1, SteppingIs
<1> QED
  BY <1>1, <1>2, SettledWalks

LEMMA UpEndsWalks ==
  ASSUME NEW level \in Layers, IInv(level), UpEnds
  PROVE  Walked(level)
<1>1. call.op # "none" /\ iter' = [iter EXCEPT !.file = -1] /\ tree' = tree /\ config' = config
      /\ call'.op = "none" /\ UNCHANGED <<kept, pc, eof, step, arg>>
  BY WalkingIs DEF UpEnds, Return, NoCall
<1>2. Standing(iter, level) /\ iter \in Iterators /\ Stacked(config)
      /\ (iter.config => Opened(config, iter)) /\ Tree(tree, level)
  BY <1>1, CallIs
<1> DEFINE m == -1
<1>3. m \in Int
  OBVIOUS
<1> HIDE DEF m
<1>4. [iter EXCEPT !.file = m] \in Iterators
  BY <1>2, <1>3, IterExcept
<1>5. iter' \in Iterators
  BY <1>1, <1>4 DEF m
<1>6. /\ iter'.file = -1 /\ iter'.num = iter.num /\ iter'.stack = iter.stack /\ iter'.tree = iter.tree
      /\ iter'.config = iter.config /\ iter'.pushed = iter.pushed
  BY <1>1, <1>2 DEF Iterators
<1>7. Standing(iter', level)
  <2>1. -1 \in -1 .. iter.num - 1
    BY <1>2, IterFields
  <2> QED
    BY <1>2, <1>5, <1>6, <2>1 DEF Standing
<1>8. IF iter.config THEN Opened(config', iter') ELSE config' = config
  BY <1>1, <1>2, <1>6 DEF Opened
<1> QED
  BY <1>1, <1>2, <1>6, <1>7, <1>8 DEF Walked, ScopeStep

\* Up leaves a group: there is a loop count for it, and a level.
LEMMA UpGoesWalks ==
  ASSUME NEW level \in Layers, IInv(level), UpGoes
  PROVE  Walked(level)
<1> DEFINE p == Parent(tree, iter.tree)
           l == Last(iter.stack)   f == Front(iter.stack)   m == -1
           it1 == [iter EXCEPT !.file = m]   it2 == [it1 EXCEPT !.tree = p]
           it3 == [it2 EXCEPT !.loop = l]   it == [it3 EXCEPT !.stack = f]
<1>1. /\ call.op # "none" /\ p # None /\ call'.op = "step"
      /\ iter' = [iter EXCEPT !.file = -1, !.tree = p, !.loop = l, !.stack = f]
      /\ config' = IF iter.config THEN PopConfig(config) ELSE config
      /\ tree' = [tree EXCEPT !.played = IF iter.config /\ iter.random THEN tree.played \cup {p} ELSE tree.played]
      /\ UNCHANGED <<kept, pc, eof, step, arg>>
  BY WalkingIs DEF UpGoes, GoOn, Call, Here
<1>2. Standing(iter, level) /\ iter \in Iterators /\ Stacked(config)
      /\ (iter.config => Opened(config, iter)) /\ Tree(tree, level)
  BY <1>1, CallIs
<1>3. p \in Nodes /\ iter.tree \in Nodes /\ level[iter.tree] = level[p] + 1
  BY <1>1, <1>2, ParentIs
<1>4. Len(iter.stack) >= 1 /\ level[p] \in Nat /\ level[p] + 1 <= Len(iter.stack)
      /\ iter.stack \in Seq(Int) /\ Len(iter.stack) \in Nat
  <2>1. level[iter.tree] <= Len(iter.stack)
    BY <1>2, <1>3, PlayTreeAssumption DEF Standing
  <2>2. level[p] \in Nat /\ iter.stack \in Seq(Int) /\ Len(iter.stack) \in Nat
    BY <1>2, <1>3, IterFields DEF Layers
  <2> QED
    BY <1>3, <2>1, <2>2
<1>5. l \in Int /\ f \in Seq(Int) /\ Len(f) = Len(iter.stack) - 1 /\ m \in Int
  BY <1>4 DEF Last, Front
<1>6. iter' = it
  BY <1>1
<1> HIDE DEF p, l, f, m
<1>7. it \in Iterators
  <2>1. it1 \in Iterators
    BY <1>2, <1>5, IterExcept
  <2> HIDE DEF it1
  <2>2. it2 \in Iterators
    BY <1>3, <2>1, IterExcept
  <2> HIDE DEF it2
  <2>3. it3 \in Iterators
    BY <1>5, <2>2, IterExcept
  <2> HIDE DEF it3
  <2> QED
    BY <1>5, <2>3, IterExcept
<1>8. /\ it.tree = p /\ it.file = m /\ it.num = iter.num /\ it.stack = f /\ it.config = iter.config
      /\ it.pushed = iter.pushed
  BY <1>2 DEF Iterators
<1> HIDE DEF it
<1>9. Standing(iter', level)
  <2>1. m \in -1 .. it.num - 1
    BY <1>2, <1>8, IterFields DEF m
  <2>2. level[p] <= Len(f)
    BY <1>4, <1>5
  <2> QED
    BY <1>6, <1>7, <1>8, <2>1, <2>2 DEF Standing
<1>10. Tree(tree', level)
  <2> DEFINE x == IF iter.config /\ iter.random THEN tree.played \cup {p} ELSE tree.played
  <2>1. x \in SUBSET Nodes
    BY <1>2, <1>3, TreeFields
  <2>2. tree' = [tree EXCEPT !.played = x]
    BY <1>1
  <2> HIDE DEF x
  <2> QED
    BY <1>2, <2>1, <2>2, TreeExcept
<1>11. CASE iter.config
  <2>1. config' = PopConfig(config) /\ Opened(config, iter) /\ config.lvl \in Nat
    BY <1>1, <1>2, <1>11, StackedIs
  <2>2. config.lvl > 1
    <3>1. config.lvl >= 1 + Len(iter.stack)
      BY <1>4, <2>1, OpenedIs
    <3> QED
      BY <1>4, <2>1, <3>1
  <2>3. Stacked(config') /\ config'.lvl = config.lvl - 1
    BY <1>2, <2>1, <2>2, PopIs
  <2>4. Len(Levels(config)) > 1 /\ Levels(config') = Front(Levels(config))
    BY <1>2, <2>1, <2>2, PopLeaves
  <2>5. Opened(config', it)
    <3>1. config'.lvl \in Nat /\ Len(it.stack) \in Nat /\ Len(it.stack) = Len(iter.stack) - 1
      BY <1>4, <1>5, <1>8, <2>1, <2>2, <2>3
    <3>2. CASE ~it.pushed
      <4>1. config.lvl >= 1 + Len(iter.stack)
        BY <1>4, <2>1, OpenedIs
      <4>2. config'.lvl >= 1 + Len(it.stack)
        BY <1>4, <2>1, <2>3, <3>1, <4>1
      <4> QED
        BY <3>1, <3>2, <4>2, OpenedIs
    <3>3. CASE it.pushed
      <4>1. config.lvl >= 2 + Len(iter.stack)
        BY <1>4, <1>8, <2>1, <3>3, OpenedIs
      <4>2. config'.lvl >= 2 + Len(it.stack)
        BY <1>4, <2>1, <2>3, <3>1, <4>1
      <4> QED
        BY <3>1, <3>3, <4>2, OpenedIs
    <3> QED
      BY <3>2, <3>3
  <2> QED
    BY <1>1, <1>6, <1>8, <1>9, <1>10, <1>11, <2>3, <2>4, <2>5 DEF Walked, ScopeStep
<1>12. CASE ~iter.config
  BY <1>1, <1>2, <1>6, <1>8, <1>9, <1>10, <1>12 DEF Walked, ScopeStep
<1> QED
  BY <1>11, <1>12

LEMMA DownStepWalks ==
  ASSUME NEW level \in Layers, IInv(level), DownStep
  PROVE  Walked(level)
<1> DEFINE g == iter.tree
           n == IF call.d >= 0 THEN Head(tree.kids[g]) ELSE Last(tree.kids[g])
           l == tree.loop[g] - 1   s == Append(iter.stack, iter.loop)   m == -1
           it1 == [iter EXCEPT !.file = m]   it2 == [it1 EXCEPT !.stack = s]
           it3 == [it2 EXCEPT !.loop = l]   it == [it3 EXCEPT !.tree = n]
<1>1. /\ call.op = "down" /\ call'.op = "step" /\ tree' = tree
      /\ config' = IF iter.config THEN Pushed(config, g) ELSE config
      /\ UNCHANGED <<kept, pc, eof, step, arg>>
  BY WalkingIs DEF DownStep, GoOn, Call, Here
<1>2. iter' = [iter EXCEPT !.file = -1, !.stack = s, !.loop = l, !.tree = n]
  BY DEF DownStep, Here
<1>3. Standing(iter, level) /\ iter \in Iterators /\ Stacked(config)
      /\ (iter.config => Opened(config, iter)) /\ Tree(tree, level)
  BY <1>1, CallIs
<1>4. g \in Nodes /\ tree.kids[g] # << >>
  BY <1>1 DEF IInv, CallInv
<1>5. /\ tree.params[g] \in Params /\ tree.loop[g] \in Int /\ tree.kids[g] \in Seq(Nodes)
      /\ \A k \in Range(tree.kids[g]) : k \in Nodes /\ level[k] = level[g] + 1
  BY <1>3, <1>4, TreeFields
<1>6. n \in Nodes /\ level[n] = level[g] + 1
  <2>1. Head(tree.kids[g]) \in Range(tree.kids[g]) /\ Last(tree.kids[g]) \in Range(tree.kids[g])
    BY <1>4, <1>5, EndsAre
  <2>2. n \in Range(tree.kids[g])
    BY <2>1
  <2> HIDE DEF n
  <2> QED
    BY <1>5, <2>2
<1>7. level[g] \in Nat /\ level[g] <= Len(iter.stack) /\ iter.stack \in Seq(Int) /\ iter.loop \in Int
      /\ Len(iter.stack) \in Nat
  BY <1>3, <1>4, IterFields, PlayTreeAssumption DEF Standing, Layers
<1>8. l \in Int /\ s \in Seq(Int) /\ Len(s) = Len(iter.stack) + 1 /\ m \in Int
  BY <1>5, <1>7
<1>9. iter' = it
  BY <1>2
<1> HIDE DEF n, l, s, m, g
<1>10. it \in Iterators
  <2>1. it1 \in Iterators
    BY <1>3, <1>8, IterExcept
  <2> HIDE DEF it1
  <2>2. it2 \in Iterators
    BY <1>8, <2>1, IterExcept
  <2> HIDE DEF it2
  <2>3. it3 \in Iterators
    BY <1>8, <2>2, IterExcept
  <2> HIDE DEF it3
  <2> QED
    BY <1>6, <2>3, IterExcept
<1>11. /\ it.tree = n /\ it.file = m /\ it.num = iter.num /\ it.stack = s /\ it.config = iter.config
       /\ it.pushed = iter.pushed
  BY <1>3 DEF Iterators
<1> HIDE DEF it
<1>12. Standing(iter', level)
  <2>1. m \in -1 .. it.num - 1
    BY <1>3, <1>11, IterFields DEF m
  <2>2. level[n] <= Len(s)
    BY <1>6, <1>7, <1>8
  <2> QED
    BY <1>9, <1>10, <1>11, <2>1, <2>2 DEF Standing
<1>13. Tree(tree', level)
  BY <1>1, <1>3
<1>14. CASE iter.config
  <2>1. config' = SetOptions(PushConfig(config), tree.params[g]) /\ Opened(config, iter)
    BY <1>1, <1>3, <1>14 DEF Pushed
  <2>2. Stacked(config') /\ config'.lvl = config.lvl + 1
        /\ \E e \in Scope : Levels(config') = Append(Levels(config), e)
    BY <1>3, <1>5, <2>1, PushEnters
  <2>3. Opened(config', it)
    <3>1. config.lvl \in Nat /\ config'.lvl \in Nat /\ Len(it.stack) \in Nat /\ Len(it.stack) = Len(iter.stack) + 1
      BY <1>3, <1>7, <1>8, <1>11, <2>2, StackedIs
    <3>2. CASE ~it.pushed
      <4>1. config.lvl >= 1 + Len(iter.stack)
        BY <1>7, <2>1, <3>1, OpenedIs
      <4>2. config'.lvl >= 1 + Len(it.stack)
        BY <1>7, <2>2, <3>1, <4>1
      <4> QED
        BY <3>1, <3>2, <4>2, OpenedIs
    <3>3. CASE it.pushed
      <4>1. config.lvl >= 2 + Len(iter.stack)
        BY <1>7, <1>11, <2>1, <3>1, <3>3, OpenedIs
      <4>2. config'.lvl >= 2 + Len(it.stack)
        BY <1>7, <2>2, <3>1, <4>1
      <4> QED
        BY <3>1, <3>3, <4>2, OpenedIs
    <3> QED
      BY <3>2, <3>3
  <2> QED
    BY <1>1, <1>9, <1>11, <1>12, <1>13, <1>14, <2>2, <2>3 DEF Walked, ScopeStep
<1>15. CASE ~iter.config
  BY <1>1, <1>3, <1>9, <1>11, <1>12, <1>13, <1>15 DEF Walked, ScopeStep
<1> QED
  BY <1>14, <1>15

LEMMA IterateWalks ==
  ASSUME NEW level \in Layers, IInv(level), Iterate
  PROVE  Walked(level) /\ call.op # "none"
<1>1. call.op # "none"
  BY DEF Iterate, StepRoot, StepNode, StepEntry, StepInvalid, StepRound, StepLoop, StepUp, Stepping,
         UpEnds, UpGoes, DownStep
<1>2. Walked(level)
  BY StepRootWalks, StepNodeWalks, StepEntryWalks, StepInvalidWalks, StepRoundWalks, StepLoopWalks,
     StepUpWalks, UpEndsWalks, UpGoesWalks, DownStepWalks DEF Iterate
<1> QED
  BY <1>1, <1>2

-----------------------------------------------------------------------------
(* What main does between the functions of playtree.c. *)

LEMMA PlaceIs ==
  ASSUME NEW level \in Layers, IInv(level)
  PROVE  /\ pc \notin Asking => call.op = "none"
         /\ pc \notin {"file", "idle", "over"} => iter # None
         /\ iter # None => iter \in Iterators /\ Standing(iter, level)
         /\ Tree(tree, level) /\ Stacked(config) /\ eof \in -3 .. 4 /\ step \in {-1, 1, 2}
         /\ pc \in {"unwind", "head"} => arg \in Fresh \cup {"stop"}
BY DEF IInv, IterInv, ConfigInv, CallInv, Standing

LEMMA Stays ==
  ASSUME NEW level \in Layers, IInv(level), pc # "asked", pc' # "asked",
         Tree(tree', level), kept' = kept, config' = config,
         \/ iter' = iter \/ iter' = None
         \/ /\ iter # None /\ Standing(iter', level) /\ (iter'.config <=> iter.config)
            /\ iter'.stack = iter.stack /\ iter'.pushed = iter.pushed,
         iter' = None => pc' \in {"file", "idle", "over"},
         call'.op # "none" => pc' \in Asking /\ call'.op # "down",
         pc' \in {"unwind", "head"} => arg' \in Fresh \cup {"stop"},
         eof' \in -3 .. 4, step' \in {-1, 1, 2}
  PROVE  IInv(level)'
<1>1. kept = None /\ kept' = None
  BY DEF IInv, CallInv
<1>2. Tree(tree, level)'
  BY DEF Tree, Layered
<1>3. iter # None => Standing(iter, level) /\ iter.config /\ Opened(config, iter)
  BY DEF IInv, IterInv, ConfigInv
<1>4. Stacked(config')
  BY DEF IInv, ConfigInv
<1>5. iter' = None \/ (Standing(iter', level) /\ iter'.config /\ Opened(config', iter'))
  <2>1. CASE iter' = iter
    BY <1>3, <2>1
  <2>2. CASE /\ iter # None /\ Standing(iter', level) /\ (iter'.config <=> iter.config)
             /\ iter'.stack = iter.stack /\ iter'.pushed = iter.pushed
    <3>1. Opened(config', iter')
      BY <1>3, <2>2 DEF Opened
    <3> QED
      BY <1>3, <2>2, <3>1
  <2> QED
    BY <2>1, <2>2
<1>6. IterInv(level)'
  BY <1>1, <1>5 DEF IterInv, Standing
<1>7. ConfigInv'
  BY <1>1, <1>4, <1>5 DEF ConfigInv, Opened, Stacked
<1>8. CallInv'
  BY <1>1 DEF CallInv
<1> QED
  BY <1>2, <1>6, <1>7, <1>8 DEF IInv

LEMMA LeaveKeeps ==
  ASSUME NEW level \in Layers, IInv(level),
         LeaveByStep \/ LeaveByUp \/ LeaveBySource \/ LeaveStopped
  PROVE  IInv(level)' /\ config' = config
<1>1. pc = "leave" /\ call.op = "none" /\ iter # None /\ Tree(tree, level) /\ eof \in -3 .. 4 /\ step \in {-1, 1, 2}
  BY PlaceIs DEF LeaveByStep, LeaveByUp, LeaveBySource, LeaveStopped, Asking
<1>2. tree' = tree /\ kept' = kept /\ config' = config /\ step' = step
  BY DEF LeaveByStep, LeaveByUp, LeaveBySource, LeaveStopped, world
<1>3. eof' \in -3 .. 4
  <2>1. eof' = eof \/ eof' = 1 \/ eof' = -1
    BY DEF LeaveByStep, LeaveByUp, LeaveBySource, LeaveStopped
  <2> QED
    BY <1>1, <2>1
<1>4. (iter' = iter /\ pc' \in {"next", "file"}) \/ (iter' = None /\ pc' = "file")
  BY DEF LeaveByStep, LeaveByUp, LeaveBySource, LeaveStopped, world
<1>5. (call' = call) \/ (pc' = "next" /\ call'.op \in {"step", "up"})
  BY DEF LeaveByStep, LeaveByUp, LeaveBySource, LeaveStopped, Call
<1> QED
  BY <1>1, <1>2, <1>3, <1>4, <1>5, Stays DEF Asking

LEMMA NextKeeps ==
  ASSUME NEW level \in Layers, IInv(level), NextReturned \/ AgainReturned
  PROVE  IInv(level)' /\ config' = config
<1>1. pc \in {"first", "next", "again"} /\ call.op = "none" /\ iter # None /\ Tree(tree, level)
      /\ eof \in -3 .. 4 /\ step \in {-1, 1, 2}
  BY PlaceIs DEF NextReturned, AgainReturned, Returned
<1>2. tree' = tree /\ kept' = kept /\ config' = config /\ call' = call /\ pc' = "file"
  BY DEF NextReturned, AgainReturned
<1>3. eof' \in -3 .. 4 /\ step' \in {-1, 1, 2}
  BY <1>1 DEF NextReturned, AgainReturned
<1>4. iter' = iter \/ iter' = None
  BY DEF NextReturned, AgainReturned, KeepIfEntry
<1> QED
  BY <1>1, <1>2, <1>3, <1>4, Stays

LEMMA GetFileKeeps ==
  ASSUME NEW level \in Layers, IInv(level), GetFile
  PROVE  IInv(level)' /\ config' = config
<1>1. /\ pc = "file" /\ iter # None /\ ~Refused /\ iter' = [iter EXCEPT !.file = NextFile]
      /\ pc' = "play" /\ eof' = 0 /\ tree' = tree /\ kept' = kept /\ config' = config
      /\ call' = call /\ step' = step /\ arg' = arg
  BY DEF GetFile
<1>2. iter \in Iterators /\ Standing(iter, level) /\ Tree(tree, level) /\ eof \in -3 .. 4
      /\ step \in {-1, 1, 2} /\ call.op = "none"
  BY <1>1, PlaceIs DEF Asking
<1>3. NextFile \in Int /\ NextFile \in -1 .. iter.num - 1 \cup {0}
  <2>1. iter.num \in Nat /\ iter.file \in Int /\ iter.file < iter.num - 1 /\ iter.file >= -1
    BY <1>1, <1>2, IterFields DEF Refused
  <2>2. CASE eof > 0
    BY <2>1, <2>2 DEF NextFile
  <2>3. CASE ~(eof > 0) /\ iter.file <= 0
    BY <2>1, <2>3 DEF NextFile
  <2>4. CASE ~(eof > 0) /\ ~(iter.file <= 0)
    BY <2>1, <2>4 DEF NextFile
  <2> QED
    BY <2>2, <2>3, <2>4
<1>4. iter' \in Iterators
  BY <1>1, <1>2, <1>3, IterExcept
<1>5. /\ iter'.file = NextFile /\ iter'.num = iter.num /\ iter'.stack = iter.stack /\ iter'.tree = iter.tree
      /\ iter'.config = iter.config /\ iter'.pushed = iter.pushed
  BY <1>1, <1>2 DEF Iterators
<1>6. Standing(iter', level) /\ iter' # None
  BY <1>2, <1>3, <1>4, <1>5, PlayTreeAssumption DEF Standing
<1>7. eof' \in -3 .. 4
  BY <1>1
<1> QED
  BY <1>1, <1>2, <1>5, <1>6, <1>7, Stays

LEMMA FileKeeps ==
  ASSUME NEW level \in Layers, IInv(level), NoMoreFiles \/ NoMoreEntries \/ FileEnds \/ HeadReturned
  PROVE  IInv(level)' /\ config' = config
<1>1. /\ pc \in {"file", "play", "head"} /\ call.op = "none" /\ Tree(tree, level)
      /\ eof \in -3 .. 4 /\ step \in {-1, 1, 2}
  BY PlaceIs DEF NoMoreFiles, NoMoreEntries, FileEnds, HeadReturned, Playing, Returned, Asking
<1>2. tree' = tree /\ kept' = kept /\ config' = config /\ iter' = iter /\ step' = step
  BY DEF NoMoreFiles, NoMoreEntries, FileEnds, HeadReturned, world
<1>3. eof' \in -3 .. 4
  <2>1. eof' = eof \/ eof' = 0 \/ eof' = 1 \/ eof' = 2
    BY DEF NoMoreFiles, NoMoreEntries, FileEnds, HeadReturned, Leave
  <2> QED
    BY <1>1, <2>1
<1>4. pc' \in {"again", "idle", "over", "leave"} /\ (iter = None => pc' \in {"idle", "over"})
  <2>1. CASE NoMoreFiles
    BY <2>1 DEF NoMoreFiles
  <2>2. CASE NoMoreEntries
    BY <2>2 DEF NoMoreEntries
  <2>3. CASE FileEnds
    BY <2>3, PlaceIs DEF FileEnds, Playing, Leave
  <2>4. CASE HeadReturned
    BY <2>4, PlaceIs DEF HeadReturned, Returned, Leave
  <2> QED
    BY <2>1, <2>2, <2>3, <2>4
<1>5. (call' = call) \/ (pc' = "again" /\ call'.op = "step")
  BY DEF NoMoreFiles, NoMoreEntries, FileEnds, HeadReturned, Call
<1> QED
  BY <1>1, <1>2, <1>3, <1>4, <1>5, Stays DEF Asking

\* A play list: its contents stand where it stood, with its options.
LEMMA OpenListKeeps ==
  ASSUME NEW level \in Layers, IInv(level), OpenList
  PROVE  IInv(level)' /\ config' = config
<1> DEFINE g == iter.tree   new == Contents[g]   t == InsertAfter(tree, g, new)
           x == t.params[new] \o tree.params[g]   params == [t.params EXCEPT ![new] = x]
<1>1. /\ pc = "play" /\ g \in Lists /\ iter' = iter /\ kept' = kept /\ config' = config /\ eof' = eof /\ step' = step
      /\ pc' = "list" /\ call'.op = "step"
      /\ tree' = IF new = None THEN tree ELSE [t EXCEPT !.params[new] = x]
  BY DEF OpenList, Here, Call
<1>2. iter # None /\ Tree(tree, level) /\ eof \in -3 .. 4 /\ step \in {-1, 1, 2}
  BY <1>1, PlaceIs
<1>3. Tree(tree', level)
  <2>1. CASE new = None
    BY <1>1, <1>2, <2>1
  <2>2. CASE new # None
    <3>1. g \in Nodes /\ new \in Nodes /\ level[new] = level[g]
      <4>1. g \in Lists
        BY <1>1
      <4> HIDE DEF g
      <4>2. g \in Nodes /\ Contents[g] \in Nodes \cup {None}
        BY <4>1, PlayTreeAssumption
      <4>3. Contents[g] # None => level[Contents[g]] = level[g]
        BY <1>2, <4>1 DEF Tree, Layered
      <4> QED
        BY <2>2, <4>2, <4>3
    <3> HIDE DEF g, new
    <3>2. Tree(t, level)
      BY <1>2, <3>1, InsertAfterIs
    <3> HIDE DEF t
    <3>3. t.params \in [Nodes -> Params] /\ t.params[new] \in Params /\ tree.params[g] \in Params
      BY <1>2, <3>1, <3>2, TreeFields
    <3>4. x \in Params
      BY <3>3 DEF Params
    <3>5. tree' = [t EXCEPT !.params[new] = x]
      BY <1>1, <2>2
    <3> HIDE DEF x
    <3>6. params \in [Nodes -> Params] /\ [t EXCEPT !.params[new] = x] = [t EXCEPT !.params = params]
      BY <3>3, <3>4
    <3> HIDE DEF params
    <3>7. Tree([t EXCEPT !.params = params], level)
      BY <3>2, <3>6, TreeExcept
    <3> QED
      BY <3>5, <3>6, <3>7
  <2> QED
    BY <2>1, <2>2
<1> HIDE DEF g, new, t, x, params
<1> QED
  BY <1>1, <1>2, <1>3, Stays DEF Asking

LEMMA ListKeeps ==
  ASSUME NEW level \in Layers, IInv(level), ListReturned \/ ListUpReturned
  PROVE  IInv(level)' /\ config' = config
<1>1. pc \in {"list", "listup"} /\ call.op = "none" /\ iter # None /\ Tree(tree, level)
      /\ eof \in -3 .. 4 /\ step \in {-1, 1, 2}
  BY PlaceIs DEF ListReturned, ListUpReturned, Returned
<1>2. iter' = iter /\ kept' = kept /\ config' = config /\ step' = step /\ arg' = arg
  BY DEF ListReturned, ListUpReturned
<1>3. tree' = tree \/ tree' = Removed(tree, arg)
  BY DEF ListReturned, ListUpReturned
<1>4. Tree(tree', level)
  BY <1>1, <1>3, RemovedIs
<1>5. eof' \in -3 .. 4 /\ pc' \in {"leave", "listup"}
  <2>1. /\ eof' = eof \/ eof' = 1 \/ eof' = 2
        /\ pc' = "leave" \/ pc' = "listup"
    BY DEF ListReturned, ListUpReturned, Leave
  <2> QED
    BY <1>1, <2>1
<1>6. call' = call \/ (pc' = "listup" /\ call'.op = "up")
  BY DEF ListReturned, ListUpReturned, Call
<1> QED
  BY <1>1, <1>2, <1>4, <1>5, <1>6, Stays DEF Asking

LEMMA OnlyChildIs ==
  ASSUME NEW level \in Layers, Tree(tree, level), NEW n \in Fresh, OnlyChild(n)
  PROVE  Tree(tree', level)
<1>1. n \in Nodes
  BY PlayTreeAssumption
<1> DEFINE t == Clean(tree, n)
<1>2. Tree(t, level)
  BY <1>1, CleanIs
<1>3. tree' = [t EXCEPT !.kids[Root] = <<n>>]
  BY DEF OnlyChild
<1> HIDE DEF t
<1> QED
  BY <1>2, <1>3, AppendToIs

LEMMA UnwindKeeps ==
  ASSUME NEW level \in Layers, IInv(level), UnwindReturned
  PROVE  IInv(level)' /\ config' = config
<1>1. pc = "unwind" /\ call.op = "none" /\ iter # None /\ iter \in Iterators /\ Standing(iter, level)
      /\ Tree(tree, level) /\ eof \in -3 .. 4 /\ step \in {-1, 1, 2} /\ arg \in Fresh \cup {"stop"}
  BY PlaceIs DEF UnwindReturned, Returned
<1>2. kept' = kept /\ config' = config /\ step' = step
  BY DEF UnwindReturned
<1>3. CASE iter' = iter
  <2>1. \/ tree' = tree /\ pc' = pc /\ eof' = eof /\ arg' = arg /\ call'.op = "up"
        \/ tree' = tree /\ pc' = "leave" /\ eof' = 4 /\ call' = call
        \/ arg # "stop" /\ OnlyChild(arg) /\ pc' = "head" /\ eof' = eof /\ arg' = arg /\ call'.op = "step"
    BY DEF UnwindReturned, Call, Leave
  <2>2. Tree(tree', level)
    BY <1>1, <2>1, OnlyChildIs
  <2>3. eof' \in -3 .. 4 /\ pc' \in {"unwind", "leave", "head"}
    BY <1>1, <2>1
  <2>4. pc' \in {"unwind", "head"} => arg' \in Fresh \cup {"stop"}
    BY <1>1, <2>1
  <2>5. call'.op # "none" => pc' \in Asking /\ call'.op # "down"
    BY <1>1, <2>1 DEF Asking
  <2> QED
    BY <1>1, <1>2, <1>3, <2>2, <2>3, <2>4, <2>5, Stays
<1>4. CASE iter' # iter
  <2>1. /\ arg # "stop" /\ OnlyChild(arg) /\ pc' = "head" /\ eof' = eof /\ arg' = arg /\ call'.op = "step"
        /\ iter' = [iter EXCEPT !.tree = Root]
    BY <1>4 DEF UnwindReturned, Call, Leave
  <2>2. Tree(tree', level)
    BY <1>1, <2>1, OnlyChildIs
  <2>3. Root \in Nodes /\ level[Root] = 0
    BY <1>1, TreeFields
  <2>4. iter' \in Iterators
    BY <1>1, <2>1, <2>3, IterExcept
  <2>5. /\ iter'.file = iter.file /\ iter'.num = iter.num /\ iter'.stack = iter.stack /\ iter'.tree = Root
        /\ iter'.config = iter.config /\ iter'.pushed = iter.pushed
    BY <1>1, <2>1 DEF Iterators
  <2>6. Standing(iter', level) /\ iter' # None
    BY <1>1, <2>3, <2>4, <2>5, IterFields, PlayTreeAssumption DEF Standing
  <2>7. eof' \in -3 .. 4 /\ arg' \in Fresh \cup {"stop"}
    BY <1>1, <2>1
  <2> QED
    BY <1>1, <1>2, <2>1, <2>2, <2>5, <2>6, <2>7, Stays DEF Asking
<1> QED
  BY <1>3, <1>4

-----------------------------------------------------------------------------
(* Commands. *)

\* A question is asked on a copy that has no configuration.
LEMMA TryKeeps ==
  ASSUME NEW level \in Layers, IInv(level), pc = "play", tree' = tree, config' = config,
         NEW op \in {"step", "up"}, NEW n, NEW e \in {-3, -1, 1, 3}, NEW by \in {-1, 1, 2},
         Try(op, n, e, by)
  PROVE  IInv(level)'
<1>1. /\ kept' = iter /\ iter' = [iter EXCEPT !.config = FALSE] /\ pc' = "asked"
      /\ arg' = [eof |-> e, step |-> by] /\ call'.op = op /\ eof' = eof /\ step' = step
  BY DEF Try, Call
<1>2. iter # None /\ iter \in Iterators /\ Standing(iter, level) /\ Tree(tree, level)
      /\ eof \in -3 .. 4 /\ step \in {-1, 1, 2} /\ Stacked(config)
  BY PlaceIs
<1>3. iter.config /\ Opened(config, iter)
  BY <1>2 DEF IInv, IterInv, ConfigInv
<1>4. iter' \in Iterators
  BY <1>1, <1>2, IterExcept
<1>5. /\ iter'.file = iter.file /\ iter'.num = iter.num /\ iter'.stack = iter.stack /\ iter'.tree = iter.tree
      /\ iter'.config = FALSE
  BY <1>1, <1>2 DEF Iterators
<1>6. Standing(iter', level) /\ iter' # None
  BY <1>2, <1>4, <1>5, PlayTreeAssumption DEF Standing
<1>7. IterInv(level)'
  BY <1>1, <1>2, <1>3, <1>5, <1>6 DEF IterInv, Standing
<1>8. ConfigInv'
  BY <1>1, <1>2, <1>3, <1>5 DEF ConfigInv, Opened, Stacked
<1>9. CallInv'
  <2>1. arg'.eof = e /\ arg'.step = by
    BY <1>1
  <2>2. call'.op # "down" /\ "asked" \in Asking
    BY <1>1 DEF Asking
  <2> QED
    BY <1>1, <1>2, <1>6, <2>1, <2>2 DEF CallInv
<1>10. Tree(tree, level)'
  BY <1>2 DEF Tree, Layered
<1> QED
  BY <1>7, <1>8, <1>9, <1>10 DEF IInv

LEMMA ForcedKeeps ==
  ASSUME NEW level \in Layers, IInv(level), pc = "play", tree' = tree, config' = config,
         NEW e \in -3 .. 4, NEW by \in {-1, 1, 2}, Forced(e, by)
  PROVE  IInv(level)'
<1>1. iter' = iter /\ kept' = kept /\ pc' = "leave" /\ eof' = e /\ step' = by /\ call' = call
  BY DEF Forced, Leave
<1>2. iter # None /\ Tree(tree, level) /\ call.op = "none"
  BY PlaceIs DEF Asking
<1> QED
  BY <1>1, <1>2, Stays

LEMMA StepByKeeps ==
  ASSUME NEW level \in Layers, IInv(level), StepBy
  PROVE  IInv(level)' /\ config' = config
<1>1. pc = "play" /\ tree' = tree /\ config' = config
  BY DEF StepBy, Playing
<1>2. PICK n \in {-1, 1, 2} : Try("step", n, IF n > 0 THEN 1 ELSE -1, n) \/ Forced(IF n > 0 THEN 1 ELSE -1, n)
  BY DEF StepBy
<1> DEFINE e == IF n > 0 THEN 1 ELSE -1
<1>3. e \in {-3, -1, 1, 3} /\ e \in -3 .. 4
  <2>1. e = 1 \/ e = -1
    OBVIOUS
  <2> HIDE DEF e
  <2> QED
    BY <2>1
<1>4. Try("step", n, e, n) \/ Forced(e, n)
  BY <1>2
<1> HIDE DEF e
<1> QED
  BY <1>1, <1>3, <1>4, TryKeeps, ForcedKeeps

LEMMA UpStepKeeps ==
  ASSUME NEW level \in Layers, IInv(level), UpStep
  PROVE  IInv(level)' /\ config' = config
<1>1. pc = "play" /\ tree' = tree /\ config' = config
  BY DEF UpStep, Playing
<1>2. PICK n \in {-1, 1} : Try("up", n, 3 * n, step) \/ Forced(3 * n, step)
  BY DEF UpStep
<1> DEFINE e == 3 * n
<1>3. e \in {-3, -1, 1, 3} /\ e \in -3 .. 4
  <2>1. e = 3 \/ e = -3
    OBVIOUS
  <2> HIDE DEF e
  <2> QED
    BY <2>1
<1>4. Try("up", n, e, step) \/ Forced(e, step)
  BY <1>2
<1>5. step \in {-1, 1, 2}
  BY PlaceIs
<1> HIDE DEF e
<1> QED
  BY <1>1, <1>3, <1>4, <1>5, TryKeeps, ForcedKeeps

\* The iterator that was kept is as it was: the configuration did not change.
LEMMA TryReturnedKeeps ==
  ASSUME NEW level \in Layers, IInv(level), TryReturned
  PROVE  IInv(level)' /\ config' = config
<1>1. /\ pc = "asked" /\ call.op = "none" /\ iter' = kept /\ kept' = None /\ tree' = tree /\ config' = config
      /\ call' = call
  BY DEF TryReturned, Returned
<1>2. Tree(tree, level) /\ Stacked(config) /\ eof \in -3 .. 4 /\ step \in {-1, 1, 2}
  BY PlaceIs
<1>3. kept # None /\ arg.eof \in {-3, -1, 1, 3} /\ arg.step \in {-1, 1, 2}
  BY <1>1 DEF IInv, CallInv
<1>4. Standing(kept, level) /\ kept.config /\ Opened(config, kept)
  BY <1>3 DEF IInv, IterInv, ConfigInv
<1>5. pc' \in {"leave", "play"} /\ eof' \in -3 .. 4 /\ step' \in {-1, 1, 2}
  <2>1. /\ pc' \in {"leave", "play"}
        /\ eof' = arg.eof \/ eof' = eof
        /\ step' = arg.step \/ step' = step
    BY DEF TryReturned, Leave
  <2>2. arg.eof \in -3 .. 4
    BY <1>3
  <2> QED
    BY <1>2, <1>3, <2>1, <2>2
<1>6. IterInv(level)'
  BY <1>1, <1>3, <1>4, <1>5 DEF IterInv, Standing
<1>7. ConfigInv'
  BY <1>1, <1>2, <1>4 DEF ConfigInv, Opened, Stacked
<1>8. CallInv'
  BY <1>1, <1>3, <1>5 DEF CallInv
<1>9. Tree(tree, level)'
  BY <1>1, <1>2 DEF Tree, Layered
<1> QED
  BY <1>1, <1>6, <1>7, <1>8, <1>9 DEF IInv

LEMMA LoadKeeps ==
  ASSUME NEW level \in Layers, IInv(level), AltSource \/ LoadBehind \/ LoadInstead \/ Stop
  PROVE  IInv(level)' /\ config' = config
<1>1. pc = "play" /\ iter # None /\ call.op = "none" /\ Tree(tree, level) /\ eof \in -3 .. 4 /\ step \in {-1, 1, 2}
  BY PlaceIs DEF AltSource, LoadBehind, LoadInstead, Stop, Playing, Asking
<1>2. kept' = kept /\ config' = config /\ iter' = iter /\ step' = step
  BY DEF AltSource, LoadBehind, LoadInstead, Stop, Unwind, world
<1>3. CASE AltSource
  <2>1. tree' = tree /\ call' = call /\ pc' = "leave" /\ (eof' = 2 \/ eof' = -2)
    BY <1>3 DEF AltSource, Leave, world
  <2>2. eof' \in -3 .. 4
    BY <2>1
  <2> QED
    BY <1>1, <1>2, <2>1, <2>2, Stays
<1>4. CASE LoadBehind
  <2>1. call' = call /\ pc' = pc /\ eof' = eof
    BY <1>4 DEF LoadBehind
  <2>2. PICK n \in Fresh : tree' = AppendTo(Clean(tree, n), Root, n)
    BY <1>4 DEF LoadBehind, NewNodes
  <2>3. n \in Nodes
    BY PlayTreeAssumption
  <2>4. Tree(tree', level)
    BY <1>1, <2>2, <2>3, CleanIs, AppendToIs
  <2> QED
    BY <1>1, <1>2, <2>1, <2>4, Stays
<1>5. CASE LoadInstead \/ Stop
  <2>1. /\ tree' = tree /\ call'.op = "up" /\ pc' = "unwind" /\ eof' = eof
        /\ arg' = "stop" \/ arg' \in Fresh
    BY <1>5 DEF LoadInstead, Stop, Unwind, world, NewNodes, Call
  <2> QED
    BY <1>1, <1>2, <2>1, Stays DEF Asking
<1> QED
  BY <1>3, <1>4, <1>5

LEMMA NewIterIs ==
  ASSUME NEW level \in Layers, NEW c, Stacked(c)
  PROVE  Standing(NewIter, level) /\ NewIter.config /\ Opened(c, NewIter) /\ NewIter # None
<1>1. << >> \in Seq(Int) /\ 0 \in Nat /\ Len(<< >>) = 0
  OBVIOUS
<1>2. NewIter \in Iterators
  BY <1>1 DEF NewIter, Iterators
<1>3. NewIter.tree = None /\ NewIter.file = 0 /\ NewIter.stack = << >> /\ NewIter.config /\ ~NewIter.pushed
  BY DEF NewIter
<1>4. Opened(c, NewIter)
  <2>1. c.lvl \in Nat /\ c.lvl >= 1 + Len(NewIter.stack) /\ Len(NewIter.stack) \in Nat
    BY <1>1, <1>3, StackedIs
  <2> QED
    BY <1>3, <2>1, OpenedIs
<1>5. NewIter # None
  BY <1>2, PlayTreeAssumption
<1> QED
  BY <1>2, <1>3, <1>4, <1>5 DEF Standing

LEMMA LoadIdleKeeps ==
  ASSUME NEW level \in Layers, IInv(level), LoadIdle
  PROVE  IInv(level)' /\ config' = config
<1>1. /\ pc = "idle" /\ iter' = NewIter /\ kept' = kept /\ config' = config /\ call'.op = "step"
      /\ pc' = "first" /\ eof' = eof /\ step' = step
  BY DEF LoadIdle, Call
<1>2. PICK n \in Fresh : OnlyChild(n)
  BY DEF LoadIdle, NewNodes
<1>3. Tree(tree, level) /\ Stacked(config) /\ eof \in -3 .. 4 /\ step \in {-1, 1, 2}
  BY PlaceIs
<1>4. Tree(tree', level)
  BY <1>2, <1>3, OnlyChildIs
<1>5. kept' = None
  BY <1>1 DEF IInv, CallInv
<1>6. Standing(NewIter, level) /\ NewIter.config /\ Opened(config, NewIter) /\ NewIter # None
  BY <1>3, NewIterIs
<1>7. IterInv(level)'
  BY <1>1, <1>5, <1>6 DEF IterInv, Standing
<1>8. ConfigInv'
  BY <1>1, <1>3, <1>5, <1>6 DEF ConfigInv, Opened, Stacked
<1>9. CallInv'
  BY <1>1, <1>3, <1>5, <1>6 DEF CallInv, Asking
<1>10. Tree(tree, level)'
  BY <1>4 DEF Tree, Layered
<1> QED
  BY <1>1, <1>7, <1>8, <1>9, <1>10 DEF IInv

LEMMA ChangeKeeps ==
  ASSUME NEW level \in Layers, IInv(level), ChangeOption
  PROVE  IInv(level)' /\ ScopeStep(Levels(config), Levels(config'))
<1>1. PICK v \in Vars, x \in Values : config' = ChangeVar(config, v, x)
  BY DEF ChangeOption
<1>2. tree' = tree /\ iter' = iter /\ kept' = kept /\ call' = call /\ pc' = pc /\ eof' = eof /\ step' = step
      /\ arg' = arg
  BY DEF ChangeOption
<1>3. Stacked(config)
  BY PlaceIs
<1>4. Stacked(config') /\ config'.lvl = config.lvl
  BY <1>1, <1>3, ChangeIs
<1>5. \E e \in Scope : Levels(config') = Append(Front(Levels(config)), e)
  BY <1>1, <1>3, ChangeStays
<1>6. ConfigInv'
  BY <1>2, <1>4 DEF IInv, ConfigInv, Opened, Stacked
<1>7. Tree(tree, level)' /\ IterInv(level)' /\ CallInv'
  BY <1>2 DEF IInv, Tree, Layered, IterInv, CallInv, Standing
<1> QED
  BY <1>5, <1>6, <1>7 DEF IInv, ScopeStep

-----------------------------------------------------------------------------
(* Every step, and the theorems. *)

LEMMA NextKeepsIt ==
  ASSUME NEW level \in Layers, IInv(level), [Next]_vars
  PROVE  IInv(level)' /\ ScopeStep(Levels(config), Levels(config'))
<1>1. CASE Iterate
  BY <1>1, IterateWalks, WalkedKeeps
<1>2. CASE Main
  <2>1. IInv(level)' /\ config' = config
    BY <1>2, LeaveKeeps, NextKeeps, GetFileKeeps, FileKeeps, OpenListKeeps, ListKeeps, TryReturnedKeeps,
       UnwindKeeps DEF Main
  <2> QED
    BY <2>1 DEF ScopeStep
<1>3. CASE Command
  <2>1. CASE ChangeOption
    BY <2>1, ChangeKeeps
  <2>2. CASE ~ChangeOption
    <3>1. IInv(level)' /\ config' = config
      BY <1>3, <2>2, StepByKeeps, UpStepKeeps, LoadKeeps, LoadIdleKeeps DEF Command
    <3> QED
      BY <3>1 DEF ScopeStep
  <2> QED
    BY <2>1, <2>2
<1>4. CASE UNCHANGED vars
  <2>1. UNCHANGED <<tree, iter, kept, config, call, pc, eof, step, arg>>
    BY <1>4 DEF vars
  <2>2. Tree(tree, level)' /\ IterInv(level)' /\ CallInv'
    BY <2>1 DEF IInv, Tree, Layered, IterInv, CallInv, Standing
  <2>3. ConfigInv'
    BY <2>1 DEF IInv, ConfigInv, Opened, Stacked
  <2> QED
    BY <2>1, <2>2, <2>3 DEF IInv, ScopeStep
<1> QED
  BY <1>1, <1>2, <1>3, <1>4 DEF Next

\* Some levels fit the tree of the command line, and go on to fit it.
Inv == \E level \in Layers : IInv(level)

LEMMA InvInit == Init => Inv /\ Outer!Init
<1> SUFFICES ASSUME Init PROVE Inv /\ Outer!Init
  OBVIOUS
<1>1. PICK level \in Layers : Tree(tree, level)
  <2>1. /\ tree \in GivenTrees
        /\ \E deep \in 0 .. Cardinality(Nodes) : \E level \in [Nodes -> 0 .. deep] : Layered(tree, level)
    BY PlayTreeAssumption DEF Init
  <2>2. PICK deep \in 0 .. Cardinality(Nodes) : \E level \in [Nodes -> 0 .. deep] : Layered(tree, level)
    BY <2>1
  <2>3. PICK level \in [Nodes -> 0 .. deep] : Layered(tree, level)
    BY <2>2
  <2>4. deep \in Int
    BY FS_CardinalityType, PlayTreeAssumption
  <2>5. level \in Layers
    BY <2>4 DEF Layers
  <2> QED
    BY <2>1, <2>3, <2>5 DEF Tree
<1>2. config = NewConfig(Default) /\ Default \in [Vars -> Values]
  BY PlayTreeAssumption DEF Init
<1>3. Stacked(config) /\ config.lvl = 1
  <2> DEFINE old(v) == [lvl |-> 0, data |-> Default[v]]   new(v) == [lvl |-> 1, data |-> Default[v]]
             slots == [v \in Vars |-> <<old(v), new(v)>>]
  <2>1. config = [lvl |-> 1, slots |-> slots, value |-> Default]
    BY <1>2 DEF NewConfig
  <2>2. \A v \in Vars : old(v) \in Slots /\ new(v) \in Slots /\ old(v).lvl = 0 /\ new(v).lvl = 1
    BY <1>2 DEF Slots
  <2> HIDE DEF old, new
  <2>3. \A v \in Vars : /\ slots[v] \in Seq(Slots) /\ Len(slots[v]) = 2
                        /\ slots[v][1] = old(v) /\ slots[v][2] = new(v)
    BY <2>2
  <2>4. slots \in [Vars -> Seq(Slots)]
    BY <2>3
  <2> HIDE DEF slots
  <2>5. config \in Configs
    BY <1>2, <2>1, <2>4 DEF Configs
  <2>6. config.slots = slots /\ config.lvl = 1 /\ Saved \subseteq Vars
    BY <2>1, ConfigAssumption
  <2>7. ASSUME NEW v \in Saved, NEW i \in 1 .. 2 PROVE slots[v][i].lvl = i - 1
    BY <2>2, <2>3, <2>6
  <2> QED
    BY <2>3, <2>5, <2>6, <2>7 DEF Stacked
<1>4. Inv
  <2>1. Standing(NewIter, level) /\ NewIter.config /\ Opened(config, NewIter) /\ NewIter # None
    BY <1>3, NewIterIs
  <2>2. iter = NewIter /\ kept = None /\ pc = "first" /\ call.op = "step" /\ eof = 1 /\ step = 1
    BY DEF Init, NoCall
  <2>3. IterInv(level)
    BY <2>1, <2>2 DEF IterInv
  <2>4. ConfigInv
    BY <1>3, <2>1, <2>2 DEF ConfigInv
  <2>5. CallInv
    BY <2>1, <2>2 DEF CallInv, Asking
  <2> QED
    BY <1>1, <2>3, <2>4, <2>5 DEF Inv, IInv
<1>5. Outer!Init
  <2>1. Levels(config) \in Seq(Scope) /\ Len(Levels(config)) = 1
    BY <1>3, LevelsIs
  <2>2. Levels(config) = <<Levels(config)[1]>> /\ Levels(config)[1] \in Scope
    BY <2>1
  <2> QED
    BY <2>2 DEF Outer!Init, Outer!Env, Scope
<1> QED
  BY <1>4, <1>5

LEMMA InvNext ==
  ASSUME Inv, [Next]_vars
  PROVE  Inv' /\ [Outer!Next]_(Levels(config))
<1>1. PICK level \in Layers : IInv(level)
  BY DEF Inv
<1>2. IInv(level)' /\ ScopeStep(Levels(config), Levels(config'))
  BY <1>1, NextKeepsIt
<1>3. Inv'
  BY <1>2 DEF Inv
<1>4. Levels(config)' = Levels(config')
  OBVIOUS
<1>5. Outer!Front(Levels(config)) = Front(Levels(config))
  BY DEF Outer!Front, Front
<1>6. Outer!Next \/ Levels(config)' = Levels(config)
  <2>1. CASE Levels(config') = Levels(config)
    BY <1>4, <2>1
  <2>2. CASE \E e \in Scope : Levels(config') = Append(Levels(config), e)
    BY <1>4, <2>2 DEF Scope, Outer!Next, Outer!Enter, Outer!Env
  <2>3. CASE \E e \in Scope : Levels(config') = Append(Front(Levels(config)), e)
    BY <1>4, <1>5, <2>3 DEF Scope, Outer!Next, Outer!Change, Outer!Env
  <2>4. CASE Len(Levels(config)) > 1 /\ Levels(config') = Front(Levels(config))
    BY <1>4, <1>5, <2>4 DEF Outer!Next, Outer!Leave
  <2> QED
    BY <1>2, <2>1, <2>2, <2>3, <2>4 DEF ScopeStep
<1> QED
  BY <1>3, <1>6

LEMMA InvTypes == Inv => TypeOK
<1> SUFFICES ASSUME NEW level \in Layers, IInv(level) PROVE TypeOK
  BY DEF Inv
<1>1. tree \in GivenTrees /\ config \in Configs
  BY DEF IInv, Tree, ConfigInv, Stacked
<1>2. iter = None \/ (iter \in Iterators /\ iter.file \in -1 .. iter.num - 1 \cup {0})
  BY DEF IInv, IterInv, Standing
<1>3. call.op # "none" => iter # None
  BY CallIs
<1>4. (kept # None <=> pc = "asked") /\ eof \in -3 .. 4 /\ step \in {-1, 1, 2}
  BY DEF IInv, CallInv
<1> QED
  BY <1>1, <1>2, <1>3, <1>4 DEF TypeOK

(* The types of the list, the iterator and main (playtree.c:447-794, mplayer.c:4118-4180, command.c:2777-2960),
   whatever is played, stepped to, loaded or stopped. *)
THEOREM TypeCorrect == Spec => []TypeOK
<1>1. Inv /\ [Next]_vars => Inv'
  BY InvNext
<1> QED
  BY InvInit, InvTypes, <1>1, PTL DEF Spec

(* Every way through the list, with any loops, shuffles, play lists and commands,
   opens and closes the contexts of the configuration as nested scopes: a context
   that is left gives back what was before, and no pop goes below the first one
   (playtree.c:447-763 over m_config.c:231-303). *)
THEOREM OptionsScoped == Spec => OptionsAreScoped
<1>1. Inv /\ [Next]_vars => Inv' /\ [Outer!Next]_(Levels(config))
  BY InvNext
<1> QED
  BY InvInit, <1>1, PTL DEF Spec, OptionsAreScoped, Outer!Spec

-----------------------------------------------------------------------------
(* What a list of options makes of what a level holds. *)

Setting(params, v) == {i \in DOMAIN params : Variable[params[i][1]] = v}

After(e, params) == [v \in Scoped |-> LastOf(params, Setting(params, v), e[v])]

LEMMA MaxOf ==
  ASSUME NEW n \in Nat, NEW S \in SUBSET (0 .. n), NEW m \in S, \A x \in S : x <= m
  PROVE  Max(S) = m
<1>1. S # {} /\ m \in Nat
  OBVIOUS
<1>2. Max(S) \in S /\ \A x \in S : x <= Max(S)
  BY <1>1, MaxIs
<1>3. m <= Max(S) /\ Max(S) <= m
  BY <1>2
<1>4. Max(S) \in 0 .. n
  BY <1>2
<1> QED
  BY <1>1, <1>3, <1>4

LEMMA SettingIs ==
  ASSUME NEW params \in Params, NEW v
  PROVE  /\ Len(params) \in Nat /\ DOMAIN params = 1 .. Len(params)
         /\ Setting(params, v) \in SUBSET (0 .. Len(params)) /\ Setting(params, v) \subseteq DOMAIN params
         /\ Setting(params, v) # {} =>
              /\ Max(Setting(params, v)) \in Setting(params, v)
              /\ \A i \in Setting(params, v) : i <= Max(Setting(params, v))
<1>1. Len(params) \in Nat /\ DOMAIN params = 1 .. Len(params)
  BY DEF Params
<1>2. Setting(params, v) \subseteq DOMAIN params /\ Setting(params, v) \in SUBSET (0 .. Len(params))
  BY <1>1 DEF Setting
<1> QED
  BY <1>1, <1>2, MaxIs

\* One list after the other, and then both at once.
LEMMA AfterBoth ==
  ASSUME NEW p \in Params, NEW q \in Params, NEW e
  PROVE  /\ p \o q \in Params /\ After(e, p \o q) = After(After(e, p), q)
<1> DEFINE r == p \o q   n == Len(p)   m == Len(q)
<1>1. /\ r \in Params /\ Len(r) = n + m /\ n \in Nat /\ m \in Nat
      /\ \A i \in 1 .. n + m : r[i] = IF i <= n THEN p[i] ELSE q[i - n]
  BY DEF Params
<1> HIDE DEF r, n, m
<1>2. ASSUME NEW v \in Scoped
      PROVE  LastOf(r, Setting(r, v), e[v]) = LastOf(q, Setting(q, v), LastOf(p, Setting(p, v), e[v]))
  <2> DEFINE R == Setting(r, v)   P == Setting(p, v)   Q == Setting(q, v)
  <2>1. /\ R \in SUBSET (0 .. n + m) /\ P \in SUBSET (0 .. n) /\ Q \in SUBSET (0 .. m)
        /\ R \subseteq 1 .. n + m /\ P \subseteq 1 .. n /\ Q \subseteq 1 .. m
    BY <1>1, SettingIs DEF n, m
  <2>2. /\ P # {} => Max(P) \in P /\ \A i \in P : i <= Max(P)
        /\ Q # {} => Max(Q) \in Q /\ \A i \in Q : i <= Max(Q)
    BY SettingIs
  <2>3. \A i \in 1 .. n + m : i \in R <=> (i <= n /\ i \in P) \/ (i > n /\ i - n \in Q)
    <3> SUFFICES ASSUME NEW i \in 1 .. n + m PROVE i \in R <=> (i <= n /\ i \in P) \/ (i > n /\ i - n \in Q)
      OBVIOUS
    <3>1. i \in R <=> Variable[r[i][1]] = v
      BY <1>1 DEF Setting
    <3>2. CASE i <= n
      <4>1. i \in 1 .. n /\ r[i] = p[i]
        BY <1>1, <3>2
      <4>2. i \in P <=> Variable[p[i][1]] = v
        BY <4>1 DEF Setting, n, Params
      <4> QED
        BY <1>1, <3>1, <3>2, <4>1, <4>2
    <3>3. CASE i > n
      <4>1. i - n \in 1 .. m /\ r[i] = q[i - n]
        BY <1>1, <3>3
      <4>2. i - n \in Q <=> Variable[q[i - n][1]] = v
        BY <4>1 DEF Setting, m, Params
      <4> QED
        BY <1>1, <3>1, <3>3, <4>1, <4>2
    <3> QED
      BY <1>1, <3>2, <3>3
  <2> HIDE DEF R, P, Q
  <2>4. CASE Q # {}
    <3>0. Max(Q) \in 1 .. m
      BY <2>1, <2>2, <2>4
    <3>1. Max(Q) \in 1 .. m /\ Max(Q) + n \in 1 .. n + m
      BY <1>1, <3>0
    <3>2. Max(Q) + n \in R
      BY <1>1, <2>2, <2>3, <2>4, <3>1
    <3>3. \A i \in R : i <= Max(Q) + n
      <4> SUFFICES ASSUME NEW i \in R PROVE i <= Max(Q) + n
        OBVIOUS
      <4>1. i \in 1 .. n + m
        BY <2>1
      <4>2. CASE i <= n
        BY <1>1, <3>1, <4>1, <4>2
      <4>3. CASE i > n
        <5>1. i - n \in Q
          BY <1>1, <2>3, <4>1, <4>3
        <5>2. i - n <= Max(Q)
          BY <2>2, <5>1
        <5> QED
          BY <1>1, <3>1, <4>1, <5>2
      <4> QED
        BY <1>1, <4>1, <4>2, <4>3
    <3>4. Max(R) = Max(Q) + n
      <4>1. n + m \in Nat
        BY <1>1
      <4> QED
        BY <2>1, <3>2, <3>3, <4>1, MaxOf
    <3>5. r[Max(R)] = q[Max(Q)]
      BY <1>1, <3>1, <3>4
    <3>6. R # {}
      BY <3>2
    <3> QED
      BY <2>4, <3>5, <3>6 DEF LastOf, R, Q
  <2>5. CASE Q = {}
    <3>1. R = P
      <4>1. \A i \in R : i \in P
        BY <1>1, <2>1, <2>3, <2>5
      <4>2. \A i \in P : i \in 1 .. n + m /\ i <= n
        BY <1>1, <2>1
      <4>3. \A i \in P : i \in R
        BY <2>3, <4>2
      <4> QED
        BY <4>1, <4>3
    <3>2. P # {} => r[Max(P)] = p[Max(P)]
      <4> SUFFICES ASSUME P # {} PROVE r[Max(P)] = p[Max(P)]
        OBVIOUS
      <4>1. Max(P) \in 1 .. n
        BY <2>1, <2>2
      <4> QED
        BY <1>1, <4>1
    <3> QED
      BY <2>5, <3>1, <3>2 DEF LastOf, R, P, Q
  <2> QED
    BY <2>4, <2>5
<1>3. After(e, r) = After(After(e, p), q)
  <2> DEFINE f == After(e, p)
  <2>1. \A v \in Scoped : f[v] = LastOf(p, Setting(p, v), e[v])
    BY DEF After
  <2> HIDE DEF f
  <2>2. \A v \in Scoped : LastOf(r, Setting(r, v), e[v]) = LastOf(q, Setting(q, v), f[v])
    BY <1>2, <2>1
  <2>3. After(e, r) = After(f, q)
    BY <2>2 DEF After
  <2> QED
    BY <2>3 DEF f
<1> QED
  BY <1>1, <1>3 DEF r

\* A second time makes no difference.
LEMMA AfterTwice ==
  ASSUME NEW params, NEW e
  PROVE  After(After(e, params), params) = After(e, params)
<1> DEFINE f == After(e, params)
<1>1. \A v \in Scoped : f[v] = LastOf(params, Setting(params, v), e[v])
  BY DEF After
<1> HIDE DEF f
<1>2. \A v \in Scoped : LastOf(params, Setting(params, v), f[v]) = LastOf(params, Setting(params, v), e[v])
  BY <1>1 DEF LastOf
<1>3. After(f, params) = After(e, params)
  BY <1>2 DEF After
<1> QED
  BY <1>3 DEF f

\* Where two levels make the same of a list, they do when the same variable of both
\* is changed to the same.
Changes(e, f, u, x) == \A v \in Scoped : f[v] = IF v = u THEN x ELSE e[v]

LEMMA AfterChange ==
  ASSUME NEW params, NEW e, NEW d, After(e, params) = After(d, params), NEW u, NEW x, NEW f, NEW g,
         Changes(e, f, u, x), Changes(d, g, u, x)
  PROVE  After(f, params) = After(g, params)
<1>1. ASSUME NEW v \in Scoped
      PROVE  LastOf(params, Setting(params, v), f[v]) = LastOf(params, Setting(params, v), g[v])
  <2>1. LastOf(params, Setting(params, v), e[v]) = LastOf(params, Setting(params, v), d[v])
    <3>1. After(e, params)[v] = After(d, params)[v]
      OBVIOUS
    <3> QED
      BY <3>1 DEF After
  <2>2. CASE v = u
    BY <2>2 DEF Changes
  <2>3. CASE v # u
    <3>1. f[v] = e[v] /\ g[v] = d[v]
      BY <2>3 DEF Changes
    <3> QED
      BY <2>1, <3>1
  <2> QED
    BY <2>2, <2>3
<1> QED
  BY <1>1 DEF After

-----------------------------------------------------------------------------
(* What the operators of the configuration do to the levels, one by one. *)

LEMMA SetValueIs ==
  ASSUME NEW c, Stacked(c), NEW params, NEW v \in Scoped
  PROVE  SetOptions(c, params).value[v] = LastOf(params, Setting(params, v), c.value[v])
<1> DEFINE slots == [w \in Vars |-> [k \in DOMAIN c.slots[w] |-> SetSlot(c, params, w, k)]]
           value == [w \in Vars |-> SetValue(c, params, w)]
<1>1. SetOptions(c, params) = [c EXCEPT !.slots = slots, !.value = value]
  BY DEF SetOptions
<1>2. v \in Vars
  BY StackedIs DEF Scoped
<1>3. value[v] = LastOf(params, Setting(params, v), c.value[v])
  BY <1>2 DEF SetValue, Setting
<1> HIDE DEF slots, value
<1>4. SetOptions(c, params) = [lvl |-> c.lvl, slots |-> slots, value |-> value]
  BY <1>1, ConfigExcept
<1> QED
  BY <1>3, <1>4

LEMMA TopIs ==
  ASSUME NEW c, Stacked(c)
  PROVE  /\ c.lvl \in Nat /\ c.lvl >= 1 /\ Len(Levels(c)) = c.lvl /\ Levels(c) \in Seq(Scope)
         /\ Levels(c)[c.lvl] = [v \in Scoped |-> c.value[v]]
         /\ \A v \in Scoped : Levels(c)[c.lvl][v] = c.value[v]
<1>1. c.lvl \in 1 .. c.lvl /\ c.lvl \in Nat /\ c.lvl >= 1
  BY StackedIs
<1>2. Levels(c)[c.lvl] = [v \in Scoped |-> IF c.lvl = c.lvl THEN c.value[v] ELSE c.slots[v][c.lvl + 1].data]
  BY <1>1, LevelsIs
<1> QED
  BY <1>1, <1>2, LevelsIs

LEMMA PushTop ==
  ASSUME NEW c, Stacked(c), NEW params \in Params
  PROVE  LET d == SetOptions(PushConfig(c), params) IN
         /\ Stacked(d) /\ d.lvl = c.lvl + 1
         /\ \A i \in 1 .. c.lvl : Levels(d)[i] = Levels(c)[i]
         /\ Levels(d)[c.lvl + 1] = After(Levels(c)[c.lvl], params)
<1> DEFINE p == PushConfig(c)   d == SetOptions(p, params)
<1>1. Stacked(d) /\ d.lvl = c.lvl + 1
  BY PushEnters
<1>2. PICK e \in Scope : Levels(d) = Append(Levels(c), e)
  BY PushEnters
<1>3. Levels(c) \in Seq(Scope) /\ Len(Levels(c)) = c.lvl /\ c.lvl \in Nat
  BY LevelsIs, StackedIs
<1>4. \A i \in 1 .. c.lvl : Levels(d)[i] = Levels(c)[i]
  <2> HIDE DEF d
  <2> QED
    BY <1>2, <1>3
<1>5. Stacked(p) /\ p.value = c.value
  BY PushIs
<1> HIDE DEF p
<1>6. \A v \in Scoped : d.value[v] = LastOf(params, Setting(params, v), c.value[v])
  BY <1>5, SetValueIs
<1> HIDE DEF d
<1>7. Levels(d)[d.lvl] = [v \in Scoped |-> d.value[v]]
  BY <1>1, TopIs
<1>8. \A v \in Scoped : Levels(c)[c.lvl][v] = c.value[v]
  BY TopIs
<1>9. Levels(d)[d.lvl] = After(Levels(c)[c.lvl], params)
  BY <1>6, <1>7, <1>8 DEF After
<1>10. Levels(d)[c.lvl + 1] = After(Levels(c)[c.lvl], params)
  BY <1>1, <1>9
<1> QED
  BY <1>1, <1>4, <1>10 DEF d, p

LEMMA PopRest ==
  ASSUME NEW c, Stacked(c), c.lvl > 1
  PROVE  /\ Stacked(PopConfig(c)) /\ PopConfig(c).lvl = c.lvl - 1
         /\ \A i \in 1 .. c.lvl - 1 : Levels(PopConfig(c))[i] = Levels(c)[i]
<1>1. Stacked(PopConfig(c)) /\ PopConfig(c).lvl = c.lvl - 1
  BY PopIs
<1>2. Levels(PopConfig(c)) = Front(Levels(c))
  BY PopLeaves
<1>3. Levels(c) \in Seq(Scope) /\ Len(Levels(c)) = c.lvl /\ c.lvl \in Nat
  BY LevelsIs, StackedIs
<1>4. \A i \in 1 .. c.lvl - 1 : Front(Levels(c))[i] = Levels(c)[i]
  BY <1>3 DEF Front
<1> QED
  BY <1>1, <1>2, <1>4

LEMMA ChangeTop ==
  ASSUME NEW c, Stacked(c), NEW u \in Vars, NEW x \in Values
  PROVE  LET d == ChangeVar(c, u, x) IN
         /\ Stacked(d) /\ d.lvl = c.lvl
         /\ \A i \in 1 .. c.lvl - 1 : Levels(d)[i] = Levels(c)[i]
         /\ \A v \in Scoped : Levels(d)[d.lvl][v] = IF v = u THEN x ELSE Levels(c)[c.lvl][v]
<1> DEFINE d == ChangeVar(c, u, x)
<1>1. Stacked(d) /\ d.lvl = c.lvl
  BY ChangeIs
<1>2. PICK e \in Scope : Levels(d) = Append(Front(Levels(c)), e)
  BY ChangeStays
<1>3. Levels(c) \in Seq(Scope) /\ Len(Levels(c)) = c.lvl /\ c.lvl \in Nat /\ c.lvl >= 1
  BY LevelsIs, StackedIs
<1>4. \A i \in 1 .. c.lvl - 1 : Levels(d)[i] = Levels(c)[i]
  <2> HIDE DEF d
  <2>1. Front(Levels(c)) \in Seq(Scope) /\ Len(Front(Levels(c))) = c.lvl - 1
        /\ \A i \in 1 .. c.lvl - 1 : Front(Levels(c))[i] = Levels(c)[i]
    BY <1>3 DEF Front
  <2> QED
    BY <1>2, <2>1
<1>5. ASSUME NEW v \in Scoped PROVE d.value[v] = IF v = u THEN x ELSE c.value[v]
  <2>1. v \in Vars /\ c.value \in [Vars -> Values]
    BY StackedIs DEF Scoped
  <2>2. c \in [lvl : {c.lvl}, slots : {c.slots}, value : {c.value}]
    BY StackedIs
  <2>3. d.value = [c.value EXCEPT ![u] = x]
    BY <2>2 DEF ChangeVar
  <2> HIDE DEF d
  <2> QED
    BY <2>1, <2>3
<1> HIDE DEF d
<1>6. \A v \in Scoped : Levels(d)[d.lvl][v] = d.value[v] /\ Levels(c)[c.lvl][v] = c.value[v]
  BY <1>1, TopIs
<1>7. \A v \in Scoped : Levels(d)[d.lvl][v] = IF v = u THEN x ELSE Levels(c)[c.lvl][v]
  BY <1>5, <1>6
<1> QED
  BY <1>1, <1>4, <1>7 DEF d

\* The options a file would have, set one after the other on those outside.
LEMMA EnvIs ==
  ASSUME NEW env, NEW params, NEW v \in Scoped
  PROVE  SetOptions(NewConfig(env), params).value[v] = After(env, params)[v]
<1> DEFINE c == NewConfig(env)   value == [w \in Vars |-> SetValue(c, params, w)]
           slots == [w \in Vars |-> [k \in DOMAIN c.slots[w] |-> SetSlot(c, params, w, k)]]
<1>1. v \in Vars
  BY ConfigAssumption DEF Scoped
<1>2. c.value = env /\ c \in [lvl : {c.lvl}, slots : {c.slots}, value : {c.value}]
  BY DEF NewConfig
<1>3. SetOptions(c, params) = [[c EXCEPT !.slots = slots] EXCEPT !.value = value]
  BY DEF SetOptions
<1> HIDE DEF c
<1>4. value[v] = LastOf(params, Setting(params, v), env[v])
  BY <1>1, <1>2 DEF SetValue, Setting
<1> HIDE DEF slots, value
<1>5. [[c EXCEPT !.slots = slots] EXCEPT !.value = value].value = value
  BY <1>2
<1>6. After(env, params)[v] = LastOf(params, Setting(params, v), env[v])
  BY DEF After
<1> QED
  BY <1>3, <1>4, <1>5, <1>6 DEF c


-----------------------------------------------------------------------------
(* The way down from the root, a node of each group on it. *)

Way(kids, g, n) ==
  /\ g \in [Nat -> Nodes] /\ n \in Nat /\ g[0] = Root
  /\ \A i \in 1 .. n : g[i] \in Range(kids[g[i - 1]])

LEMMA WayIs ==
  ASSUME NEW kids, NEW g, NEW n, Way(kids, g, n)
  PROVE  /\ g \in [Nat -> Nodes] /\ n \in Nat /\ g[0] = Root /\ \A i \in Nat : g[i] \in Nodes
         /\ \A i \in 1 .. n : i - 1 \in Nat /\ i \in Nat /\ g[i] \in Range(kids[g[i - 1]])
BY DEF Way

LEMMA WayUp ==
  ASSUME NEW kids, NEW g, NEW n, Way(kids, g, n), NEW m \in 0 .. n
  PROVE  Way(kids, g, m)
<1>1. n \in Nat
  BY WayIs
<1>2. m \in Nat /\ \A i \in 1 .. m : i \in 1 .. n
  BY <1>1
<1> QED
  BY <1>2, WayIs DEF Way

\* One node further, whatever was there.
LEMMA WayTo ==
  ASSUME NEW kids, NEW g, NEW n, Way(kids, g, n), NEW k \in Nodes, k \in Range(kids[g[n]])
  PROVE  /\ Way(kids, [g EXCEPT ![n + 1] = k], n + 1)
         /\ \A i \in 0 .. n : [g EXCEPT ![n + 1] = k][i] = g[i]
         /\ [g EXCEPT ![n + 1] = k][n + 1] = k
<1> DEFINE h == [g EXCEPT ![n + 1] = k]
<1>1. g \in [Nat -> Nodes] /\ n \in Nat /\ g[0] = Root
  BY WayIs
<1>2. h \in [Nat -> Nodes] /\ h[n + 1] = k /\ \A i \in 0 .. n : h[i] = g[i]
  BY <1>1
<1> HIDE DEF h
<1>3. ASSUME NEW i \in 1 .. n + 1 PROVE h[i] \in Range(kids[h[i - 1]])
  <2>1. CASE i = n + 1
    <3>1. i - 1 = n /\ n \in 0 .. n
      BY <1>1, <2>1
    <3>2. h[i - 1] = g[n] /\ h[i] = k
      BY <1>2, <2>1, <3>1
    <3> QED
      BY <3>2
  <2>2. CASE i # n + 1
    <3>1. i \in 1 .. n /\ i \in 0 .. n /\ i - 1 \in 0 .. n
      BY <1>1, <2>2
    <3>2. h[i] = g[i] /\ h[i - 1] = g[i - 1]
      BY <1>2, <3>1
    <3>3. g[i] \in Range(kids[g[i - 1]])
      BY <3>1, WayIs
    <3> QED
      BY <3>2, <3>3
  <2> QED
    BY <2>1, <2>2
<1>4. n + 1 \in Nat /\ 0 \in 0 .. n
  BY <1>1
<1>5. h[0] = Root
  BY <1>1, <1>2, <1>4
<1>6. Way(kids, h, n + 1)
  BY <1>2, <1>3, <1>4, <1>5 DEF Way
<1> QED
  BY <1>2, <1>6 DEF h

\* The way stays where its groups keep their nodes.
LEMMA WayMore ==
  ASSUME NEW kids, NEW g, NEW n, Way(kids, g, n), NEW more,
         \A i \in 1 .. n : g[i] \in Range(kids[g[i - 1]]) => g[i] \in Range(more[g[i - 1]])
  PROVE  Way(more, g, n)
BY WayIs DEF Way

LEMMA WayLevels ==
  ASSUME NEW level \in Layers, NEW t, Tree(t, level), NEW g, NEW n, Way(t.kids, g, n)
  PROVE  \A i \in 0 .. n : level[g[i]] = i
<1> DEFINE P == {i \in Nat : i <= n => level[g[i]] = i}
<1>0. \A m \in Nodes : \A k \in Range(t.kids[m]) : level[k] = level[m] + 1
  BY TreeFields
<1>1. g \in [Nat -> Nodes] /\ n \in Nat /\ g[0] = Root
  BY WayIs
<1>2. 0 \in P
  BY <1>1, TreeFields
<1>3. ASSUME NEW i \in Nat, i \in P PROVE i + 1 \in P
  <2> SUFFICES ASSUME i + 1 <= n PROVE level[g[i + 1]] = i + 1
    BY <1>3
  <2>1. i + 1 \in 1 .. n /\ i + 1 - 1 = i /\ i <= n
    BY <1>1, <1>3
  <2>2. g[i + 1] \in Range(t.kids[g[i]]) /\ g[i] \in Nodes
    BY <2>1, WayIs
  <2>3. level[g[i]] = i
    BY <1>3, <2>1
  <2>4. level[g[i + 1]] = level[g[i]] + 1
    BY <1>0, <2>2
  <2> QED
    BY <2>3, <2>4
<1>4. Nat \subseteq P
  <2> HIDE DEF P
  <2> QED
    BY <1>2, <1>3, Induction
<1>5. \A i \in 0 .. n : i \in Nat /\ i <= n
  BY <1>1
<1> QED
  BY <1>4, <1>5

\* In a list where no node is in two groups, the group around a node of the way is
\* the one before it, and the root is in none.
Around(t, g, n) == Parent(t, Root) = None /\ \A i \in 1 .. n : Parent(t, g[i]) = g[i - 1]

LEMMA WayParent ==
  ASSUME NEW level \in Layers, NEW t, Tree(t, level), Single(t), NEW g, NEW n, Way(t.kids, g, n)
  PROVE  Around(t, g, n)
<1>1. Parent(t, Root) = None
  <2> SUFFICES ASSUME Parent(t, Root) # None PROVE FALSE
    OBVIOUS
  <2>1. Parent(t, Root) \in Nodes /\ level[Root] = level[Parent(t, Root)] + 1 /\ level[Root] = 0
    BY ParentIs, TreeFields
  <2>2. level[Parent(t, Root)] \in Nat
    BY <2>1 DEF Layers
  <2> QED
    BY <2>1, <2>2
<1>2. ASSUME NEW i \in 1 .. n PROVE Parent(t, g[i]) = g[i - 1]
  <2> DEFINE p == g[i - 1]   k == g[i]   ps == {q \in Nodes : k \in Range(t.kids[q])}
  <2>1. p \in Nodes /\ k \in Range(t.kids[p])
    BY WayIs
  <2> HIDE DEF p, k
  <2>2. p \in ps
    BY <2>1
  <2>3. \A q \in ps : q = p
    BY <2>1 DEF Single
  <2>4. Parent(t, k) = CHOOSE q \in ps : TRUE
    BY <2>2 DEF Parent
  <2> HIDE DEF ps
  <2>5. Parent(t, k) \in ps
    BY <2>2, <2>4
  <2> QED
    BY <2>3, <2>5 DEF p, k
<1> QED
  BY <1>1, <1>2 DEF Around


-----------------------------------------------------------------------------
(* Path is a recursive function: there is one, by induction over the levels of the
   nodes, and on a way it is the way. *)

Ups(t, f, S) == f = [m \in S |-> IF Parent(t, m) = None THEN <<m>> ELSE Append(f[Parent(t, m)], m)]

LEMMA UpsIs ==
  ASSUME NEW t, NEW f, NEW S, Ups(t, f, S), NEW m \in S
  PROVE  /\ Parent(t, m) = None => f[m] = <<m>>
         /\ Parent(t, m) # None => f[m] = Append(f[Parent(t, m)], m)
<1> DEFINE x == IF Parent(t, m) = None THEN <<m>> ELSE Append(f[Parent(t, m)], m)
<1>1. f[m] = x
  BY DEF Ups
<1> QED
  BY <1>1

Upto(level, d) == {m \in Nodes : level[m] <= d}

LEMMA UpsSame ==
  ASSUME NEW level \in Layers, NEW t, Tree(t, level), NEW d \in Nat, NEW e \in Nat, NEW f, NEW h,
         Ups(t, f, Upto(level, d)), Ups(t, h, Upto(level, e)),
         NEW m \in Nodes, level[m] <= d, level[m] <= e
  PROVE  f[m] = h[m]
<1> DEFINE P == {l \in Nat : \A n \in Nodes : level[n] = l /\ l <= d /\ l <= e => f[n] = h[n]}
<1>1. ASSUME NEW l \in Nat, NEW n \in Nodes, level[n] = l, l <= d, l <= e,
             Parent(t, n) # None => f[Parent(t, n)] = h[Parent(t, n)]
      PROVE  f[n] = h[n]
  <2>1. n \in Upto(level, d) /\ n \in Upto(level, e)
    BY <1>1 DEF Upto
  <2>2. CASE Parent(t, n) = None
    BY <2>1, <2>2, UpsIs
  <2>3. CASE Parent(t, n) # None
    <3>1. f[n] = Append(f[Parent(t, n)], n) /\ h[n] = Append(h[Parent(t, n)], n)
      BY <2>1, <2>3, UpsIs
    <3> QED
      BY <1>1, <2>3, <3>1
  <2> QED
    BY <2>2, <2>3
<1>2. ASSUME NEW n \in Nodes, Parent(t, n) # None
      PROVE  Parent(t, n) \in Nodes /\ level[n] = level[Parent(t, n)] + 1 /\ level[Parent(t, n)] \in Nat
  BY <1>2, ParentIs DEF Layers
<1>3. 0 \in P
  <2> SUFFICES ASSUME NEW n \in Nodes, level[n] = 0 PROVE f[n] = h[n]
    OBVIOUS
  <2>1. Parent(t, n) = None
    BY <1>2
  <2> QED
    BY <1>1, <2>1
<1>4. ASSUME NEW l \in Nat, l \in P PROVE l + 1 \in P
  <2> SUFFICES ASSUME NEW n \in Nodes, level[n] = l + 1, l + 1 <= d, l + 1 <= e PROVE f[n] = h[n]
    OBVIOUS
  <2>1. ASSUME Parent(t, n) # None PROVE f[Parent(t, n)] = h[Parent(t, n)]
    <3> DEFINE p == Parent(t, n)
    <3>1. p \in Nodes /\ level[p] = l
      BY <1>2, <2>1
    <3> HIDE DEF p
    <3>2. l <= d /\ l <= e
      OBVIOUS
    <3> QED
      BY <1>4, <3>1, <3>2 DEF p
  <2> DEFINE k == l + 1
  <2>2. k \in Nat /\ level[n] = k /\ k <= d /\ k <= e
    OBVIOUS
  <2> HIDE DEF k
  <2> QED
    BY <1>1, <2>1, <2>2
<1>5. Nat \subseteq P
  <2> HIDE DEF P
  <2> QED
    BY <1>3, <1>4, Induction
<1>6. level[m] \in Nat
  BY DEF Layers
<1> QED
  BY <1>5, <1>6

LEMMA PathExists ==
  ASSUME NEW level \in Layers, NEW t, Tree(t, level)
  PROVE  \E f : Ups(t, f, Nodes)
<1> DEFINE P == {d \in Nat : \E f : Ups(t, f, Upto(level, d))}
<1>1. ASSUME NEW n \in Nodes, Parent(t, n) # None
      PROVE  Parent(t, n) \in Nodes /\ level[n] = level[Parent(t, n)] + 1 /\ level[Parent(t, n)] \in Nat
  BY <1>1, ParentIs DEF Layers
<1>2. 0 \in P
  <2> DEFINE f == [m \in Upto(level, 0) |-> <<m>>]
  <2>1. ASSUME NEW m \in Upto(level, 0) PROVE Parent(t, m) = None
    <3>1. m \in Nodes /\ level[m] <= 0
      BY DEF Upto
    <3> QED
      BY <1>1, <3>1
  <2>2. f = [m \in Upto(level, 0) |-> IF Parent(t, m) = None THEN <<m>> ELSE Append(f[Parent(t, m)], m)]
    BY <2>1
  <2>3. Ups(t, f, Upto(level, 0))
    BY <2>2 DEF Ups
  <2> QED
    BY <2>3
<1>3. ASSUME NEW d \in Nat, NEW g, Ups(t, g, Upto(level, d)) PROVE \E f : Ups(t, f, Upto(level, d + 1))
  <2> DEFINE S == Upto(level, d + 1)
             f == [m \in S |-> IF Parent(t, m) = None THEN <<m>> ELSE Append(g[Parent(t, m)], m)]
  <2>1. ASSUME NEW m \in S, Parent(t, m) # None PROVE f[Parent(t, m)] = g[Parent(t, m)]
    <3> DEFINE p == Parent(t, m)
    <3>1. m \in Nodes /\ level[m] <= d + 1
      BY DEF Upto
    <3>2. p \in Nodes /\ level[p] <= d /\ level[p] <= d + 1
      BY <1>1, <2>1, <3>1
    <3>3. p \in Upto(level, d) /\ p \in S
      BY <3>2 DEF Upto
    <3> HIDE DEF p, S
    <3>4. f[p] = IF Parent(t, p) = None THEN <<p>> ELSE Append(g[Parent(t, p)], p)
      BY <3>3
    <3>5. g[p] = IF Parent(t, p) = None THEN <<p>> ELSE Append(g[Parent(t, p)], p)
      BY <1>3, <3>3, UpsIs
    <3> QED
      BY <3>4, <3>5 DEF p
  <2>2. f = [m \in S |-> IF Parent(t, m) = None THEN <<m>> ELSE Append(f[Parent(t, m)], m)]
    <3> DEFINE h == [m \in S |-> IF Parent(t, m) = None THEN <<m>> ELSE Append(f[Parent(t, m)], m)]
    <3>1. ASSUME NEW m \in S
          PROVE  (IF Parent(t, m) = None THEN <<m>> ELSE Append(g[Parent(t, m)], m))
                   = (IF Parent(t, m) = None THEN <<m>> ELSE Append(f[Parent(t, m)], m))
      <4> HIDE DEF S, f
      <4>1. CASE Parent(t, m) = None
        BY <4>1
      <4>2. CASE Parent(t, m) # None
        BY <2>1, <4>2
      <4> QED
        BY <4>1, <4>2
    <3> QED
      BY <3>1
  <2>3. Ups(t, f, S)
    BY <2>2 DEF Ups
  <2> QED
    BY <2>3
<1>4. Nat \subseteq P
  <2>1. \A d \in Nat : d \in P => d + 1 \in P
    BY <1>3
  <2> HIDE DEF P
  <2> QED
    BY <1>2, <2>1, Induction
<1> DEFINE F(d) == CHOOSE f : Ups(t, f, Upto(level, d))
           f == [m \in Nodes |-> F(level[m])[m]]
<1>5. ASSUME NEW d \in Nat PROVE Ups(t, F(d), Upto(level, d))
  <2>1. \E h : Ups(t, h, Upto(level, d))
    BY <1>4
  <2> QED
    BY <2>1
<1> HIDE DEF F, P
<1>6. ASSUME NEW m \in Nodes
      PROVE  f[m] = IF Parent(t, m) = None THEN <<m>> ELSE Append(f[Parent(t, m)], m)
  <2> DEFINE l == level[m]
  <2>1. l \in Nat /\ Ups(t, F(l), Upto(level, l)) /\ m \in Upto(level, l) /\ f[m] = F(l)[m]
    BY <1>5 DEF Upto, Layers
  <2>2. CASE Parent(t, m) = None
    <3> HIDE DEF f, l
    <3> QED
      BY <2>1, <2>2, UpsIs
  <2>3. CASE Parent(t, m) # None
    <3> DEFINE p == Parent(t, m)   j == level[p]
    <3>1. p \in Nodes /\ l = j + 1 /\ j \in Nat
      BY <1>1, <2>3
    <3>2. Ups(t, F(j), Upto(level, j)) /\ f[p] = F(j)[p]
      BY <1>5, <3>1
    <3>3. level[p] <= l /\ level[p] <= j
      BY <3>1
    <3>4. F(l)[p] = F(j)[p]
      <4> HIDE DEF l, j, p, f
      <4> QED
        BY <2>1, <3>1, <3>2, <3>3, UpsSame
    <3>5. F(l)[m] = Append(F(l)[p], m)
      <4> HIDE DEF l, f
      <4> QED
        BY <2>1, <2>3, UpsIs
    <3> HIDE DEF f, l, j
    <3> QED
      BY <2>1, <2>3, <3>2, <3>4, <3>5
  <2> QED
    BY <2>2, <2>3
<1>7. f = [m \in Nodes |-> IF Parent(t, m) = None THEN <<m>> ELSE Append(f[Parent(t, m)], m)]
  <2>1. f = [m \in Nodes |-> f[m]]
    OBVIOUS
  <2> HIDE DEF f
  <2> QED
    BY <1>6, <2>1
<1>8. Ups(t, f, Nodes)
  BY <1>7 DEF Ups
<1> QED
  BY <1>8


LEMMA PathIs ==
  ASSUME NEW level \in Layers, NEW t, Tree(t, level)
  PROVE  \E f : Ups(t, f, Nodes) /\ \A n \in Nodes : Path(t, n) = f[n]
<1> DEFINE f == CHOOSE path : path = [m \in Nodes |-> IF Parent(t, m) = None THEN <<m>>
                                                      ELSE Append(path[Parent(t, m)], m)]
<1>1. \E path : path = [m \in Nodes |-> IF Parent(t, m) = None THEN <<m>>
                                        ELSE Append(path[Parent(t, m)], m)]
  BY PathExists DEF Ups
<1>2. f = [m \in Nodes |-> IF Parent(t, m) = None THEN <<m>> ELSE Append(f[Parent(t, m)], m)]
  BY <1>1, Zenon
<1>3. Ups(t, f, Nodes)
  BY <1>2 DEF Ups
<1>4. \A n \in Nodes : Path(t, n) = f[n]
  BY Zenon DEF Path
<1> QED
  BY <1>3, <1>4

LEMMA WayPath ==
  ASSUME NEW level \in Layers, NEW t, Tree(t, level), Single(t), NEW g, NEW n, Way(t.kids, g, n)
  PROVE  \A i \in 0 .. n : Path(t, g[i]) = [j \in 1 .. i + 1 |-> g[j - 1]]
<1> DEFINE Goes(i) == [j \in 1 .. i + 1 |-> g[j - 1]]
           P == {i \in Nat : i <= n => Path(t, g[i]) = Goes(i)}
<1>0. Parent(t, Root) = None /\ \A i \in 1 .. n : Parent(t, g[i]) = g[i - 1]
  BY WayParent DEF Around
<1>1. PICK f : Ups(t, f, Nodes) /\ \A m \in Nodes : Path(t, m) = f[m]
  BY PathIs
<1>2. g \in [Nat -> Nodes] /\ n \in Nat /\ g[0] = Root /\ Root \in Nodes /\ \A i \in Nat : g[i] \in Nodes
  BY WayIs, PlayTreeAssumption
<1>3. 0 \in P
  <2>1. f[Root] = <<Root>>
    BY <1>0, <1>1, <1>2, UpsIs
  <2>2. Goes(0) = <<Root>>
    BY <1>2
  <2> HIDE DEF Goes
  <2>3. Path(t, g[0]) = Goes(0)
    BY <1>1, <1>2, <2>1, <2>2
  <2> QED
    BY <2>3
<1>4. ASSUME NEW i \in Nat, i + 1 <= n, Path(t, g[i]) = Goes(i)
      PROVE  Path(t, g[i + 1]) = Goes(i + 1)
  <2> DEFINE k == i + 1
  <2>1. k \in 1 .. n /\ k - 1 = i /\ g[k] \in Nodes /\ g[i] \in Nodes /\ k \in Nat
    BY <1>2, <1>4
  <2>2. Parent(t, g[k]) = g[i] /\ g[i] # None
    <3> HIDE DEF k
    <3> QED
      BY <1>0, <2>1, PlayTreeAssumption
  <2>3. f[g[k]] = Append(f[g[i]], g[k])
    BY <1>1, <2>1, <2>2, UpsIs
  <2>4. Append(Goes(i), g[k]) = Goes(k)
    <3>1. Goes(i) \in Seq(Nodes) /\ Len(Goes(i)) = i + 1
      <4>1. \A j \in 1 .. i + 1 : g[j - 1] \in Nodes
        BY <1>2
      <4> QED
        BY <4>1
    <3>2. \A j \in 1 .. i + 1 : Goes(i)[j] = g[j - 1]
      OBVIOUS
    <3>3. Goes(k) = [j \in 1 .. i + 2 |-> g[j - 1]]
      BY <2>1
    <3> DEFINE s == Goes(i)   u == Goes(k)
    <3> HIDE DEF k, s, u
    <3>4. Append(s, g[k]) = [j \in 1 .. i + 2 |-> IF j = i + 2 THEN g[k] ELSE s[j]]
      BY <2>1, <3>1 DEF s
    <3>5. k = (i + 2) - 1
      BY <2>1
    <3>6. \A j \in 1 .. i + 2 : (IF j = i + 2 THEN g[k] ELSE s[j]) = g[j - 1]
      BY <3>2, <3>5 DEF s
    <3>7. Append(s, g[k]) = u
      BY <3>3, <3>4, <3>6 DEF u
    <3> QED
      BY <3>7 DEF s, u
  <2> HIDE DEF Goes, k
  <2>5. Path(t, g[k]) = Goes(k)
    BY <1>1, <1>4, <2>1, <2>3, <2>4
  <2> QED
    BY <2>5 DEF k
<1>5. Nat \subseteq P
  <2>1. \A i \in Nat : i \in P => i + 1 \in P
    <3> SUFFICES ASSUME NEW i \in Nat, i \in P PROVE i + 1 \in P
      OBVIOUS
    <3> HIDE DEF Goes
    <3>1. i + 1 <= n => i <= n
      BY <1>2
    <3>2. i + 1 <= n => Path(t, g[i]) = Goes(i)
      BY <3>1
    <3>3. i + 1 <= n => Path(t, g[i + 1]) = Goes(i + 1)
      BY <1>4, <3>2
    <3> QED
      BY <3>3
  <2> HIDE DEF P
  <2> QED
    BY <1>3, <2>1, Induction
<1>6. \A i \in 0 .. n : i \in Nat /\ i <= n
  BY <1>2
<1>7. \A i \in 0 .. n : Path(t, g[i]) = Goes(i)
  <2> HIDE DEF Goes
  <2> QED
    BY <1>5, <1>6
<1> QED
  BY <1>7


-----------------------------------------------------------------------------
(* The levels of the configuration along a way: level b is what is outside, up to the
   root's options, and each one above has the options of its group set on the one
   below. *)

Opens(params, out, L, g, n, b) ==
  /\ b \in Nat \ {0} /\ b + n <= Len(L)
  /\ After(L[b], params[Root]) = After(out, params[Root])
  /\ \A i \in 1 .. n : L[b + i] = After(L[b + i - 1], params[g[i - 1]])

\* It only depends on the levels it names, and on the options of the groups.
LEMMA OpensSame ==
  ASSUME NEW params, NEW out, NEW L, NEW g, NEW n \in Nat, NEW b, Opens(params, out, L, g, n, b),
         NEW m \in 0 .. n, NEW more, NEW M, NEW h, b + m <= Len(M),
         \A i \in b .. b + m : M[i] = L[i], more[Root] = params[Root],
         \A i \in 0 .. m : i < m => more[h[i]] = params[g[i]]
  PROVE  Opens(more, out, M, h, m, b)
<1>1. b \in Nat \ {0} /\ b \in b .. b + m /\ m \in Nat
  BY DEF Opens
<1>2. M[b] = L[b]
  BY <1>1
<1>3. After(M[b], more[Root]) = After(out, more[Root])
  BY <1>2 DEF Opens
<1>4. ASSUME NEW i \in 1 .. m PROVE M[b + i] = After(M[b + i - 1], more[h[i - 1]])
  <2>1. i \in 1 .. n /\ b + i \in b .. b + m /\ b + i - 1 \in b .. b + m /\ i - 1 \in 0 .. m /\ i - 1 < m
    BY <1>1
  <2>2. M[b + i] = L[b + i] /\ M[b + i - 1] = L[b + i - 1]
    BY <2>1
  <2>3. more[h[i - 1]] = params[g[i - 1]]
    BY <2>1
  <2>4. L[b + i] = After(L[b + i - 1], params[g[i - 1]])
    BY <2>1 DEF Opens
  <2> QED
    BY <2>2, <2>3, <2>4
<1> QED
  BY <1>1, <1>3, <1>4 DEF Opens

LEMMA OpensMore ==
  ASSUME NEW params, NEW out, NEW L, NEW g, NEW n \in Nat, NEW b, Opens(params, out, L, g, n, b),
         b + n + 1 <= Len(L), L[b + n + 1] = After(L[b + n], params[g[n]])
  PROVE  Opens(params, out, L, g, n + 1, b)
<1>1. b \in Nat \ {0} /\ b + (n + 1) <= Len(L)
  BY DEF Opens
<1>2. ASSUME NEW i \in 1 .. n + 1 PROVE L[b + i] = After(L[b + i - 1], params[g[i - 1]])
  <2>1. CASE i = n + 1
    <3>1. b + i = b + n + 1 /\ b + i - 1 = b + n /\ i - 1 = n
      BY <1>1, <2>1
    <3> QED
      BY <3>1
  <2>2. CASE i # n + 1
    <3>1. i \in 1 .. n
      BY <2>2
    <3> QED
      BY <3>1 DEF Opens
  <2> QED
    BY <2>1, <2>2
<1> QED
  BY <1>1, <1>2 DEF Opens

\* What the last level holds, from the options of the groups on the way.
LEMMA OpensEnv ==
  ASSUME NEW params \in [Nodes -> Params], NEW out, NEW L, NEW g \in [Nat -> Nodes], g[0] = Root,
         NEW n \in Nat, n > 0, NEW b, Opens(params, out, L, g, n, b)
  PROVE  L[b + n] = After(out, FlattenSeq([j \in 1 .. n |-> params[g[j - 1]]]))
<1> DEFINE T == Options \X Values
           Of(k) == [j \in 1 .. k |-> params[g[j - 1]]]
           P == {k \in Nat : 1 <= k /\ k <= n => L[b + k] = After(out, FlattenSeq(Of(k)))}
<1>1. b \in Nat \ {0} /\ \A i \in 1 .. n : L[b + i] = After(L[b + i - 1], params[g[i - 1]])
  BY DEF Opens
<1>2. \A j \in Nat : params[g[j]] \in Params
  OBVIOUS
<1>3. ASSUME NEW k \in Nat
      PROVE  Of(k) \in Pieces(T) /\ FlattenSeq(Of(k)) \in Params
  <2>1. \A j \in 1 .. k : params[g[j - 1]] \in Params
    BY <1>2
  <2>2. Of(k) \in Pieces(T)
    BY <2>1 DEF Params, Pieces
  <2> HIDE DEF Of, T
  <2>3. FlattenSeq(Of(k)) \in Seq(T)
    BY <2>2, FlattenType
  <2> QED
    BY <2>2, <2>3 DEF Params, T
<1>4. ASSUME NEW k \in Nat PROVE Of(k + 1) = Append(Of(k), params[g[k]])
  <2>1. Of(k) \in Seq(Params) /\ Len(Of(k)) = k
    <3>1. \A j \in 1 .. k : params[g[j - 1]] \in Params
      BY <1>2
    <3> QED
      BY <3>1
  <2>2. \A j \in 1 .. k : Of(k)[j] = params[g[j - 1]]
    OBVIOUS
  <2> DEFINE s == Of(k)   u == Of(k + 1)
  <2>3. u = [j \in 1 .. k + 1 |-> params[g[j - 1]]]
    OBVIOUS
  <2> HIDE DEF s, u
  <2>4. Append(s, params[g[k]]) = [j \in 1 .. k + 1 |-> IF j = k + 1 THEN params[g[k]] ELSE s[j]]
    BY <2>1 DEF s
  <2>5. \A j \in 1 .. k + 1 : (IF j = k + 1 THEN params[g[k]] ELSE s[j]) = params[g[j - 1]]
    BY <2>2 DEF s
  <2>6. Append(s, params[g[k]]) = u
    BY <2>3, <2>4, <2>5
  <2> QED
    BY <2>6 DEF s, u
<1>5. L[b + 1] = After(out, FlattenSeq(Of(1)))
  <2>1. 1 \in 1 .. n
    OBVIOUS
  <2>2. L[b + 1] = After(L[b + 1 - 1], params[g[1 - 1]])
    BY <1>1, <2>1
  <2>3. b + 1 - 1 = b /\ 1 - 1 = 0
    BY <1>1
  <2>4. L[b + 1] = After(L[b], params[Root])
    BY <2>2, <2>3
  <2>5. Of(1) = <<params[Root]>> /\ params[Root] \in Seq(T)
    BY PlayTreeAssumption DEF Params
  <2>6. FlattenSeq(Of(1)) = params[Root]
    <3> HIDE DEF Of, T
    <3> QED
      BY <2>5, FlattenOne
  <2> HIDE DEF Of
  <2> QED
    BY <2>4, <2>6 DEF Opens
<1>6. ASSUME NEW k \in Nat, k >= 1, k + 1 <= n, L[b + k] = After(out, FlattenSeq(Of(k)))
      PROVE  L[b + (k + 1)] = After(out, FlattenSeq(Of(k + 1)))
  <2>1. k + 1 \in 1 .. n /\ b + (k + 1) - 1 = b + k /\ (k + 1) - 1 = k
    BY <1>1, <1>6
  <2>2. L[b + (k + 1)] = After(L[b + k], params[g[k]])
    BY <1>1, <2>1
  <2>3. FlattenSeq(Of(k + 1)) = FlattenSeq(Of(k)) \o params[g[k]]
    <3>1. Of(k) \in Pieces(T) /\ params[g[k]] \in Seq(T)
      BY <1>2, <1>3 DEF Params
    <3> HIDE DEF Of, T
    <3> QED
      BY <1>4, <3>1, FlattenAppend
  <2> HIDE DEF Of
  <2>4. FlattenSeq(Of(k)) \in Params /\ params[g[k]] \in Params
    BY <1>2, <1>3
  <2>5. After(out, FlattenSeq(Of(k)) \o params[g[k]]) = After(After(out, FlattenSeq(Of(k))), params[g[k]])
    BY <2>4, AfterBoth
  <2> QED
    BY <1>6, <2>2, <2>3, <2>5
<1>7. Nat \subseteq P
  <2>1. 0 \in P
    OBVIOUS
  <2>2. ASSUME NEW k \in Nat, k \in P PROVE k + 1 \in P
    <3> HIDE DEF Of
    <3>1. CASE k = 0
      <4>1. k + 1 = 1
        BY <3>1
      <4> QED
        BY <1>5, <4>1
    <3>2. CASE k # 0
      <4>1. k >= 1 /\ (k + 1 <= n => k <= n)
        BY <3>2
      <4>2. k + 1 <= n => L[b + k] = After(out, FlattenSeq(Of(k)))
        BY <2>2, <4>1
      <4>3. k + 1 <= n => L[b + (k + 1)] = After(out, FlattenSeq(Of(k + 1)))
        BY <1>6, <4>1, <4>2
      <4> QED
        BY <4>3
    <3> QED
      BY <3>1, <3>2
  <2> HIDE DEF P
  <2> QED
    BY <2>1, <2>2, Induction
<1>8. 1 <= n /\ n <= n
  OBVIOUS
<1> HIDE DEF Of
<1>9. L[b + n] = After(out, FlattenSeq(Of(n)))
  BY <1>7, <1>8
<1> QED
  BY <1>9 DEF Of


-----------------------------------------------------------------------------
(* An iterator stands at the end of a way, with a level for each group on it. *)

Height(b, it) == b + Len(it.stack) + (IF it.pushed THEN 1 ELSE 0)

Fits(t, out, c, it, g, b) ==
  /\ Way(t.kids, g, Len(it.stack)) /\ Opens(t.params, out, Levels(c), g, Len(it.stack), b)
  /\ c.lvl = Height(b, it)
  /\ it.tree = None => it.stack = << >> /\ ~it.pushed
  /\ it.tree # None => it.tree = g[Len(it.stack)]

Stands(t, out, c, it) == \E g, b : Fits(t, out, c, it, g, b)

LEMMA FitsHeight ==
  ASSUME NEW t, NEW out, NEW c, Stacked(c), NEW it, NEW g, NEW b, Fits(t, out, c, it, g, b)
  PROVE  c.lvl = Height(b, it)
BY DEF Fits

LEMMA FitsIs ==
  ASSUME NEW t, NEW out, NEW c, Stacked(c), NEW it, NEW g, NEW b, Fits(t, out, c, it, g, b)
  PROVE  /\ Len(it.stack) \in Nat /\ b \in Nat \ {0} /\ c.lvl \in Nat /\ Len(Levels(c)) = c.lvl
         /\ b + Len(it.stack) <= c.lvl
         /\ g \in [Nat -> Nodes] /\ g[0] = Root /\ \A i \in Nat : g[i] \in Nodes
<1>1. Len(it.stack) \in Nat /\ g \in [Nat -> Nodes] /\ g[0] = Root /\ \A i \in Nat : g[i] \in Nodes
  BY WayIs DEF Fits
<1>2. c.lvl \in Nat /\ Len(Levels(c)) = c.lvl
  BY TopIs
<1>3. b \in Nat \ {0} /\ b + Len(it.stack) <= Len(Levels(c))
  BY DEF Fits, Opens
<1>4. b + Len(it.stack) <= c.lvl
  BY <1>2, <1>3
<1> QED
  BY <1>1, <1>2, <1>3, <1>4

\* What does not touch the way, or the levels on it.
LEMMA StandsSame ==
  ASSUME NEW t, NEW out, NEW c, Stacked(c), NEW it, NEW g, NEW b, Fits(t, out, c, it, g, b),
         NEW u, u.kids = t.kids, u.params = t.params, NEW d, Stacked(d), NEW go,
         \A i \in b .. b + Len(it.stack) : Levels(d)[i] = Levels(c)[i],
         d.lvl = Height(b, go), go.stack = it.stack, go.tree = it.tree,
         go.tree = None => ~go.pushed
  PROVE  Fits(u, out, d, go, g, b)
<1> DEFINE n == Len(it.stack)
<1>1. n \in Nat /\ b \in Nat \ {0}
  BY FitsIs
<1>2. Way(u.kids, g, Len(go.stack)) /\ Len(go.stack) = n
  BY DEF Fits
<1>3. Opens(u.params, out, Levels(d), g, n, b)
  <2>1. Opens(t.params, out, Levels(c), g, n, b) /\ n \in 0 .. n
    BY <1>1 DEF Fits
  <2>2. Len(Levels(d)) = d.lvl /\ d.lvl = Height(b, go)
    BY TopIs
  <2>3. b + n <= Len(Levels(d))
    <3>1. CASE go.pushed
      BY <1>1, <2>2, <3>1 DEF Height
    <3>2. CASE ~go.pushed
      BY <1>1, <2>2, <3>2 DEF Height
    <3> QED
      BY <3>1, <3>2
  <2>4. /\ \A i \in b .. b + n : Levels(d)[i] = Levels(c)[i]
        /\ \A i \in 0 .. n : i < n => u.params[g[i]] = t.params[g[i]]
        /\ u.params[Root] = t.params[Root]
    OBVIOUS
  <2> HIDE DEF n
  <2> QED
    BY <1>1, <2>1, <2>3, <2>4, OpensSame
<1> QED
  BY <1>2, <1>3 DEF Fits

\* The level of the entry is closed.
LEMMA LeftFits ==
  ASSUME NEW t, NEW out, NEW c, Stacked(c), NEW it, it.pushed \in BOOLEAN, NEW g, NEW b, Fits(t, out, c, it, g, b),
         NEW u, u.kids = t.kids, u.params = t.params,
         NEW go, go.stack = it.stack, go.tree = it.tree, ~go.pushed
  PROVE  Fits(u, out, IF it.pushed THEN PopConfig(c) ELSE c, go, g, b)
<1>0. c.lvl = Height(b, it)
  BY FitsHeight
<1> DEFINE n == Len(it.stack)
<1>1. n \in Nat /\ b \in Nat \ {0} /\ c.lvl \in Nat
  BY FitsIs
<1>2. CASE it.pushed
  <2> DEFINE d == PopConfig(c)
  <2>0. c.lvl = b + n + 1
    BY <1>0, <1>2 DEF Height
  <2>1. c.lvl > 1 /\ c.lvl = b + n + 1
    BY <1>1, <2>0
  <2>2. Stacked(d) /\ d.lvl = c.lvl - 1 /\ \A i \in 1 .. c.lvl - 1 : Levels(d)[i] = Levels(c)[i]
    BY <2>1, PopRest
  <2> HIDE DEF d
  <2>3. d.lvl = Height(b, go)
    BY <1>1, <2>1, <2>2 DEF Height
  <2>4. \A i \in b .. b + n : Levels(d)[i] = Levels(c)[i]
    <3>1. \A i \in b .. b + n : i \in 1 .. c.lvl - 1
      BY <1>1, <2>1
    <3> QED
      BY <2>2, <3>1
  <2>5. Fits(u, out, d, go, g, b)
    BY <2>2, <2>3, <2>4, StandsSame
  <2> QED
    BY <1>2, <2>5 DEF d
<1>3. CASE ~it.pushed
  <2>1. c.lvl = Height(b, go)
    BY <1>0, <1>3 DEF Height
  <2>2. Fits(u, out, c, go, g, b)
    BY <2>1, StandsSame
  <2> QED
    BY <1>3, <2>2
<1> QED
  BY <1>2, <1>3


\* The level of an entry is opened.
LEMMA PushFits ==
  ASSUME NEW t, NEW out, NEW c, Stacked(c), NEW it, NEW g, NEW b, Fits(t, out, c, it, g, b), ~it.pushed,
         NEW params \in Params,
         NEW u, u.kids = t.kids, u.params = t.params,
         NEW go, go.stack = it.stack, go.tree = it.tree, go.tree # None, go.pushed
  PROVE  Fits(u, out, SetOptions(PushConfig(c), params), go, g, b)
<1> DEFINE n == Len(it.stack)   d == SetOptions(PushConfig(c), params)
<1>1. c.lvl = b + n + 0
  <2>1. c.lvl = Height(b, it)
    BY FitsHeight
  <2> QED
    BY <2>1 DEF Height
<1>2. n \in Nat /\ b \in Nat \ {0} /\ c.lvl \in Nat
  BY FitsIs
<1>3. Stacked(d) /\ d.lvl = c.lvl + 1 /\ \A i \in 1 .. c.lvl : Levels(d)[i] = Levels(c)[i]
  BY PushTop
<1> HIDE DEF d
<1>4. d.lvl = Height(b, go)
  BY <1>1, <1>2, <1>3 DEF Height
<1>5. \A i \in b .. b + n : i \in 1 .. c.lvl
  BY <1>1, <1>2
<1>6. \A i \in b .. b + n : Levels(d)[i] = Levels(c)[i]
  BY <1>3, <1>5
<1>7. Fits(u, out, d, go, g, b)
  BY <1>3, <1>4, <1>6, StandsSame
<1> QED
  BY <1>7 DEF d

\* Another node of the same group.
LEMMA SideFits ==
  ASSUME NEW level \in Layers, NEW t, Tree(t, level), Single(t), NEW out, NEW c, Stacked(c),
         NEW it, it.tree \in Nodes, NEW g, NEW b, Fits(t, out, c, it, g, b),
         NEW go, go.stack = it.stack, go.pushed = it.pushed, go.tree \in Range(Siblings(t, it.tree))
  PROVE  \E h : Fits(t, out, c, go, h, b)
<1> DEFINE n == Len(it.stack)   k == go.tree
<1>1. n \in Nat /\ b \in Nat \ {0} /\ g \in [Nat -> Nodes] /\ \A i \in Nat : g[i] \in Nodes
  BY FitsIs
<1>2. /\ Way(t.kids, g, n) /\ Opens(t.params, out, Levels(c), g, n, b) /\ c.lvl = Height(b, it)
      /\ it.tree = g[n]
  BY PlayTreeAssumption DEF Fits
<1>3. Parent(t, Root) = None /\ \A i \in 1 .. n : Parent(t, g[i]) = g[i - 1]
  <2> HIDE DEF n
  <2>1. Around(t, g, n)
    BY <1>2, WayParent
  <2> QED
    BY <2>1 DEF Around
<1>4. Height(b, go) = Height(b, it)
  BY DEF Height
<1>5. k \in Nodes
  BY SiblingsAre
<1>6. k # None
  BY <1>5, PlayTreeAssumption
<1>7. b + n <= Len(Levels(c))
  BY <1>2 DEF Opens
<1>8. CASE n = 0
  <2>1. it.tree = Root
    BY <1>2, <1>8 DEF Way
  <2>2. Siblings(t, it.tree) = <<Root>>
    BY <1>3, <2>1 DEF Siblings
  <2>3. k = Root
    BY <2>2 DEF Range
  <2>4. Fits(t, out, c, go, g, b)
    BY <1>2, <1>4, <1>6, <2>1, <2>3 DEF Fits
  <2> QED
    BY <2>4
<1>9. CASE n # 0
  <2> DEFINE m == n - 1   h == [g EXCEPT ![m + 1] = k]
  <2>1. m \in 0 .. n /\ m + 1 = n /\ n \in 1 .. n /\ m \in Nat
    BY <1>1, <1>9
  <2>2. Parent(t, it.tree) = g[m] /\ g[m] # None
    BY <1>1, <1>2, <1>3, <2>1, PlayTreeAssumption
  <2>3. k \in Range(t.kids[g[m]])
    <3>1. Siblings(t, it.tree) = t.kids[g[m]]
      BY <2>2 DEF Siblings
    <3> QED
      BY <3>1
  <2> HIDE DEF m, n, k
  <2>4. Way(t.kids, g, m)
    BY <1>2, <2>1, WayUp
  <2>5. Way(t.kids, h, m + 1) /\ (\A i \in 0 .. m : h[i] = g[i]) /\ h[m + 1] = k
    BY <1>5, <2>3, <2>4, WayTo
  <2> HIDE DEF h
  <2>6. \A i \in 0 .. n : i < n => t.params[h[i]] = t.params[g[i]]
    <3>1. \A i \in 0 .. n : i < n => i \in 0 .. m
      BY <1>1, <2>1
    <3> QED
      BY <2>5, <3>1
  <2>7. Opens(t.params, out, Levels(c), h, n, b)
    <3>1. n \in 0 .. n
      BY <1>1
    <3> QED
      BY <1>1, <1>2, <1>7, <2>6, <3>1, OpensSame
  <2>8. Fits(t, out, c, go, h, b)
    BY <1>2, <1>4, <1>6, <2>1, <2>5, <2>7 DEF Fits, n, k
  <2> QED
    BY <2>8
<1> QED
  BY <1>8, <1>9

\* Down into a group, whose level is opened.
LEMMA DownFits ==
  ASSUME NEW level \in Layers, NEW t, Tree(t, level), NEW out, NEW c, Stacked(c),
         NEW it, it.tree \in Nodes, NEW g, NEW b, Fits(t, out, c, it, g, b), ~it.pushed,
         NEW go, Len(go.stack) = Len(it.stack) + 1, ~go.pushed, go.tree \in Range(t.kids[it.tree])
  PROVE  \E h : Fits(t, out, SetOptions(PushConfig(c), t.params[it.tree]), go, h, b)
<1> DEFINE n == Len(it.stack)   k == go.tree   params == t.params[it.tree]
           d == SetOptions(PushConfig(c), params)   h == [g EXCEPT ![n + 1] = k]
<1>1. n \in Nat /\ b \in Nat \ {0} /\ g \in [Nat -> Nodes] /\ c.lvl \in Nat
  BY FitsIs
<1>2. /\ Way(t.kids, g, n) /\ Opens(t.params, out, Levels(c), g, n, b) /\ c.lvl = Height(b, it)
      /\ it.tree = g[n]
  BY PlayTreeAssumption DEF Fits
<1>3. c.lvl = b + n
  <2>1. c.lvl = b + n + 0
    BY <1>2 DEF Height
  <2> QED
    BY <1>1, <2>1
<1>4. k \in Nodes /\ params \in Params
  BY TreeFields
<1>5. Stacked(d) /\ d.lvl = c.lvl + 1 /\ \A i \in 1 .. c.lvl : Levels(d)[i] = Levels(c)[i]
  <2> HIDE DEF params
  <2> QED
    BY <1>4, PushTop
<1>6. Levels(d)[c.lvl + 1] = After(Levels(c)[c.lvl], params)
  <2> HIDE DEF params
  <2> QED
    BY <1>4, PushTop
<1> HIDE DEF d
<1>7. Way(t.kids, h, n + 1) /\ (\A i \in 0 .. n : h[i] = g[i]) /\ h[n + 1] = k
  <2>1. k \in Range(t.kids[g[n]])
    BY <1>2
  <2> HIDE DEF n, k
  <2> QED
    BY <1>2, <1>4, <2>1, WayTo
<1> HIDE DEF h
<1>8. Len(Levels(d)) = b + n + 1
  <2>1. Len(Levels(d)) = d.lvl
    BY <1>5, TopIs
  <2> QED
    BY <1>1, <1>3, <1>5, <2>1
<1>9. Opens(t.params, out, Levels(d), h, n, b)
  <2>1. \A i \in b .. b + n : Levels(d)[i] = Levels(c)[i]
    <3>1. \A i \in b .. b + n : i \in 1 .. c.lvl
      BY <1>1, <1>3
    <3> QED
      BY <1>5, <3>1
  <2>2. \A i \in 0 .. n : i < n => t.params[h[i]] = t.params[g[i]]
    BY <1>7
  <2>3. n \in 0 .. n /\ b + n <= Len(Levels(d))
    BY <1>1, <1>8
  <2> HIDE DEF n
  <2> QED
    BY <1>1, <1>2, <2>1, <2>2, <2>3, OpensSame
<1>10. Opens(t.params, out, Levels(d), h, n + 1, b)
  <2>1. Levels(d)[b + n + 1] = After(Levels(c)[b + n], params)
    BY <1>3, <1>6
  <2>2. Levels(d)[b + n] = Levels(c)[b + n]
    <3>1. b + n \in 1 .. c.lvl
      BY <1>1, <1>3
    <3> QED
      BY <1>5, <3>1
  <2>3. params = t.params[h[n]]
    <3>1. n \in 0 .. n
      BY <1>1
    <3> QED
      BY <1>2, <1>7, <3>1
  <2>4. Levels(d)[b + n + 1] = After(Levels(d)[b + n], t.params[h[n]])
    <3> HIDE DEF params, n
    <3> QED
      BY <2>1, <2>2, <2>3
  <2>5. b + n + 1 <= Len(Levels(d))
    BY <1>1, <1>8
  <2> HIDE DEF n
  <2> QED
    BY <1>1, <1>9, <2>4, <2>5, OpensMore
<1>11. d.lvl = Height(b, go)
  <2>1. Height(b, go) = b + (n + 1) + 0
    BY DEF Height
  <2> QED
    BY <1>1, <1>3, <1>5, <2>1
<1>12. k # None
  BY <1>4, PlayTreeAssumption
<1>13. Fits(t, out, d, go, h, b)
  BY <1>7, <1>10, <1>11, <1>12 DEF Fits
<1> QED
  BY <1>13 DEF d

\* Up out of a group, whose level is closed.
LEMMA UpFits ==
  ASSUME NEW level \in Layers, NEW t, Tree(t, level), Single(t), NEW out, NEW c, Stacked(c),
         NEW it, it.tree \in Nodes, NEW g, NEW b, Fits(t, out, c, it, g, b), Parent(t, it.tree) # None,
         NEW u, u.kids = t.kids, u.params = t.params,
         NEW go, Len(go.stack) = Len(it.stack) - 1, go.pushed = it.pushed, go.tree = Parent(t, it.tree)
  PROVE  Fits(u, out, PopConfig(c), go, g, b)
<1> DEFINE n == Len(it.stack)   m == n - 1   d == PopConfig(c)
<1>1. n \in Nat /\ b \in Nat \ {0} /\ g \in [Nat -> Nodes] /\ c.lvl \in Nat /\ \A i \in Nat : g[i] \in Nodes
  BY FitsIs
<1>2. /\ Way(t.kids, g, n) /\ Opens(t.params, out, Levels(c), g, n, b) /\ c.lvl = Height(b, it)
      /\ it.tree = g[n]
  BY PlayTreeAssumption DEF Fits
<1>3. Parent(t, Root) = None /\ \A i \in 1 .. n : Parent(t, g[i]) = g[i - 1]
  <2> HIDE DEF n
  <2>1. Around(t, g, n)
    BY <1>2, WayParent
  <2> QED
    BY <2>1 DEF Around
<1>4. n # 0
  <2>1. g[0] = Root
    BY <1>2 DEF Way
  <2> QED
    BY <1>2, <1>3, <2>1
<1>5. m \in 0 .. n /\ m \in Nat /\ n \in 1 .. n /\ m < n
  BY <1>1, <1>4
<1>6. go.tree = g[m] /\ go.tree # None
  BY <1>1, <1>2, <1>3, <1>5, PlayTreeAssumption
<1>7. Way(t.kids, g, m)
  <2> HIDE DEF n, m
  <2> QED
    BY <1>2, <1>5, WayUp
<1>8. c.lvl = b + n \/ c.lvl = b + n + 1
  <2>1. c.lvl = b + n + 0 \/ c.lvl = b + n + 1
    BY <1>2 DEF Height
  <2> QED
    BY <1>1, <2>1
<1>9. Stacked(d) /\ d.lvl = c.lvl - 1 /\ \A i \in 1 .. c.lvl - 1 : Levels(d)[i] = Levels(c)[i]
  <2>1. c.lvl > 1
    BY <1>1, <1>4, <1>8
  <2> QED
    BY <2>1, PopRest
<1> HIDE DEF d
<1>10. Opens(u.params, out, Levels(d), g, m, b)
  <2>1. \A i \in b .. b + m : Levels(d)[i] = Levels(c)[i]
    <3>1. \A i \in b .. b + m : i \in 1 .. c.lvl - 1
      BY <1>1, <1>5, <1>8
    <3> QED
      BY <1>9, <3>1
  <2>2. b + m <= Len(Levels(d))
    <3>1. Len(Levels(d)) = d.lvl
      BY <1>9, TopIs
    <3> QED
      BY <1>1, <1>5, <1>8, <1>9, <3>1
  <2>3. \A i \in 0 .. m : i < m => u.params[g[i]] = t.params[g[i]]
    OBVIOUS
  <2> HIDE DEF n, m
  <2> QED
    BY <1>1, <1>2, <1>5, <2>1, <2>2, <2>3, OpensSame
<1>11. d.lvl = Height(b, go)
  <2>1. CASE it.pushed
    <3>1. c.lvl = b + n + 1 /\ Height(b, go) = b + m + 1
      BY <1>2, <2>1 DEF Height
    <3> QED
      BY <1>1, <1>9, <3>1
  <2>2. CASE ~it.pushed
    <3>1. c.lvl = b + n + 0 /\ Height(b, go) = b + m + 0
      BY <1>2, <2>2 DEF Height
    <3> QED
      BY <1>1, <1>9, <3>1
  <2> QED
    BY <2>1, <2>2
<1>12. Fits(u, out, d, go, g, b)
  BY <1>6, <1>7, <1>10, <1>11 DEF Fits
<1> QED
  BY <1>12 DEF d


\* Where an iterator stands is the root, or in a group.
LEMMA FitsPlace ==
  ASSUME NEW level \in Layers, NEW t, Tree(t, level), Single(t), NEW out, NEW c, Stacked(c),
         NEW it, it.tree \in Nodes, NEW g, NEW b, Fits(t, out, c, it, g, b)
  PROVE  /\ it.tree = g[Len(it.stack)] /\ level[it.tree] = Len(it.stack)
         /\ it.tree = Root \/ Parent(t, it.tree) # None
         /\ it.tree = Root <=> Len(it.stack) = 0
<1> DEFINE n == Len(it.stack)
<1>1. n \in Nat /\ \A i \in Nat : g[i] \in Nodes
  BY FitsIs
<1>2. Way(t.kids, g, n) /\ it.tree = g[n]
  BY PlayTreeAssumption DEF Fits
<1> HIDE DEF n
<1>3. Around(t, g, n) /\ \A i \in 0 .. n : level[g[i]] = i
  BY <1>2, WayParent, WayLevels
<1>4. n \in 0 .. n /\ level[it.tree] = n /\ level[Root] = 0 /\ g[0] = Root
  BY <1>1, <1>2, <1>3, TreeFields DEF Way
<1>5. n # 0 => Parent(t, it.tree) # None
  <2> SUFFICES ASSUME n # 0 PROVE Parent(t, it.tree) # None
    OBVIOUS
  <2>1. n \in 1 .. n /\ n - 1 \in Nat
    BY <1>1
  <2>2. Parent(t, it.tree) = g[n - 1]
    BY <1>2, <1>3, <2>1 DEF Around
  <2>3. g[n - 1] \in Nodes
    BY <1>1, <2>1
  <2> QED
    BY <2>2, <2>3, PlayTreeAssumption
<1> QED
  BY <1>2, <1>4, <1>5 DEF n

\* The tree changes, off the way.
LEMMA TreeFits ==
  ASSUME NEW level \in Layers, NEW t, Tree(t, level), Single(t), NEW out, NEW c, Stacked(c),
         NEW it, NEW g, NEW b, Fits(t, out, c, it, g, b), NEW u,
         \A m \in Nodes : m = Root \/ Parent(t, m) # None => u.params[m] = t.params[m],
         Len(it.stack) # 0 => \A m \in Nodes : \A k \in Range(t.kids[m]) :
                                k \in Range(Path(t, it.tree)) => k \in Range(u.kids[m])
  PROVE  Fits(u, out, c, it, g, b)
<1> DEFINE n == Len(it.stack)
<1>1. n \in Nat /\ b \in Nat \ {0} /\ \A i \in Nat : g[i] \in Nodes
  BY FitsIs
<1>2. Way(t.kids, g, n) /\ Opens(t.params, out, Levels(c), g, n, b)
  BY DEF Fits
<1>3. Around(t, g, n) /\ \A i \in 0 .. n : Path(t, g[i]) = [j \in 1 .. i + 1 |-> g[j - 1]]
  <2> HIDE DEF n
  <2>1. Way(t.kids, g, n)
    BY <1>2
  <2>2. Around(t, g, n)
    BY <2>1, WayParent
  <2>3. \A i \in 0 .. n : Path(t, g[i]) = [j \in 1 .. i + 1 |-> g[j - 1]]
    BY <2>1, WayPath
  <2> QED
    BY <2>2, <2>3
<1>4. \A i \in 0 .. n : g[i] \in Nodes /\ u.params[g[i]] = t.params[g[i]]
  <2> SUFFICES ASSUME NEW i \in 0 .. n PROVE g[i] \in Nodes /\ u.params[g[i]] = t.params[g[i]]
    OBVIOUS
  <2>1. g[i] \in Nodes
    BY <1>1
  <2>2. CASE i = 0
    <3>1. g[i] = Root
      BY <1>2, <2>2 DEF Way
    <3> QED
      BY <2>1, <3>1
  <2>3. CASE i # 0
    <3>1. i \in 1 .. n /\ i - 1 \in Nat
      BY <1>1, <2>3
    <3>2. Parent(t, g[i]) = g[i - 1] /\ g[i - 1] \in Nodes
      BY <1>1, <1>3, <3>1 DEF Around
    <3>3. Parent(t, g[i]) # None
      BY <3>2, PlayTreeAssumption
    <3> QED
      BY <2>1, <3>3
  <2> QED
    BY <2>2, <2>3
<1>5. Way(u.kids, g, n)
  <2>1. ASSUME NEW i \in 1 .. n, g[i] \in Range(t.kids[g[i - 1]]) PROVE g[i] \in Range(u.kids[g[i - 1]])
    <3>1. n # 0 /\ n \in 0 .. n /\ i \in 0 .. n /\ i - 1 \in Nat /\ i + 1 \in 1 .. n + 1 /\ (i + 1) - 1 = i
      BY <1>1
    <3>2. it.tree = g[n]
      <4>1. it.tree # None
        BY <3>1 DEF Fits
      <4> QED
        BY <4>1 DEF Fits
    <3>3. Path(t, it.tree) = [j \in 1 .. n + 1 |-> g[j - 1]]
      BY <1>3, <3>1, <3>2
    <3>4. g[i] \in Range(Path(t, it.tree))
      <4> DEFINE p == Path(t, it.tree)
      <4>1. DOMAIN p = 1 .. n + 1 /\ p[i + 1] = g[(i + 1) - 1]
        BY <3>1, <3>3
      <4>2. i + 1 \in DOMAIN p /\ p[i + 1] = g[i]
        BY <3>1, <4>1
      <4> HIDE DEF p
      <4>3. g[i] \in Range(p)
        BY <4>2 DEF Range
      <4> QED
        BY <4>3 DEF p
    <3>5. g[i - 1] \in Nodes
      BY <1>1, <3>1
    <3> QED
      BY <2>1, <3>1, <3>4, <3>5
  <2> HIDE DEF n
  <2> QED
    BY <1>2, <2>1, WayMore
<1>6. Opens(u.params, out, Levels(c), g, n, b)
  <2>1. \A i \in 0 .. n : i < n => u.params[g[i]] = t.params[g[i]]
    BY <1>4
  <2>2. u.params[Root] = t.params[Root]
    BY PlayTreeAssumption
  <2>3. n \in 0 .. n /\ b + n <= Len(Levels(c))
    BY <1>1, <1>2 DEF Opens
  <2> HIDE DEF n
  <2> QED
    BY <1>1, <1>2, <2>1, <2>2, <2>3, OpensSame
<1> QED
  BY <1>5, <1>6 DEF Fits

LEMMA RootFits ==
  ASSUME NEW t, NEW out, NEW c, NEW it, NEW g, NEW b, Fits(t, out, c, it, g, b), it.stack = << >>,
         NEW go, go.stack = it.stack, go.pushed = it.pushed, go.tree = Root
  PROVE  Fits(t, out, c, go, g, b)
<1>1. Root # None /\ Height(b, go) = Height(b, it) /\ g[Len(go.stack)] = Root
  BY PlayTreeAssumption DEF Fits, Way, Height
<1> QED
  BY <1>1 DEF Fits

-----------------------------------------------------------------------------
(* No node comes into two groups. *)

LEMMA ParentNone ==
  ASSUME NEW t, NEW n, Parent(t, n) = None
  PROVE  \A m \in Nodes : n \notin Range(t.kids[m])
<1> DEFINE ps == {p \in Nodes : n \in Range(t.kids[p])}
<1>1. ASSUME ps # {} PROVE FALSE
  <2>1. Parent(t, n) = CHOOSE p \in ps : TRUE
    BY <1>1 DEF Parent
  <2>2. Parent(t, n) \in ps
    BY <1>1, <2>1
  <2> QED
    BY <2>2, PlayTreeAssumption
<1> QED
  BY <1>1

LEMMA ParentSame ==
  ASSUME NEW t, NEW u, u.kids = t.kids
  PROVE  /\ Single(u) <=> Single(t)
         /\ \A n : Parent(u, n) = Parent(t, n)
BY DEF Single, Parent

LEMMA SingleMore ==
  ASSUME NEW t, Single(t), NEW n, Parent(t, n) = None, NEW u, NEW p,
         \A m \in Nodes : \A k \in Range(u.kids[m]) : k \in Range(t.kids[m]) \/ (m = p /\ k = n)
  PROVE  Single(u)
<1>1. \A m \in Nodes : n \notin Range(t.kids[m])
  BY ParentNone
<1>2. ASSUME NEW q \in Nodes, NEW r \in Nodes, q # r, NEW k \in Range(u.kids[q]), k \in Range(u.kids[r])
      PROVE  FALSE
  <2>1. k \in Range(t.kids[q]) \/ (q = p /\ k = n)
    OBVIOUS
  <2>2. k \in Range(t.kids[r]) \/ (r = p /\ k = n)
    BY <1>2
  <2>3. ~(k \in Range(t.kids[q]) /\ k \in Range(t.kids[r]))
    BY <1>2 DEF Single
  <2> QED
    BY <1>1, <1>2, <2>1, <2>2, <2>3
<1> QED
  BY <1>2 DEF Single

LEMMA SingleLess ==
  ASSUME NEW t, Single(t), NEW u, \A m \in Nodes : \A k \in Range(u.kids[m]) : k \in Range(t.kids[m])
  PROVE  Single(u)
BY DEF Single


-----------------------------------------------------------------------------
(* What the operators of the tree keep of it. *)

LEMMA InsertHas ==
  ASSUME NEW s \in Seq(Nodes), NEW i \in 1 .. Len(s) + 1, NEW n \in Nodes
  PROVE  \A k \in Range(s) : k \in Range(InsertAt(s, i, n))
<1> DEFINE a == SubSeq(s, 1, i - 1)   b == SubSeq(s, i, Len(s))   c == a \o <<n>>   d == c \o b
<1>1. Len(s) \in Nat /\ i \in Nat /\ i >= 1 /\ i <= Len(s) + 1
  OBVIOUS
<1>2. a \in Seq(Nodes) /\ Len(a) = i - 1 /\ \A j \in 1 .. i - 1 : a[j] = s[j]
  BY <1>1
<1>3. b \in Seq(Nodes) /\ Len(b) = Len(s) - i + 1 /\ \A j \in 1 .. Len(s) - i + 1 : b[j] = s[j + i - 1]
  BY <1>1
<1>4. InsertAt(s, i, n) = d
  BY DEF InsertAt
<1> HIDE DEF a, b
<1>5. c \in Seq(Nodes) /\ Len(c) = i /\ \A j \in 1 .. i : c[j] = IF j = i THEN n ELSE a[j]
  BY <1>1, <1>2
<1> HIDE DEF c
<1>6. Len(d) = Len(s) + 1 /\ d \in Seq(Nodes)
      /\ \A j \in 1 .. Len(s) + 1 : d[j] = IF j <= i THEN c[j] ELSE b[j - i]
  <2>1. d \in Seq(Nodes) /\ Len(d) = Len(c) + Len(b)
        /\ \A j \in 1 .. Len(c) + Len(b) : d[j] = IF j <= Len(c) THEN c[j] ELSE b[j - Len(c)]
    BY <1>3, <1>5, ConcatIs
  <2> HIDE DEF d
  <2>2. Len(c) = i /\ Len(c) + Len(b) = Len(s) + 1
    BY <1>1, <1>3, <1>5
  <2> QED
    BY <2>1, <2>2
<1> HIDE DEF d
<1>7. ASSUME NEW j \in 1 .. Len(s) PROVE s[j] \in Range(d)
  <2>1. CASE j < i
    <3>1. j \in 1 .. Len(s) + 1 /\ j <= i /\ j # i /\ j \in 1 .. i /\ j \in 1 .. i - 1
      BY <1>1, <2>1
    <3>2. d[j] = c[j] /\ c[j] = a[j] /\ a[j] = s[j]
      BY <1>2, <1>5, <1>6, <3>1
    <3>3. d[j] = s[j] /\ j \in DOMAIN d
      BY <1>6, <3>1, <3>2
    <3> QED
      BY <3>3 DEF Range
  <2>2. CASE j >= i
    <3>1. j + 1 \in 1 .. Len(s) + 1 /\ ~(j + 1 <= i) /\ j + 1 - i \in 1 .. Len(s) - i + 1
          /\ (j + 1 - i) + i - 1 = j
      BY <1>1, <2>2
    <3>2. d[j + 1] = b[j + 1 - i] /\ b[j + 1 - i] = s[j]
      BY <1>3, <1>6, <3>1
    <3>3. d[j + 1] = s[j] /\ j + 1 \in DOMAIN d
      BY <1>6, <3>1, <3>2
    <3> QED
      BY <3>3 DEF Range
  <2> QED
    BY <1>1, <2>1, <2>2
<1>8. \A k \in Range(s) : k \in Range(d)
  BY <1>7 DEF Range
<1> QED
  BY <1>4, <1>8

LEMMA RemoveHas ==
  ASSUME NEW s \in Seq(Nodes), NEW i \in 1 .. Len(s)
  PROVE  \A k \in Range(s) : k # s[i] => k \in Range(RemoveAt(s, i))
<1> DEFINE a == SubSeq(s, 1, i - 1)   b == SubSeq(s, i + 1, Len(s))   d == a \o b
<1>1. Len(s) \in Nat /\ i \in Nat /\ i >= 1 /\ i <= Len(s)
  OBVIOUS
<1>2. a \in Seq(Nodes) /\ Len(a) = i - 1 /\ \A j \in 1 .. i - 1 : a[j] = s[j]
  BY <1>1
<1>3. b \in Seq(Nodes) /\ Len(b) = Len(s) - i /\ \A j \in 1 .. Len(s) - i : b[j] = s[j + i]
  BY <1>1
<1>4. RemoveAt(s, i) = d
  BY DEF RemoveAt
<1> HIDE DEF a, b
<1>5. d \in Seq(Nodes) /\ Len(d) = Len(s) - 1
      /\ \A j \in 1 .. Len(s) - 1 : d[j] = IF j <= i - 1 THEN a[j] ELSE b[j - (i - 1)]
  <2>1. d \in Seq(Nodes) /\ Len(d) = Len(a) + Len(b)
        /\ \A j \in 1 .. Len(a) + Len(b) : d[j] = IF j <= Len(a) THEN a[j] ELSE b[j - Len(a)]
    BY <1>2, <1>3, ConcatIs
  <2> HIDE DEF d
  <2>2. Len(a) = i - 1 /\ Len(a) + Len(b) = Len(s) - 1
    BY <1>1, <1>2, <1>3
  <2> QED
    BY <2>1, <2>2
<1> HIDE DEF d
<1>6. ASSUME NEW j \in 1 .. Len(s), j # i PROVE s[j] \in Range(d)
  <2>1. CASE j < i
    <3>1. j \in 1 .. Len(s) - 1 /\ j <= i - 1 /\ j \in 1 .. i - 1
      BY <1>1, <2>1
    <3>2. d[j] = a[j] /\ a[j] = s[j]
      BY <1>2, <1>5, <3>1
    <3>3. d[j] = s[j] /\ j \in DOMAIN d
      BY <1>5, <3>1, <3>2
    <3> QED
      BY <3>3 DEF Range
  <2>2. CASE j > i
    <3> DEFINE l == j - 1
    <3>1. l \in 1 .. Len(s) - 1 /\ ~(l <= i - 1) /\ l - (i - 1) \in 1 .. Len(s) - i
          /\ (l - (i - 1)) + i = j
      BY <1>1, <2>2
    <3> HIDE DEF l
    <3>2. d[l] = b[l - (i - 1)] /\ b[l - (i - 1)] = s[j]
      BY <1>3, <1>5, <3>1
    <3>3. d[l] = s[j] /\ l \in DOMAIN d
      BY <1>5, <3>1, <3>2
    <3> QED
      BY <3>3 DEF Range
  <2> QED
    BY <1>1, <1>6, <2>1, <2>2
<1>7. \A k \in Range(s) : k # s[i] => k \in Range(d)
  BY <1>6 DEF Range
<1> QED
  BY <1>4, <1>7

\* A tree that only has other children at p.
Differs(t, u, p, s) == u.params = t.params /\ \A q \in Nodes : u.kids[q] = IF q = p THEN s ELSE t.kids[q]

LEMMA KidsOf ==
  ASSUME NEW level \in Layers, NEW t, Tree(t, level), NEW p \in Nodes, NEW s, NEW u,
         u = [t EXCEPT !.kids[p] = s]
  PROVE  Differs(t, u, p, s)
<1>1. t.kids \in [Nodes -> Seq(Nodes)] /\ t \in GivenTrees
  BY TreeFields DEF Tree
<1>2. t = [kids |-> t.kids, loop |-> t.loop, params |-> t.params, rnd |-> t.rnd, played |-> t.played]
  BY <1>1 DEF GivenTrees
<1> DEFINE x == [t.kids EXCEPT ![p] = s]
<1>3. u = [t EXCEPT !.kids = x]
  OBVIOUS
<1>4. \A q \in Nodes : x[q] = IF q = p THEN s ELSE t.kids[q]
  BY <1>1
<1> HIDE DEF x
<1>5. u.kids = x /\ u.params = t.params
  BY <1>2, <1>3
<1>6. \A q \in Nodes : u.kids[q] = IF q = p THEN s ELSE t.kids[q]
  BY <1>4, <1>5
<1> QED
  BY <1>5, <1>6 DEF Differs

\* A tree with one more child m of p.
Adds(t, u, p, m) ==
  /\ \A q \in Nodes : \A k \in Range(t.kids[q]) : k \in Range(u.kids[q])
  /\ \A q \in Nodes : \A k \in Range(u.kids[q]) : k \in Range(t.kids[q]) \/ (q = p /\ k = m)

LEMMA InsertAdds ==
  ASSUME NEW level \in Layers, NEW t, Tree(t, level), NEW n \in Nodes, NEW m \in Nodes, Parent(t, n) # None
  PROVE  /\ Adds(t, InsertAfter(t, n, m), Parent(t, n), m)
         /\ InsertAfter(t, n, m).params = t.params
<1> DEFINE p == Parent(t, n)   i == IndexOf(t.kids[p], n) + 1   s == InsertAt(t.kids[p], i, m)
           u == [t EXCEPT !.kids[p] = s]
<1>1. InsertAfter(t, n, m) = u
  BY DEF InsertAfter
<1>2. p \in Nodes /\ n \in Range(t.kids[p]) /\ t.kids[p] \in Seq(Nodes)
  BY ParentIs, TreeFields
<1> HIDE DEF p
<1>3. i \in 1 .. Len(t.kids[p]) + 1
  BY <1>2, IndexOfIs
<1> HIDE DEF i
<1>4. /\ \A k \in Range(s) : k \in Range(t.kids[p]) \cup {m}
      /\ \A k \in Range(t.kids[p]) : k \in Range(s)
  BY <1>2, <1>3, InsertIs, InsertHas
<1> HIDE DEF s
<1>5. Differs(t, u, p, s)
  BY <1>2, KidsOf
<1> HIDE DEF u
<1>6. Adds(t, u, p, m)
  BY <1>4, <1>5 DEF Adds, Differs
<1> QED
  BY <1>1, <1>5, <1>6 DEF p, Differs

LEMMA RemovedLess ==
  ASSUME NEW level \in Layers, NEW t, Tree(t, level), NEW n
  PROVE  LET u == Removed(t, n) IN
         /\ u.params = t.params
         /\ \A q \in Nodes : \A k \in Range(u.kids[q]) : k \in Range(t.kids[q])
         /\ \A q \in Nodes : \A k \in Range(t.kids[q]) : k # n => k \in Range(u.kids[q])
<1> DEFINE p == Parent(t, n)   i == IndexOf(t.kids[p], n)   s == RemoveAt(t.kids[p], i)
           u == [t EXCEPT !.kids[p] = s]
<1>1. CASE p = None
  <2>1. Removed(t, n) = t
    BY <1>1 DEF Removed
  <2> QED
    BY <2>1
<1>2. CASE p # None
  <2>1. Removed(t, n) = u
    BY <1>2 DEF Removed
  <2>2. p \in Nodes /\ n \in Range(t.kids[p]) /\ t.kids[p] \in Seq(Nodes)
    BY <1>2, ParentIs, TreeFields
  <2> HIDE DEF p
  <2>3. i \in 1 .. Len(t.kids[p]) /\ t.kids[p][i] = n
    <3>1. \E j \in DOMAIN t.kids[p] : t.kids[p][j] = n
      BY <2>2 DEF Range
    <3>2. t.kids[p][i] = n
      BY <3>1 DEF IndexOf
    <3> QED
      BY <2>2, <3>2, IndexOfIs
  <2> HIDE DEF i
  <2>4. /\ \A k \in Range(s) : k \in Range(t.kids[p])
        /\ \A k \in Range(t.kids[p]) : k # n => k \in Range(s)
    BY <2>2, <2>3, RemoveIs, RemoveHas
  <2> HIDE DEF s
  <2>5. Differs(t, u, p, s)
    BY <2>2, KidsOf
  <2> HIDE DEF u
  <2>6. /\ \A q \in Nodes : \A k \in Range(u.kids[q]) : k \in Range(t.kids[q])
        /\ \A q \in Nodes : \A k \in Range(t.kids[q]) : k # n => k \in Range(u.kids[q])
    BY <2>4, <2>5 DEF Differs
  <2> QED
    BY <2>1, <2>5, <2>6 DEF Differs
<1> QED
  BY <1>1, <1>2

LEMMA CleanHas ==
  ASSUME NEW level \in Layers, NEW t, Tree(t, level), NEW n \in Nodes
  PROVE  /\ Clean(t, n).kids = t.kids
         /\ \A m \in Nodes : m # n => Clean(t, n).params[m] = t.params[m]
<1> DEFINE params == [t.params EXCEPT ![n] = << >>]
           played == t.played \ ({n} \cup Range(t.kids[n]))
<1>1. t \in GivenTrees /\ t.params \in [Nodes -> Params]
  BY TreeFields DEF Tree
<1>2. t = [kids |-> t.kids, loop |-> t.loop, params |-> t.params, rnd |-> t.rnd, played |-> t.played]
  BY <1>1 DEF GivenTrees
<1>3. \A m \in Nodes : m # n => params[m] = t.params[m]
  BY <1>1
<1>4. Clean(t, n) = [t EXCEPT !.params = params, !.played = played]
  BY DEF Clean
<1> HIDE DEF params, played
<1>5. [t EXCEPT !.params = params, !.played = played] = [[t EXCEPT !.params = params] EXCEPT !.played = played]
  OBVIOUS
<1>6. Clean(t, n) = [kids |-> t.kids, loop |-> t.loop, params |-> params, rnd |-> t.rnd, played |-> played]
  BY <1>2, <1>4, <1>5
<1> QED
  BY <1>3, <1>6

\* Nothing but the options of n may differ.
Keeps(t, u, n) == \A m \in Nodes : m # n => u.params[m] = t.params[m]

\* A new node behind the others, or instead of them.
LEMMA LoadHas ==
  ASSUME NEW level \in Layers, NEW t, Tree(t, level), NEW n \in Nodes
  PROVE  /\ Adds(t, AppendTo(Clean(t, n), Root, n), Root, n)
         /\ Keeps(t, AppendTo(Clean(t, n), Root, n), n)
         /\ LET u == [Clean(t, n) EXCEPT !.kids[Root] = <<n>>] IN
            /\ \A q \in Nodes : \A k \in Range(u.kids[q]) : k \in Range(t.kids[q]) \/ (q = Root /\ k = n)
            /\ \A m \in Nodes : m # n => u.params[m] = t.params[m]
<1> DEFINE c == Clean(t, n)   s == Append(t.kids[Root], n)
           u == [c EXCEPT !.kids[Root] = s]   w == [c EXCEPT !.kids[Root] = <<n>>]
<1>1. c.kids = t.kids /\ (\A m \in Nodes : m # n => c.params[m] = t.params[m]) /\ Tree(c, level)
  BY CleanHas, CleanIs
<1>2. AppendTo(c, Root, n) = u
  BY <1>1 DEF AppendTo
<1>3. Root \in Nodes /\ t.kids[Root] \in Seq(Nodes)
  BY TreeFields, PlayTreeAssumption
<1> HIDE DEF c
<1>4. Differs(c, u, Root, s)
  BY <1>1, <1>3, KidsOf
<1>5. Differs(c, w, Root, <<n>>)
  BY <1>1, <1>3, KidsOf
<1>6. /\ \A k \in Range(s) : k \in Range(t.kids[Root]) \/ k = n
      /\ \A k \in Range(t.kids[Root]) : k \in Range(s)
  <2> DEFINE r == t.kids[Root]
  <2>1. r \in Seq(Nodes) /\ DOMAIN s = 1 .. Len(r) + 1 /\ Len(r) \in Nat /\ DOMAIN r = 1 .. Len(r)
        /\ \A i \in 1 .. Len(r) + 1 : s[i] = IF i = Len(r) + 1 THEN n ELSE r[i]
    BY <1>3
  <2> HIDE DEF r, s
  <2>2. \A k \in Range(s) : k \in Range(r) \/ k = n
    BY <2>1 DEF Range
  <2>3. \A i \in DOMAIN r : i \in DOMAIN s /\ s[i] = r[i]
    BY <2>1
  <2>4. \A k \in Range(r) : k \in Range(s)
    BY <2>3 DEF Range
  <2> QED
    BY <2>2, <2>4 DEF r
<1> HIDE DEF s, u, w
<1>7. Adds(t, u, Root, n)
  BY <1>1, <1>4, <1>6 DEF Adds, Differs
<1>8. \A q \in Nodes : \A k \in Range(w.kids[q]) : k \in Range(t.kids[q]) \/ (q = Root /\ k = n)
  <2>1. Range(<<n>>) = {n}
    BY DEF Range
  <2> QED
    BY <1>1, <1>5, <2>1 DEF Differs
<1>9. \A m \in Nodes : m # n => u.params[m] = t.params[m] /\ w.params[m] = t.params[m]
  BY <1>1, <1>4, <1>5 DEF Differs
<1>10. Keeps(t, u, n)
  BY <1>9 DEF Keeps
<1> QED
  BY <1>2, <1>7, <1>8, <1>9, <1>10 DEF c, w


-----------------------------------------------------------------------------
(* The inductive invariant: the options open are those of the way down.     *)

\* The iterator the configuration belongs to: a question is asked on a copy that
\* moves none.
Current == IF pc = "asked" THEN kept ELSE iter

\* The entry has its own level open, which sets its own options, unless they
\* were changed since its file plays.
Enters(t, c, ch, it) ==
  /\ it.pushed
  /\ \/ ch /\ it.file # -1
     \/ Levels(c)[c.lvl] = After(Levels(c)[c.lvl - 1], t.params[it.tree])

\* Where main has an entry in hand.
AtEntry ==
  /\ Current # None
  /\ \/ pc \in {"play", "file", "asked"}
     \/ pc = "leave" /\ eof \in {2, -2}
     \/ pc \in {"first", "next", "again", "list", "listup", "head"} /\ call.op = "none" /\ answer = "entry"

\* Without an iterator, no level sets an option that those of the root leave alone.
Grounded(t, out, c) == After(Levels(c)[c.lvl], t.params[Root]) = After(out, t.params[Root])

Placed(t, out, c, it) == IF it = None THEN Grounded(t, out, c) ELSE Stands(t, out, c, it)

BookInv ==
  /\ pc = "idle" => iter = None
  /\ pc = "play" => iter.file # -1
  /\ pc = "asked" => kept.file # -1
  /\ call.op = "down" /\ pc # "asked" => ~iter.pushed
  /\ pc = "unwind" /\ arg # "stop" => Parent(tree, arg) = None

PathInv ==
  /\ Single(tree) /\ outside \in [Vars -> Values]
  /\ Placed(tree, outside, config, Current)
  /\ AtEntry => Enters(tree, config, changed, Current)
  /\ BookInv

LEMMA PlacedSame ==
  ASSUME NEW t, NEW u, u.kids = t.kids, u.params = t.params, NEW out, NEW c, NEW it
  PROVE  Placed(t, out, c, it) => Placed(u, out, c, it)
BY DEF Placed, Grounded, Stands, Fits

LEMMA EntersSame ==
  ASSUME NEW t, NEW u, u.params = t.params, NEW c, NEW ch, NEW it, Enters(t, c, ch, it)
  PROVE  Enters(u, c, ch, it)
BY DEF Enters

\* A function that runs on an iterator with a configuration moves Current.
LEMMA CurrentIs ==
  ASSUME NEW level \in Layers, IInv(level), PathInv, call.op # "none"
  PROVE  /\ iter.config <=> pc # "asked"
         /\ iter.config => Current = iter /\ Stands(tree, outside, config, iter)
         /\ Single(tree)
<1>1. iter # None /\ (iter.config <=> pc # "asked")
  BY CallIs DEF IInv, IterInv
<1> QED
  BY <1>1 DEF PathInv, Placed, Current

\* What a function of playtree.c keeps, when it moves the configuration.
Followed ==
  /\ tree'.kids = tree.kids /\ tree'.params = tree.params
  /\ iter.config => /\ Stands(tree', outside, config', iter')
                    /\ call'.op = "down" => ~iter'.pushed
                    /\ call'.op = "none" /\ answer' = "entry" => Enters(tree', config', changed, iter')

LEMMA FollowedKeeps ==
  ASSUME NEW level \in Layers, IInv(level), PathInv, call.op # "none", Walked(level), Followed,
         UNCHANGED history
  PROVE  PathInv'
<1>1. /\ iter # None /\ (iter.config <=> pc # "asked") /\ (iter.config <=> kept = None)
      /\ pc \in Asking /\ Single(tree)
  BY CallIs, CurrentIs
<1>2. UNCHANGED <<kept, pc, eof, step, arg>> /\ iter' # None
  BY PlayTreeAssumption DEF Walked, Standing
<1>3. UNCHANGED <<changed, outside>>
  BY DEF history
<1>4. tree'.kids = tree.kids /\ tree'.params = tree.params
  BY DEF Followed
<1>5. Single(tree)' /\ (outside \in [Vars -> Values])'
  BY <1>1, <1>3, <1>4, ParentSame DEF PathInv
<1>6. Placed(tree, outside, config, Current)'
  <2>1. CASE iter.config
    <3>1. Current' = iter' /\ Stands(tree', outside, config', iter')
      BY <1>1, <1>2, <2>1 DEF Current, Followed
    <3> QED
      BY <1>2, <1>3, <3>1 DEF Placed
  <2>2. CASE ~iter.config
    <3>1. config' = config /\ Current' = Current
      BY <1>1, <1>2, <2>2 DEF Walked, Current
    <3>2. Placed(tree, outside, config, Current)
      BY DEF PathInv
    <3>3. Placed(tree', outside, config, Current)
      BY <1>4, <3>2, PlacedSame
    <3> QED
      BY <1>3, <3>1, <3>3
  <2> QED
    BY <2>1, <2>2
<1>7. AtEntry' => Enters(tree, config, changed, Current)'
  <2>1. CASE iter.config
    <3>1. Current' = iter' /\ (AtEntry' => call'.op = "none" /\ answer' = "entry")
      BY <1>1, <1>2, <2>1 DEF Current, AtEntry, Asking
    <3> QED
      BY <1>3, <2>1, <3>1 DEF Followed
  <2>2. CASE ~iter.config
    <3>1. config' = config /\ Current' = Current /\ pc = "asked" /\ Current # None
      BY <1>1, <1>2, <2>2 DEF Walked, Current
    <3>2. Enters(tree, config, changed, Current)
      BY <3>1 DEF PathInv, AtEntry
    <3>3. Enters(tree', config, changed, Current)
      BY <1>4, <3>2, EntersSame
    <3> QED
      BY <1>3, <3>1, <3>3
  <2> QED
    BY <2>1, <2>2
<1>8. BookInv'
  <2>1. BookInv
    BY DEF PathInv
  <2>2. (pc = "idle" => iter = None)' /\ (pc = "play" => iter.file # -1)'
    BY <1>1, <1>2 DEF Asking
  <2>3. (pc = "asked" => kept.file # -1)'
    BY <1>2, <2>1 DEF BookInv
  <2>4. (call.op = "down" /\ pc # "asked" => ~iter.pushed)'
    BY <1>1, <1>2 DEF Followed
  <2>5. (pc = "unwind" /\ arg # "stop" => Parent(tree, arg) = None)'
    <3>1. ASSUME pc = "unwind", arg # "stop" PROVE Parent(tree', arg) = None
      BY <1>4, <2>1, <3>1, ParentSame DEF BookInv
    <3> QED
      BY <1>2, <3>1
  <2> QED
    BY <2>2, <2>3, <2>4, <2>5 DEF BookInv
<1> QED
  BY <1>5, <1>6, <1>7, <1>8 DEF PathInv


LEMMA StandsIn ==
  ASSUME NEW t, NEW u, u.kids = t.kids, u.params = t.params, NEW out, NEW c, NEW it, Stands(t, out, c, it)
  PROVE  Stands(u, out, c, it)
BY DEF Stands, Fits

\* An iterator that leaves its entry stands beside it, or where it was.
LEMMA LeftStands ==
  ASSUME NEW level \in Layers, IInv(level), PathInv, Stepping, iter.config,
         NEW it, it.tree \in Range(Siblings(tree, Here)), it.stack = iter.stack, it.pushed = FALSE,
         NEW u, u.kids = tree.kids, u.params = tree.params
  PROVE  Stands(u, outside, Left, it)
<1>1. /\ call.op # "none" /\ Here = iter.tree /\ Here \in Nodes /\ iter \in Iterators /\ Tree(tree, level)
      /\ Stacked(config) /\ Stacked(Left)
  BY SteppingIs
<1>2. Stands(tree, outside, config, iter) /\ Single(tree)
  BY <1>1, CurrentIs
<1>3. PICK g, b : Fits(tree, outside, config, iter, g, b)
  BY <1>2 DEF Stands
<1>4. /\ Settled.stack = iter.stack /\ Settled.tree = iter.tree /\ ~Settled.pushed
      /\ Settled.pushed = FALSE /\ iter.pushed \in BOOLEAN
  <2>1. /\ Settled.stack = iter.stack /\ Settled.tree = iter.tree /\ ~Settled.pushed
        /\ Settled \in Iterators
    BY <1>1, SettledIs
  <2> QED
    BY <1>1, <2>1, IterFields
<1>5. Left = IF iter.pushed THEN PopConfig(config) ELSE config
  BY DEF Left
<1>6. Fits(tree, outside, Left, Settled, g, b)
  BY <1>1, <1>3, <1>4, <1>5, LeftFits
<1>7. Settled.tree \in Nodes /\ it.stack = Settled.stack /\ it.pushed = Settled.pushed
      /\ it.tree \in Range(Siblings(tree, Settled.tree))
  BY <1>1, <1>4
<1>8. \E h : Fits(tree, outside, Left, it, h, b)
  BY <1>1, <1>2, <1>6, <1>7, SideFits
<1>9. Stands(tree, outside, Left, it)
  BY <1>8 DEF Stands
<1> QED
  BY <1>9, StandsIn

LEMMA StepRootFollows ==
  ASSUME NEW level \in Layers, IInv(level), PathInv, StepRoot
  PROVE  Followed
<1>1. call.op # "none" /\ iter.tree = None /\ iter' = [iter EXCEPT !.tree = Root] /\ tree' = tree
      /\ config' = config /\ call'.op = "step"
  BY DEF StepRoot, GoOn, Call, Here
<1>2. iter \in Iterators
  BY <1>1, CallIs
<1>3. iter'.stack = iter.stack /\ iter'.tree = Root /\ iter'.pushed = iter.pushed
  BY <1>1, <1>2 DEF Iterators
<1>4. ASSUME iter.config PROVE Stands(tree', outside, config', iter')
  <2>1. PICK g, b : Fits(tree, outside, config, iter, g, b)
    BY <1>1, <1>4, CurrentIs DEF Stands
  <2>2. iter.stack = << >>
    BY <1>1, <2>1 DEF Fits
  <2>3. Fits(tree, outside, config, iter', g, b)
    BY <1>3, <2>1, <2>2, RootFits
  <2> QED
    BY <1>1, <2>3 DEF Stands
<1> QED
  BY <1>1, <1>4 DEF Followed

LEMMA StepNodeFollows ==
  ASSUME NEW level \in Layers, IInv(level), PathInv, StepNode
  PROVE  Followed
<1>1. PICK n \in Targets : iter' = [Settled EXCEPT !.tree = n]
  BY DEF StepNode
<1>2. Stepping /\ config' = Left /\ tree' = tree
  BY DEF StepNode
<1>3. iter \in Iterators
  BY <1>2, SteppingIs
<1>4. n \in Range(Siblings(tree, Here))
  BY DEF Targets, Unplayed, Range
<1>5. iter'.tree = n /\ iter'.stack = iter.stack /\ iter'.pushed = Settled.pushed
  BY <1>1, <1>3, SettledIs DEF Iterators
<1>6. call'.op = "none" => answer' = "node"
  BY DEF StepNode, Return, GoOn, Call
<1>7. ASSUME iter.config PROVE Stands(tree', outside, config', iter') /\ ~iter'.pushed
  <2>1. ~Settled.pushed /\ Settled.pushed = FALSE
    BY <1>3, <1>7, SettledIs, IterFields
  <2>2. Stands(tree, outside, Left, iter')
    BY <1>2, <1>4, <1>5, <1>7, <2>1, LeftStands
  <2> QED
    BY <1>2, <1>5, <2>1, <2>2
<1> QED
  BY <1>2, <1>6, <1>7 DEF Followed

LEMMA SettledFollows ==
  ASSUME NEW level \in Layers, IInv(level), PathInv, Stepping, tree'.kids = tree.kids, tree'.params = tree.params,
         iter' = Settled, config' = Left, call'.op = "none" => answer' # "entry"
  PROVE  Followed
<1>1. /\ iter \in Iterators /\ Here = iter.tree /\ Here \in Nodes /\ Tree(tree, level)
  BY SteppingIs
<1>2. Settled.tree = iter.tree /\ Settled.stack = iter.stack /\ Settled \in Iterators
  BY <1>1, SettledIs
<1>3. Here \in Range(Siblings(tree, Here))
  BY <1>1, SiblingsAre
<1>4. ASSUME iter.config PROVE Stands(tree', outside, config', iter') /\ ~iter'.pushed
  <2>1. ~Settled.pushed /\ Settled.pushed = FALSE
    BY <1>1, <1>2, <1>4, SettledIs, IterFields
  <2>2. Stands(tree', outside, Left, Settled)
    BY <1>1, <1>2, <1>3, <1>4, <2>1, LeftStands
  <2> QED
    BY <2>1, <2>2
<1> QED
  BY <1>4 DEF Followed

LEMMA StepInvalidFollows ==
  ASSUME NEW level \in Layers, IInv(level), PathInv, StepInvalid
  PROVE  Followed
<1>1. Stepping /\ iter' = Settled /\ config' = Left /\ tree' = tree
  BY DEF StepInvalid
<1>2. call'.op = "none" => answer' # "entry"
  BY DEF StepInvalid, Return, GoOn, Call
<1> QED
  BY <1>1, <1>2, SettledFollows

LEMMA StepRoundFollows ==
  ASSUME NEW level \in Layers, IInv(level), PathInv, StepRound
  PROVE  Followed
<1>1. Stepping /\ iter' = Settled /\ config' = Left
  BY DEF StepRound
<1>2. call'.op = "none" => answer' # "entry"
  BY DEF StepRound, Return, GoOn, Call
<1>3. Tree(tree, level)
  BY <1>1, SteppingIs
<1>4. tree'.kids = tree.kids /\ tree'.params = tree.params
  <2>1. tree \in GivenTrees
    BY <1>3 DEF Tree
  <2>2. CASE tree.loop[Root] = 0
    BY <2>2 DEF StepRound
  <2>3. CASE tree.loop[Root] # 0
    <3> DEFINE l == IF tree.loop[Root] > 0 THEN tree.loop[Root] - 1 ELSE tree.loop[Root]
    <3>1. tree' = [tree EXCEPT !.played = {}, !.loop[Root] = l]
      BY <2>3 DEF StepRound
    <3> HIDE DEF l
    <3> QED
      BY <2>1, <3>1 DEF GivenTrees
  <2> QED
    BY <2>2, <2>3
<1> QED
  BY <1>1, <1>2, <1>4, SettledFollows

LEMMA StepUpFollows ==
  ASSUME NEW level \in Layers, IInv(level), PathInv, StepUp
  PROVE  Followed
<1>1. Stepping /\ iter' = Settled /\ config' = Left /\ tree' = tree /\ call'.op = "up"
  BY DEF StepUp, GoOn, Call
<1> QED
  BY <1>1, SettledFollows

LEMMA StepLoopFollows ==
  ASSUME NEW level \in Layers, IInv(level), PathInv, StepLoop
  PROVE  Followed
<1> DEFINE s == Siblings(tree, Here)
           n == IF Rest > 0 THEN Head(s) ELSE Last(s)
           l == IF Rest > 0 THEN (IF Settled.loop > 0 THEN Settled.loop - 1 ELSE Settled.loop)
                ELSE IF Settled.loop >= 0 THEN Settled.loop + 1 ELSE Settled.loop
<1>1. Stepping /\ config' = Left /\ tree' = tree /\ call'.op = "step"
  BY DEF StepLoop, GoOn, Call
<1>2. iter \in Iterators /\ Tree(tree, level) /\ Here \in Nodes
  BY <1>1, SteppingIs
<1>3. iter' = [Settled EXCEPT !.tree = n, !.loop = l]
  BY DEF StepLoop
<1>4. n \in Range(s)
  <2>1. s \in Seq(Nodes) /\ s # << >>
    BY <1>2, SiblingsAre
  <2> HIDE DEF s
  <2>2. Head(s) \in Range(s) /\ Last(s) \in Range(s)
    BY <2>1, EndsAre
  <2> QED
    BY <2>2
<1> HIDE DEF n, l
<1>5. iter'.tree = n /\ iter'.stack = iter.stack /\ iter'.pushed = Settled.pushed
  BY <1>2, <1>3, SettledIs DEF Iterators
<1>6. ASSUME iter.config PROVE Stands(tree', outside, config', iter') /\ ~iter'.pushed
  <2>1. ~Settled.pushed /\ Settled.pushed = FALSE
    BY <1>2, <1>6, SettledIs, IterFields
  <2>2. Stands(tree, outside, Left, iter')
    BY <1>1, <1>4, <1>5, <1>6, <2>1, LeftStands
  <2> QED
    BY <1>1, <1>5, <2>1, <2>2
<1> QED
  BY <1>1, <1>6 DEF Followed


LEMMA StepEntryFollows ==
  ASSUME NEW level \in Layers, IInv(level), PathInv, StepEntry
  PROVE  Followed
<1>1. PICK n \in Targets :
        /\ iter' = [Settled EXCEPT !.tree = n, !.num = Files[n], !.pushed = @ \/ iter.config]
        /\ config' = IF iter.config THEN Pushed(Left, n) ELSE config
        /\ MarkPlayed(n)
  BY DEF StepEntry
<1>2. Stepping /\ call'.op = "none"
  BY DEF StepEntry, Return, NoCall
<1>3. /\ iter \in Iterators /\ Tree(tree, level) /\ Here \in Nodes
      /\ Stacked(Left)
  BY <1>2, SteppingIs
<1>4. n \in Range(Siblings(tree, Here))
  BY DEF Targets, Unplayed, Range
<1>5. n \in Nodes /\ n # None /\ tree.params[n] \in Params
  BY <1>2, <1>3, TargetsAre, TreeFields, PlayTreeAssumption
<1>6. iter'.tree = n /\ iter'.stack = iter.stack /\ (iter.config => iter'.pushed)
  BY <1>1, <1>3, SettledIs DEF Iterators
<1>7. tree'.kids = tree.kids /\ tree'.params = tree.params
  <2>1. tree \in GivenTrees
    BY <1>3 DEF Tree
  <2> DEFINE x == IF iter.config /\ Random THEN tree.played \cup {n} ELSE tree.played
  <2>2. tree' = [tree EXCEPT !.played = x]
    BY <1>1 DEF MarkPlayed
  <2> HIDE DEF x
  <2> QED
    BY <2>1, <2>2 DEF GivenTrees
<1>8. ASSUME iter.config PROVE Stands(tree', outside, config', iter') /\ Enters(tree', config', changed, iter')
  <2> DEFINE it == [Settled EXCEPT !.tree = n]   params == tree.params[n]
  <2>1. config' = SetOptions(PushConfig(Left), params)
    BY <1>1, <1>8 DEF Pushed
  <2>2. it.tree = n /\ it.stack = iter.stack /\ it.pushed = FALSE
    <3>1. ~Settled.pushed /\ Settled.pushed \in BOOLEAN
      BY <1>3, <1>8, SettledIs, IterFields
    <3> QED
      BY <1>3, <3>1, SettledIs DEF Iterators
  <2> HIDE DEF it
  <2>3. Stands(tree, outside, Left, it)
    BY <1>2, <1>4, <1>8, <2>2, LeftStands
  <2>4. PICK g, b : Fits(tree, outside, Left, it, g, b)
    BY <2>3 DEF Stands
  <2>5. params \in Params
    BY <1>5
  <2> HIDE DEF params
  <2>6. Fits(tree', outside, SetOptions(PushConfig(Left), params), iter', g, b)
    BY <1>3, <1>5, <1>6, <1>7, <1>8, <2>2, <2>4, <2>5, PushFits
  <2>7. Stands(tree', outside, config', iter')
    BY <2>1, <2>6 DEF Stands
  <2>8. /\ config'.lvl = Left.lvl + 1
        /\ \A i \in 1 .. Left.lvl : Levels(config')[i] = Levels(Left)[i]
        /\ Levels(config')[Left.lvl + 1] = After(Levels(Left)[Left.lvl], params)
    BY <1>3, <2>1, <2>5, PushTop
  <2>9. Left.lvl \in Nat /\ Left.lvl >= 1
    BY <1>3, TopIs
  <2>10. Left.lvl \in 1 .. Left.lvl /\ config'.lvl - 1 = Left.lvl
    BY <2>8, <2>9
  <2>11. Levels(config')[config'.lvl] = After(Levels(config')[config'.lvl - 1], tree'.params[iter'.tree])
    BY <1>6, <1>7, <2>8, <2>10 DEF params
  <2> QED
    BY <1>6, <1>8, <2>7, <2>11 DEF Enters
<1> QED
  BY <1>2, <1>7, <1>8 DEF Followed

LEMMA UpEndsFollows ==
  ASSUME NEW level \in Layers, IInv(level), PathInv, UpEnds
  PROVE  Followed
<1>1. call.op # "none" /\ iter' = [iter EXCEPT !.file = -1] /\ tree' = tree /\ config' = config
      /\ call'.op = "none" /\ answer' = "end"
  BY DEF UpEnds, Return, NoCall
<1>2. iter \in Iterators
  BY <1>1, CallIs
<1>3. iter'.stack = iter.stack /\ iter'.tree = iter.tree /\ iter'.pushed = iter.pushed
  BY <1>1, <1>2 DEF Iterators
<1>4. ASSUME iter.config PROVE Stands(tree', outside, config', iter')
  <2>1. PICK g, b : Fits(tree, outside, config, iter, g, b)
    BY <1>1, <1>4, CurrentIs DEF Stands
  <2>2. Fits(tree, outside, config, iter', g, b)
    BY <1>3, <2>1 DEF Fits, Height
  <2> QED
    BY <1>1, <2>2 DEF Stands
<1> QED
  BY <1>1, <1>4 DEF Followed

LEMMA UpGoesFollows ==
  ASSUME NEW level \in Layers, IInv(level), PathInv, UpGoes
  PROVE  Followed
<1> DEFINE p == Parent(tree, iter.tree)
           l == Last(iter.stack)   f == Front(iter.stack)
<1>1. /\ call.op # "none" /\ p # None /\ call'.op = "step"
      /\ iter' = [iter EXCEPT !.file = -1, !.tree = p, !.loop = l, !.stack = f]
      /\ config' = IF iter.config THEN PopConfig(config) ELSE config
      /\ tree' = [tree EXCEPT !.played = IF iter.config /\ iter.random THEN tree.played \cup {p} ELSE tree.played]
  BY DEF UpGoes, GoOn, Call, Here
<1>2. /\ Standing(iter, level) /\ iter \in Iterators /\ Stacked(config) /\ Tree(tree, level)
  BY <1>1, CallIs
<1>3. p \in Nodes /\ iter.tree \in Nodes
  BY <1>1, <1>2, ParentIs
<1>4. Len(iter.stack) \in Nat /\ iter.stack \in Seq(Int)
  BY <1>2, IterFields
<1>5. iter'.tree = p /\ iter'.stack = f /\ iter'.pushed = iter.pushed
  BY <1>1, <1>2 DEF Iterators
<1>6. tree'.kids = tree.kids /\ tree'.params = tree.params
  <2>1. tree \in GivenTrees
    BY <1>2 DEF Tree
  <2> DEFINE x == IF iter.config /\ iter.random THEN tree.played \cup {p} ELSE tree.played
  <2>2. tree' = [tree EXCEPT !.played = x]
    BY <1>1
  <2> HIDE DEF x
  <2> QED
    BY <2>1, <2>2 DEF GivenTrees
<1>7. ASSUME iter.config PROVE Stands(tree', outside, config', iter')
  <2>1. PICK g, b : Fits(tree, outside, config, iter, g, b)
    BY <1>1, <1>7, CurrentIs DEF Stands
  <2>2. Single(tree)
    BY <1>1, CurrentIs
  <2>3. Len(iter.stack) # 0
    <3>1. iter.tree = Root <=> Len(iter.stack) = 0
      BY <1>2, <1>3, <2>1, <2>2, FitsPlace
    <3>2. CASE iter.tree = Root
      <4>1. level[Root] = level[p] + 1 /\ level[Root] = 0 /\ level[p] \in Nat
        BY <1>1, <1>2, <1>3, <3>2, ParentIs, TreeFields DEF Layers
      <4> QED
        BY <4>1
    <3>3. CASE iter.tree # Root
      BY <3>1, <3>3
    <3> QED
      BY <3>2, <3>3
  <2>4. Len(f) = Len(iter.stack) - 1
    BY <1>4, <2>3 DEF Front
  <2>5. iter'.tree = Parent(tree, iter.tree) /\ Parent(tree, iter.tree) # None
        /\ Len(iter'.stack) = Len(iter.stack) - 1
    BY <1>1, <1>5, <2>4
  <2>6. Fits(tree', outside, PopConfig(config), iter', g, b)
    BY <1>2, <1>3, <1>5, <1>6, <2>1, <2>2, <2>5, UpFits
  <2> QED
    BY <1>1, <1>7, <2>6 DEF Stands
<1> QED
  BY <1>1, <1>6, <1>7 DEF Followed

LEMMA DownStepFollows ==
  ASSUME NEW level \in Layers, IInv(level), PathInv, DownStep
  PROVE  Followed
<1> DEFINE n == IF call.d >= 0 THEN Head(tree.kids[iter.tree]) ELSE Last(tree.kids[iter.tree])
           l == tree.loop[iter.tree] - 1   s == Append(iter.stack, iter.loop)
<1>1. /\ call.op = "down" /\ call.op # "none" /\ call'.op = "step" /\ tree' = tree
      /\ config' = IF iter.config THEN Pushed(config, iter.tree) ELSE config
  BY DEF DownStep, GoOn, Call, Here
<1>2. iter' = [iter EXCEPT !.file = -1, !.stack = s, !.loop = l, !.tree = n]
  BY DEF DownStep, Here
<1>3. iter \in Iterators /\ Stacked(config) /\ Tree(tree, level)
  BY <1>1, CallIs
<1>4. iter.tree \in Nodes /\ tree.kids[iter.tree] # << >>
  BY <1>1 DEF IInv, CallInv
<1>5. n \in Range(tree.kids[iter.tree])
  <2> DEFINE k == tree.kids[iter.tree]
  <2>1. k \in Seq(Nodes)
    BY <1>3, <1>4, TreeFields
  <2>2. k # << >>
    BY <1>4
  <2> HIDE DEF k
  <2>3. Head(k) \in Range(k) /\ Last(k) \in Range(k)
    BY <2>1, <2>2, EndsAre
  <2> QED
    BY <2>3 DEF k
<1> HIDE DEF n, l
<1>6. iter'.tree = n /\ iter'.stack = s /\ iter'.pushed = iter.pushed
  BY <1>2, <1>3 DEF Iterators
<1>7. Len(s) = Len(iter.stack) + 1
  BY <1>3, IterFields
<1> HIDE DEF s
<1>8. ASSUME iter.config PROVE Stands(tree', outside, config', iter')
  <2>1. PICK g, b : Fits(tree, outside, config, iter, g, b)
    BY <1>1, <1>8, CurrentIs DEF Stands
  <2>2. ~iter.pushed
    BY <1>1, <1>8, CurrentIs DEF PathInv, BookInv
  <2>3. ~iter'.pushed /\ Len(iter'.stack) = Len(iter.stack) + 1 /\ iter'.tree \in Range(tree.kids[iter.tree])
    BY <1>5, <1>6, <1>7, <2>2
  <2>4. \E h : Fits(tree, outside, SetOptions(PushConfig(config), tree.params[iter.tree]), iter', h, b)
    BY <1>3, <1>4, <2>1, <2>2, <2>3, DownFits
  <2>5. config' = SetOptions(PushConfig(config), tree.params[iter.tree])
    BY <1>1, <1>8 DEF Pushed
  <2> QED
    BY <1>1, <2>4, <2>5 DEF Stands
<1> QED
  BY <1>1, <1>8 DEF Followed

LEMMA IterateFits ==
  ASSUME NEW level \in Layers, IInv(level), PathInv, Iterate
  PROVE  PathInv'
<1>1. Followed
  BY StepRootFollows, StepNodeFollows, StepEntryFollows, StepInvalidFollows, StepRoundFollows, StepLoopFollows,
     StepUpFollows, UpEndsFollows, UpGoesFollows, DownStepFollows DEF Iterate
<1>2. call.op # "none" /\ Walked(level)
  BY IterateWalks
<1>3. UNCHANGED history
  BY DEF Iterate, StepRoot, StepNode, StepEntry, StepInvalid, StepRound, StepLoop, StepUp, UpEnds, UpGoes,
         DownStep, Walking
<1> QED
  BY <1>1, <1>2, <1>3, FollowedKeeps


-----------------------------------------------------------------------------
(* What main does in between, and the commands. *)

\* A list that is left tidily.  A play list's contents are in no other group
\* when they are put in its place; the first step into a new list finds an entry;
\* a play list that goes is not one of the groups around the entry that plays
\* (playtree_add_playlist); what goes up to the end comes to the root; and the
\* iterator is only freed outside every group but the root, with no entry open.
Tidy ==
  /\ OpenList => Contents[Here] = None \/ Parent(tree, Contents[Here]) = None
  /\ HeadReturned => answer = "entry"
  /\ Returned("list") \/ Returned("listup") => tree' = tree \/ arg \notin Range(Path(tree, Here))
  /\ UnwindReturned => answer # "end" \/ iter.stack = << >>
  /\ iter # None /\ iter' = None => Len(iter.stack) <= 1 /\ ~iter.pushed

\* Where neither the list nor the options change, and the iterator is the same.
LEMMA BookKeeps ==
  ASSUME PathInv, UNCHANGED <<tree, config, changed, outside>>, Current' = Current,
         AtEntry' => AtEntry, BookInv'
  PROVE  PathInv'
<1>1. /\ Single(tree)' /\ (outside \in [Vars -> Values])'
      /\ Placed(tree, outside, config, Current)' /\ (AtEntry => Enters(tree, config, changed, Current)')
  BY DEF PathInv
<1> QED
  BY <1>1 DEF PathInv

\* An iterator that is freed leaves no option behind.
LEMMA DropKeeps ==
  ASSUME NEW level \in Layers, IInv(level), PathInv, Tidy, pc # "asked", iter # None, iter' = None,
         pc' = "file", call' = call, call.op = "none", UNCHANGED <<tree, config, changed, outside>>
  PROVE  PathInv'
<1>1. Len(iter.stack) <= 1 /\ ~iter.pushed
  BY DEF Tidy
<1>2. iter \in Iterators /\ Stacked(config) /\ Len(iter.stack) \in Nat
  BY PlaceIs, IterFields
<1>3. Stands(tree, outside, config, iter)
  BY DEF PathInv, Placed, Current
<1>4. PICK g, b : Fits(tree, outside, config, iter, g, b)
  BY <1>3 DEF Stands
<1> DEFINE n == Len(iter.stack)   L == Levels(config)   params == tree.params   root == params[Root]
<1>5. Opens(params, outside, L, g, n, b) /\ b \in Nat \ {0} /\ g[0] = Root
  <2>1. b \in Nat \ {0} /\ g[0] = Root
    BY <1>2, <1>4, FitsIs
  <2>2. Opens(tree.params, outside, Levels(config), g, Len(iter.stack), b)
    BY <1>4 DEF Fits
  <2> QED
    BY <2>1, <2>2
<1>6. config.lvl = b + n
  <2>1. config.lvl = Height(b, iter)
    BY <1>2, <1>4, FitsHeight
  <2>2. config.lvl = b + Len(iter.stack) + 0
    BY <1>1, <2>1 DEF Height
  <2> QED
    BY <1>2, <1>5, <2>2
<1>7. n = 0 \/ n = 1
  <2>1. n \in Nat /\ n <= 1
    BY <1>1, <1>2
  <2> HIDE DEF n
  <2> QED
    BY <2>1
<1>8. After(L[b], root) = After(outside, root)
  BY <1>5 DEF Opens
<1> HIDE DEF n, L, params, root
<1>9. CASE n = 0
  <2>1. config.lvl = b
    BY <1>5, <1>6, <1>9
  <2> QED
    BY <1>8, <2>1 DEF Grounded, L, root, params, PathInv, Placed, Current, AtEntry, BookInv
<1>10. CASE n = 1
  <2>1. L[b + 1] = After(L[b + 1 - 1], params[g[1 - 1]])
    BY <1>5, <1>10 DEF Opens
  <2>2. b + 1 - 1 = b /\ 1 - 1 = 0 /\ config.lvl = b + 1
    BY <1>5, <1>6, <1>10
  <2>3. L[config.lvl] = After(L[b], root)
    BY <1>5, <2>1, <2>2 DEF root
  <2>4. After(L[config.lvl], root) = After(outside, root)
    BY <1>8, <2>3, AfterTwice
  <2> QED
    BY <2>4 DEF Grounded, L, root, params, PathInv, Placed, Current, AtEntry, BookInv
<1> QED
  BY <1>7, <1>9, <1>10

LEMMA LeaveFits ==
  ASSUME NEW level \in Layers, IInv(level), PathInv, Tidy,
         LeaveByStep \/ LeaveByUp \/ LeaveBySource \/ LeaveStopped
  PROVE  PathInv'
<1>1. pc = "leave" /\ call.op = "none" /\ iter # None
  BY PlaceIs DEF LeaveByStep, LeaveByUp, LeaveBySource, LeaveStopped, Asking
<1>2. UNCHANGED <<tree, config, changed, outside>>
  BY DEF LeaveByStep, LeaveByUp, LeaveBySource, LeaveStopped, world, history
<1>3. CASE LeaveStopped
  <2>1. iter' = None /\ pc' = "file" /\ call' = call
    BY <1>3 DEF LeaveStopped
  <2> QED
    BY <1>1, <1>2, <2>1, DropKeeps
<1>4. CASE LeaveByStep \/ LeaveByUp
  <2>1. iter' = iter /\ pc' = "next" /\ call'.op \in {"step", "up"} /\ arg' = arg
    BY <1>4 DEF LeaveByStep, LeaveByUp, world, Call
  <2>2. Current' = Current /\ ~AtEntry' /\ BookInv'
    BY <1>1, <2>1 DEF Current, AtEntry, BookInv
  <2> QED
    BY <1>2, <2>2, BookKeeps
<1>5. CASE LeaveBySource
  <2>1. iter' = iter /\ pc' = "file" /\ call' = call /\ eof \in {2, -2}
    BY <1>5 DEF LeaveBySource, world
  <2>2. Current' = Current /\ AtEntry /\ BookInv'
    BY <1>1, <2>1 DEF Current, AtEntry, BookInv
  <2> QED
    BY <1>2, <2>2, BookKeeps
<1> QED
  BY <1>3, <1>4, <1>5

LEMMA NextFits ==
  ASSUME NEW level \in Layers, IInv(level), PathInv, Tidy, NextReturned \/ AgainReturned
  PROVE  PathInv'
<1>1. pc \in {"first", "next", "again"} /\ call.op = "none" /\ iter # None
  BY PlaceIs DEF NextReturned, AgainReturned, Returned
<1>2. UNCHANGED <<tree, config, changed, outside>> /\ pc' = "file" /\ call' = call
      /\ iter' = IF answer = "entry" THEN iter ELSE None
  BY DEF NextReturned, AgainReturned, KeepIfEntry, history
<1>3. CASE answer # "entry"
  BY <1>1, <1>2, <1>3, DropKeeps
<1>4. CASE answer = "entry"
  <2>1. Current' = Current /\ AtEntry /\ BookInv'
    BY <1>1, <1>2, <1>4 DEF Current, AtEntry, BookInv
  <2> QED
    BY <1>2, <2>1, BookKeeps
<1> QED
  BY <1>3, <1>4

\* The next file of the entry: what was changed while the last one played is not
\* forgotten, the entry's options are not set again.
LEMMA GetFileFits ==
  ASSUME NEW level \in Layers, IInv(level), PathInv, GetFile
  PROVE  PathInv'
<1>1. /\ pc = "file" /\ iter # None /\ ~Refused /\ iter' = [iter EXCEPT !.file = NextFile]
      /\ pc' = "play" /\ tree' = tree /\ config' = config /\ outside' = outside /\ call' = call
      /\ changed' = (changed /\ iter.file # -1)
  BY DEF GetFile
<1>2. iter \in Iterators /\ Standing(iter, level) /\ call.op = "none"
  BY <1>1, PlaceIs DEF Asking
<1>3. NextFile # -1
  <2>1. iter.num \in Nat /\ iter.file \in Int /\ iter.file < iter.num - 1 /\ iter.file >= -1
    BY <1>1, <1>2, IterFields DEF Refused
  <2>2. CASE eof > 0
    BY <2>1, <2>2 DEF NextFile
  <2>3. CASE ~(eof > 0) /\ iter.file <= 0
    BY <2>1, <2>3 DEF NextFile
  <2>4. CASE ~(eof > 0) /\ ~(iter.file <= 0)
    BY <2>1, <2>4 DEF NextFile
  <2> QED
    BY <2>2, <2>3, <2>4
<1>4. iter'.file = NextFile /\ iter'.stack = iter.stack /\ iter'.tree = iter.tree /\ iter'.pushed = iter.pushed
  BY <1>1, <1>2 DEF Iterators
<1>5. Current = iter /\ Current' = iter' /\ AtEntry
  BY <1>1 DEF Current, AtEntry
<1>6. Stands(tree, outside, config, iter) /\ Enters(tree, config, changed, iter)
  BY <1>1, <1>5 DEF PathInv, Placed
<1>7. Stands(tree, outside, config, iter')
  <2>1. PICK g, b : Fits(tree, outside, config, iter, g, b)
    BY <1>6 DEF Stands
  <2>2. Fits(tree, outside, config, iter', g, b)
    BY <1>4, <2>1 DEF Fits, Height
  <2> QED
    BY <2>2 DEF Stands
<1>8. Enters(tree, config, changed', iter')
  BY <1>1, <1>3, <1>4, <1>6 DEF Enters
<1>9. iter' # None
  BY <1>1, <1>2, GetFileKeeps, PlaceIs DEF IInv, IterInv, CallInv
<1>10. Placed(tree, outside, config, Current)' /\ Enters(tree, config, changed, Current)'
  BY <1>1, <1>5, <1>7, <1>8, <1>9 DEF Placed
<1>11. BookInv'
  BY <1>1, <1>2, <1>3, <1>4 DEF BookInv
<1>12. Single(tree)' /\ (outside \in [Vars -> Values])'
  BY <1>1 DEF PathInv
<1> QED
  BY <1>10, <1>11, <1>12 DEF PathInv

LEMMA FileFits ==
  ASSUME NEW level \in Layers, IInv(level), PathInv, Tidy,
         NoMoreFiles \/ NoMoreEntries \/ FileEnds \/ HeadReturned
  PROVE  PathInv'
<1>1. /\ pc \in {"file", "play", "head"} /\ call.op = "none"
  BY PlaceIs DEF NoMoreFiles, NoMoreEntries, FileEnds, HeadReturned, Playing, Returned, Asking
<1>2. UNCHANGED <<tree, config, changed, outside>> /\ iter' = iter
  BY DEF NoMoreFiles, NoMoreEntries, FileEnds, HeadReturned, world, history
<1>3. /\ pc' \in {"again", "idle", "over", "leave"} /\ (pc' = "idle" => iter = None)
      /\ pc' # "again" => call' = call
      /\ pc' = "again" => call'.op = "step"
      /\ AtEntry' => AtEntry
  <2>1. CASE NoMoreFiles
    BY <2>1 DEF NoMoreFiles, Call, AtEntry
  <2>2. CASE NoMoreEntries
    BY <2>2 DEF NoMoreEntries, AtEntry
  <2>3. CASE FileEnds
    BY <2>3 DEF FileEnds, Playing, Leave, AtEntry
  <2>4. CASE HeadReturned
    <3>1. answer = "entry" /\ pc = "head" /\ pc' = "leave" /\ call' = call
      BY <2>4 DEF Tidy, HeadReturned, Returned, Leave
    <3>2. iter # None
      BY <3>1, PlaceIs
    <3> QED
      BY <1>1, <3>1, <3>2 DEF AtEntry, Current
  <2> QED
    BY <2>1, <2>2, <2>3, <2>4
<1>4. Current' = Current
  BY <1>1, <1>2, <1>3 DEF Current
<1>5. BookInv'
  BY <1>1, <1>2, <1>3 DEF BookInv
<1> QED
  BY <1>2, <1>3, <1>4, <1>5, BookKeeps


\* The contents of a play list stand beside it: they are no group around it.
LEMMA OpenListFits ==
  ASSUME NEW level \in Layers, IInv(level), PathInv, Tidy, OpenList
  PROVE  PathInv'
<1> DEFINE n == iter.tree   new == Contents[n]   t == InsertAfter(tree, n, new)
<1>1. /\ pc = "play" /\ n \in Lists /\ iter' = iter /\ config' = config
      /\ pc' = "list" /\ call'.op = "step" /\ UNCHANGED <<changed, outside>>
      /\ tree' = IF new = None THEN tree ELSE [t EXCEPT !.params[new] = @ \o tree.params[n]]
  BY DEF OpenList, Here, Call, Touch
<1>2. iter # None /\ iter \in Iterators /\ Tree(tree, level) /\ Stacked(config)
  BY <1>1, PlaceIs
<1>3. Current = iter /\ Current' = iter' /\ ~AtEntry' /\ BookInv'
  BY <1>1 DEF Current, AtEntry, BookInv
<1>4. CASE new = None
  <2>1. tree' = tree
    BY <1>1, <1>4
  <2> QED
    BY <1>1, <1>3, <2>1, BookKeeps
<1>5. CASE new # None
  <2>1. n \in Nodes /\ n # Root /\ new \in Nodes /\ level[new] = level[n]
    <3>1. n \in Lists
      BY <1>1
    <3> HIDE DEF n
    <3>2. n \in Nodes /\ n # Root /\ Contents[n] \in Nodes \cup {None}
      BY <3>1, PlayTreeAssumption
    <3>3. Contents[n] # None => level[Contents[n]] = level[n]
      BY <1>2, <3>1 DEF Tree, Layered
    <3> QED
      BY <1>5, <3>2, <3>3
  <2>2. Parent(tree, new) = None
    BY <1>5 DEF Tidy, Here
  <2>3. Single(tree) /\ Stands(tree, outside, config, iter)
    BY <1>2, <1>3 DEF PathInv, Placed
  <2>4. PICK g, b : Fits(tree, outside, config, iter, g, b)
    BY <2>3 DEF Stands
  <2>5. Parent(tree, n) # None /\ level[n] # 0
    <3>1. /\ level[iter.tree] = Len(iter.stack)
          /\ iter.tree = Root \/ Parent(tree, iter.tree) # None
          /\ iter.tree = Root <=> Len(iter.stack) = 0
      BY <1>2, <2>1, <2>3, <2>4, FitsPlace
    <3> QED
      BY <2>1, <3>1
  <2> HIDE DEF new
  <2>6. Adds(tree, t, Parent(tree, n), new) /\ t.params = tree.params /\ Tree(t, level)
    BY <1>2, <2>1, <2>5, InsertAdds, InsertAfterIs
  <2> DEFINE x == t.params[new] \o tree.params[n]
  <2>7. tree' = [t EXCEPT !.params[new] = x]
    BY <1>1, <1>5
  <2> HIDE DEF t, x
  <2>8. t \in GivenTrees
    BY <2>6 DEF Tree
  <2>9. tree'.kids = t.kids /\ \A m \in Nodes : m # new => tree'.params[m] = t.params[m]
    BY <2>7, <2>8 DEF GivenTrees
  <2>10. /\ \A q \in Nodes : \A k \in Range(tree.kids[q]) : k \in Range(tree'.kids[q])
         /\ \A q \in Nodes : \A k \in Range(tree'.kids[q]) :
              k \in Range(tree.kids[q]) \/ (q = Parent(tree, n) /\ k = new)
    BY <2>6, <2>9 DEF Adds
  <2>11. new # Root
    BY <1>2, <2>1, <2>5, TreeFields
  <2>12. \A m \in Nodes : m = Root \/ Parent(tree, m) # None => tree'.params[m] = tree.params[m]
    BY <2>2, <2>6, <2>9, <2>11
  <2>13. Fits(tree', outside, config, iter, g, b)
    BY <1>2, <2>3, <2>4, <2>10, <2>12, TreeFits
  <2>14. Single(tree')
    BY <2>2, <2>3, <2>10, SingleMore
  <2>15. Stands(tree', outside, config, iter)
    BY <2>13 DEF Stands
  <2>16. Placed(tree, outside, config, Current)' /\ Single(tree)' /\ (outside \in [Vars -> Values])'
    BY <1>1, <1>2, <1>3, <2>14, <2>15 DEF Placed, PathInv
  <2> QED
    BY <1>3, <2>16 DEF PathInv
<1> QED
  BY <1>4, <1>5

\* The play list that goes is no group around the entry.
LEMMA ListFits ==
  ASSUME NEW level \in Layers, IInv(level), PathInv, Tidy, ListReturned \/ ListUpReturned
  PROVE  PathInv'
<1>1. /\ pc \in {"list", "listup"} /\ call.op = "none" /\ (Returned("list") \/ Returned("listup"))
  BY DEF ListReturned, ListUpReturned, Returned
<1>2. iter # None /\ iter \in Iterators /\ Tree(tree, level) /\ Stacked(config)
  BY <1>1, PlaceIs
<1>3. iter' = iter /\ config' = config /\ UNCHANGED <<changed, outside>>
  BY DEF ListReturned, ListUpReturned, history
<1>4. /\ \/ tree' = tree /\ pc' = "leave" /\ eof' = 1 /\ call' = call
         \/ tree' = tree /\ pc' = "listup" /\ call'.op = "up"
         \/ tree' = Removed(tree, arg) /\ answer = "entry" /\ pc' = "leave" /\ eof' = 2 /\ call' = call
  BY DEF ListReturned, ListUpReturned, Leave, Call
<1>5. Current = iter /\ Current' = Current
  BY <1>1, <1>3, <1>4 DEF Current
<1>6. BookInv'
  BY <1>1, <1>4 DEF BookInv
<1>7. CASE tree' = tree
  <2>1. AtEntry' => AtEntry
    BY <1>1, <1>2, <1>4, <1>5 DEF AtEntry
  <2> QED
    BY <1>3, <1>5, <1>6, <1>7, <2>1, BookKeeps
<1>8. CASE tree' # tree
  <2>1. tree' = Removed(tree, arg) /\ answer = "entry"
    BY <1>4, <1>8
  <2>2. arg \notin Range(Path(tree, iter.tree))
    BY <1>1, <1>8 DEF Tidy, Here
  <2>3. /\ tree'.params = tree.params
        /\ \A q \in Nodes : \A k \in Range(tree'.kids[q]) : k \in Range(tree.kids[q])
        /\ \A q \in Nodes : \A k \in Range(tree.kids[q]) : k # arg => k \in Range(tree'.kids[q])
    BY <1>2, <2>1, RemovedLess
  <2>4. Single(tree) /\ Stands(tree, outside, config, iter)
    BY <1>2, <1>5 DEF PathInv, Placed
  <2>5. PICK g, b : Fits(tree, outside, config, iter, g, b)
    BY <2>4 DEF Stands
  <2>6. \A m \in Nodes : \A k \in Range(tree.kids[m]) : k \in Range(Path(tree, iter.tree)) => k \in Range(tree'.kids[m])
    BY <2>2, <2>3
  <2>7. \A m \in Nodes : m = Root \/ Parent(tree, m) # None => tree'.params[m] = tree.params[m]
    BY <2>3
  <2>8. Fits(tree', outside, config, iter, g, b)
    BY <1>2, <2>4, <2>5, <2>6, <2>7, TreeFits
  <2>9. Single(tree')
    BY <2>3, <2>4, SingleLess
  <2>10. AtEntry
    BY <1>1, <1>2, <1>5, <2>1 DEF AtEntry
  <2>11. Enters(tree, config, changed, iter)
    BY <1>5, <2>10 DEF PathInv
  <2>12. Enters(tree', config, changed, iter)
    BY <2>3, <2>11, EntersSame
  <2>13. Stands(tree', outside, config, iter)
    BY <2>8 DEF Stands
  <2>14. /\ Placed(tree, outside, config, Current)' /\ Single(tree)' /\ (outside \in [Vars -> Values])'
         /\ Enters(tree, config, changed, Current)'
    BY <1>2, <1>3, <1>5, <2>9, <2>12, <2>13 DEF Placed, PathInv
  <2> QED
    BY <1>6, <2>14 DEF PathInv
<1> QED
  BY <1>7, <1>8

LEMMA TryReturnedFits ==
  ASSUME NEW level \in Layers, IInv(level), PathInv, TryReturned
  PROVE  PathInv'
<1>1. /\ pc = "asked" /\ call.op = "none" /\ iter' = kept /\ call' = call /\ pc' \in {"leave", "play"}
      /\ UNCHANGED <<tree, config, changed, outside>>
  BY DEF TryReturned, Returned, Leave, history
<1>2. kept # None
  BY <1>1 DEF IInv, CallInv
<1>3. Current = kept /\ Current' = Current /\ AtEntry
  BY <1>1, <1>2 DEF Current, AtEntry
<1>4. BookInv'
  BY <1>1 DEF BookInv, PathInv
<1> QED
  BY <1>1, <1>3, <1>4, BookKeeps


\* The new list stands alone under the root, where the iterator came back to.
LEMMA UnwindFits ==
  ASSUME NEW level \in Layers, IInv(level), PathInv, Tidy, UnwindReturned
  PROVE  PathInv'
<1>1. pc = "unwind" /\ call.op = "none" /\ config' = config /\ UNCHANGED <<changed, outside>>
  BY DEF UnwindReturned, Returned, history
<1>2. /\ iter # None /\ iter \in Iterators /\ Tree(tree, level) /\ Stacked(config)
      /\ arg \in Fresh \cup {"stop"}
  BY <1>1, PlaceIs
<1>3. Current = iter
  BY <1>1 DEF Current
<1>4. CASE /\ tree' = tree /\ iter' = iter
           /\ \/ pc' = "unwind" /\ call'.op = "up" /\ arg' = arg
              \/ pc' = "leave" /\ eof' = 4 /\ call' = call
  <2>1. Current' = Current /\ ~AtEntry'
    BY <1>1, <1>4 DEF Current, AtEntry
  <2>2. BookInv'
    BY <1>1, <1>4 DEF BookInv, PathInv
  <2> QED
    BY <1>1, <1>4, <2>1, <2>2, BookKeeps
<1>5. CASE /\ answer = "end" /\ arg # "stop" /\ OnlyChild(arg) /\ iter' = [iter EXCEPT !.tree = Root]
           /\ pc' = "head" /\ call'.op = "step"
  <2>1. arg \in Nodes /\ level[arg] = 1 /\ arg # Root /\ Parent(tree, arg) = None
    <3>1. arg \in Fresh
      BY <1>2, <1>5
    <3>2. arg \in Nodes /\ level[arg] = 1
      BY <1>2, <3>1, PlayTreeAssumption DEF Tree, Layered
    <3>3. arg # Root
      BY <1>2, <3>2, TreeFields
    <3>4. Parent(tree, arg) = None
      BY <1>1, <1>5 DEF PathInv, BookInv
    <3> QED
      BY <3>2, <3>3, <3>4
  <2> DEFINE u == [Clean(tree, arg) EXCEPT !.kids[Root] = <<arg>>]
  <2>2. tree' = u
    BY <1>5 DEF OnlyChild
  <2>3. /\ \A q \in Nodes : \A k \in Range(u.kids[q]) : k \in Range(tree.kids[q]) \/ (q = Root /\ k = arg)
        /\ \A m \in Nodes : m # arg => u.params[m] = tree.params[m]
    BY <1>2, <2>1, LoadHas
  <2> HIDE DEF u
  <2>4. iter.stack = << >>
    BY <1>5 DEF Tidy, UnwindReturned
  <2>5. Single(tree) /\ Stands(tree, outside, config, iter)
    BY <1>2, <1>3 DEF PathInv, Placed
  <2>6. PICK g, b : Fits(tree, outside, config, iter, g, b)
    BY <2>5 DEF Stands
  <2>7. iter'.stack = iter.stack /\ iter'.tree = Root /\ iter'.pushed = iter.pushed /\ iter' # None
    <3>1. iter'.stack = iter.stack /\ iter'.tree = Root /\ iter'.pushed = iter.pushed
      BY <1>2, <1>5 DEF Iterators
    <3>2. Root \in Nodes
      BY PlayTreeAssumption
    <3>3. iter' \in Iterators
      BY <1>2, <1>5, <3>2, IterExcept
    <3> QED
      BY <3>1, <3>3, PlayTreeAssumption
  <2>8. Fits(tree, outside, config, iter', g, b)
    BY <2>4, <2>6, <2>7, RootFits
  <2>9. \A m \in Nodes : m = Root \/ Parent(tree, m) # None => u.params[m] = tree.params[m]
    BY <2>1, <2>3
  <2>10. Len(iter'.stack) = 0
    BY <2>4, <2>7
  <2>11. Fits(u, outside, config, iter', g, b)
    BY <1>2, <2>5, <2>8, <2>9, <2>10, TreeFits
  <2>12. Single(u)
    <3>1. Single(tree) /\ Parent(tree, arg) = None
      BY <2>1, <2>5
    <3>2. \A q \in Nodes : \A k \in Range(u.kids[q]) : k \in Range(tree.kids[q]) \/ (q = Root /\ k = arg)
      BY <2>3
    <3> QED
      BY <3>1, <3>2, SingleMore
  <2>13. Current' = iter' /\ ~AtEntry' /\ BookInv'
    BY <1>5 DEF Current, AtEntry, BookInv
  <2>14. Stands(u, outside, config, iter')
    BY <2>11 DEF Stands
  <2>15. Placed(tree, outside, config, Current)' /\ Single(tree)' /\ (outside \in [Vars -> Values])'
    BY <1>1, <2>2, <2>7, <2>12, <2>13, <2>14 DEF Placed, PathInv
  <2> QED
    BY <2>13, <2>15 DEF PathInv
<1>6. \/ /\ tree' = tree /\ iter' = iter
         /\ \/ pc' = "unwind" /\ call'.op = "up" /\ arg' = arg
            \/ pc' = "leave" /\ eof' = 4 /\ call' = call
      \/ /\ answer = "end" /\ arg # "stop" /\ OnlyChild(arg) /\ iter' = [iter EXCEPT !.tree = Root]
         /\ pc' = "head" /\ call'.op = "step"
  <2>1. CASE answer # "end"
    BY <1>1, <2>1 DEF UnwindReturned, Call
  <2>2. CASE answer = "end" /\ arg = "stop"
    BY <2>2 DEF UnwindReturned, Leave
  <2>3. CASE answer = "end" /\ arg # "stop"
    BY <2>3 DEF UnwindReturned, Call
  <2> QED
    BY <2>1, <2>2, <2>3
<1> QED
  BY <1>4, <1>5, <1>6

\* A question is asked on a copy; a forced step leaves the entry.
LEMMA AskFits ==
  ASSUME NEW level \in Layers, IInv(level), PathInv, StepBy \/ UpStep
  PROVE  PathInv'
<1>1. pc = "play" /\ UNCHANGED <<tree, config, changed, outside>>
  BY DEF StepBy, UpStep, Playing, Touch
<1>2. iter # None /\ call.op = "none" /\ iter \in Iterators
  BY <1>1, PlaceIs DEF Asking
<1>3. \/ kept' = iter /\ pc' = "asked" /\ call'.op \in {"step", "up"}
      \/ iter' = iter /\ pc' = "leave" /\ eof' \in {1, -1, 3, -3} /\ call' = call
  <2>1. CASE StepBy
    BY <2>1 DEF StepBy, Try, Forced, Leave, Call
  <2>2. CASE UpStep
    <3>1. PICK n \in {-1, 1} : Try("up", n, 3 * n, step) \/ Forced(3 * n, step)
      BY <2>2 DEF UpStep
    <3>2. 3 * n = 3 \/ 3 * n = -3
      OBVIOUS
    <3> QED
      BY <3>1, <3>2 DEF Try, Forced, Leave, Call
  <2> QED
    BY <2>1, <2>2
<1>4. Current = iter /\ Current' = iter /\ AtEntry
  BY <1>1, <1>2, <1>3 DEF Current, AtEntry
<1>5. BookInv'
  BY <1>1, <1>2, <1>3 DEF BookInv, PathInv
<1> QED
  BY <1>1, <1>4, <1>5, BookKeeps

LEMMA SourceFits ==
  ASSUME NEW level \in Layers, IInv(level), PathInv, AltSource \/ LoadInstead \/ Stop
  PROVE  PathInv'
<1>1. pc = "play" /\ UNCHANGED <<tree, iter, config, changed, outside>>
  BY DEF AltSource, LoadInstead, Stop, Playing, Touch, world, Unwind
<1>2. iter # None /\ call.op = "none"
  BY <1>1, PlaceIs DEF Asking
<1>3. \/ pc' = "leave" /\ call' = call
      \/ pc' = "unwind" /\ call'.op = "up" /\ (arg' # "stop" => Parent(tree, arg') = None)
  BY DEF AltSource, LoadInstead, Stop, Unwind, Leave, Call, NewNodes
<1>4. Current' = Current /\ AtEntry
  BY <1>1, <1>2, <1>3 DEF Current, AtEntry
<1>5. BookInv'
  <2>1. CASE pc' = "leave" /\ call' = call
    BY <1>1, <1>2, <2>1 DEF BookInv, PathInv
  <2>2. CASE pc' = "unwind" /\ call'.op = "up" /\ (arg' # "stop" => Parent(tree, arg') = None)
    BY <1>1, <2>2 DEF BookInv
  <2> QED
    BY <1>3, <2>1, <2>2
<1> QED
  BY <1>1, <1>4, <1>5, BookKeeps


\* What is loaded behind was in no group, so it is none around the entry.
LEMMA LoadBehindFits ==
  ASSUME NEW level \in Layers, IInv(level), PathInv, LoadBehind
  PROVE  PathInv'
<1>1. pc = "play" /\ pc' = "play" /\ call' = call /\ UNCHANGED <<iter, config, changed, outside>>
  BY DEF LoadBehind, Playing, Touch
<1>2. /\ iter # None /\ iter \in Iterators /\ Tree(tree, level) /\ Stacked(config) /\ call.op = "none"
  BY <1>1, PlaceIs DEF Asking
<1>3. PICK n \in Fresh : Parent(tree, n) = None /\ tree' = AppendTo(Clean(tree, n), Root, n)
  BY DEF LoadBehind, NewNodes
<1>4. n \in Nodes /\ n # Root
  <2>1. n \in Nodes /\ level[n] = 1
    BY <1>2, PlayTreeAssumption DEF Tree, Layered
  <2> QED
    BY <1>2, <2>1, TreeFields
<1> DEFINE u == AppendTo(Clean(tree, n), Root, n)
<1>5. Adds(tree, u, Root, n) /\ \A m \in Nodes : m # n => u.params[m] = tree.params[m]
  <2>1. Adds(tree, u, Root, n)
    BY <1>2, <1>4, LoadHas
  <2>2. Keeps(tree, u, n)
    BY <1>2, <1>4, LoadHas
  <2> QED
    BY <2>1, <2>2 DEF Keeps
<1>6. tree' = u
  BY <1>3
<1> HIDE DEF u
<1>7. /\ \A q \in Nodes : \A k \in Range(tree.kids[q]) : k \in Range(u.kids[q])
      /\ \A q \in Nodes : \A k \in Range(u.kids[q]) : k \in Range(tree.kids[q]) \/ (q = Root /\ k = n)
  BY <1>5 DEF Adds
<1>8. Current = iter /\ Current' = iter /\ AtEntry /\ BookInv'
  BY <1>1, <1>2 DEF Current, AtEntry, BookInv, PathInv
<1>9. Single(tree) /\ Stands(tree, outside, config, iter) /\ Enters(tree, config, changed, iter)
  BY <1>2, <1>8 DEF PathInv, Placed
<1>10. PICK g, b : Fits(tree, outside, config, iter, g, b)
  BY <1>9 DEF Stands
<1>11. \A m \in Nodes : m = Root \/ Parent(tree, m) # None => u.params[m] = tree.params[m]
  BY <1>3, <1>4, <1>5
<1>12. Fits(u, outside, config, iter, g, b)
  BY <1>2, <1>7, <1>9, <1>10, <1>11, TreeFits
<1>13. iter.tree \in Nodes
  <2>1. iter.tree # None
    BY <1>9, <1>10 DEF Fits, Enters
  <2> QED
    BY <1>2, <2>1, IterFields
<1>14. u.params[iter.tree] = tree.params[iter.tree]
  <2>1. iter.tree = Root \/ Parent(tree, iter.tree) # None
    BY <1>2, <1>9, <1>10, <1>13, FitsPlace
  <2> QED
    BY <1>11, <1>13, <2>1
<1>15. Enters(u, config, changed, iter)
  BY <1>9, <1>14 DEF Enters
<1>16. Single(u)
  <2>1. \A q \in Nodes : \A k \in Range(u.kids[q]) : k \in Range(tree.kids[q]) \/ (q = Root /\ k = n)
    BY <1>7
  <2>2. Single(tree) /\ Parent(tree, n) = None
    BY <1>3, <1>9
  <2> QED
    BY <2>1, <2>2, SingleMore
<1>17. Stands(u, outside, config, iter)
  BY <1>12 DEF Stands
<1>18. /\ Placed(tree, outside, config, Current)' /\ Single(tree)' /\ (outside \in [Vars -> Values])'
       /\ Enters(tree, config, changed, Current)'
  BY <1>1, <1>2, <1>6, <1>8, <1>15, <1>16, <1>17 DEF Placed, PathInv
<1> QED
  BY <1>8, <1>18 DEF PathInv

\* A new iterator starts on whatever level the last one left.
LEMMA NewIterFits ==
  ASSUME NEW t, NEW out, NEW c, Stacked(c), Grounded(t, out, c)
  PROVE  Stands(t, out, c, NewIter)
<1> DEFINE g == [i \in Nat |-> Root]   b == c.lvl
<1>1. b \in Nat \ {0} /\ Len(Levels(c)) = b
  <2>1. c.lvl \in Nat /\ c.lvl >= 1 /\ Len(Levels(c)) = c.lvl
    BY TopIs
  <2> QED
    BY <2>1
<1>2. NewIter.tree = None /\ NewIter.stack = << >> /\ ~NewIter.pushed /\ Len(<< >>) = 0
  BY DEF NewIter
<1>3. g \in [Nat -> Nodes] /\ g[0] = Root
  BY PlayTreeAssumption
<1> HIDE DEF g
<1>4. Way(t.kids, g, 0)
  BY <1>3 DEF Way
<1>5. After(Levels(c)[b], t.params[Root]) = After(out, t.params[Root])
  BY DEF Grounded
<1> HIDE DEF b
<1>6. Opens(t.params, out, Levels(c), g, 0, b)
  <2>1. b + 0 <= Len(Levels(c))
    BY <1>1
  <2>2. \A i \in 1 .. 0 : FALSE
    OBVIOUS
  <2> QED
    BY <1>1, <1>5, <2>1, <2>2 DEF Opens
<1>7. c.lvl = Height(b, NewIter)
  <2>1. b + 0 + 0 = b
    BY <1>1
  <2> QED
    BY <1>2, <2>1 DEF Height, b
<1>8. Fits(t, out, c, NewIter, g, b)
  BY <1>2, <1>4, <1>6, <1>7 DEF Fits
<1> QED
  BY <1>8 DEF Stands

LEMMA LoadIdleFits ==
  ASSUME NEW level \in Layers, IInv(level), PathInv, LoadIdle
  PROVE  PathInv'
<1>1. /\ pc = "idle" /\ pc' = "first" /\ iter' = NewIter /\ config' = config /\ call'.op = "step"
      /\ UNCHANGED <<changed, outside>>
  BY DEF LoadIdle, Call, Touch
<1>2. Tree(tree, level) /\ Stacked(config) /\ NewIter # None
  BY PlaceIs, NewIterIs
<1>3. PICK n \in Fresh : Parent(tree, n) = None /\ OnlyChild(n)
  BY DEF LoadIdle, NewNodes
<1>4. n \in Nodes /\ n # Root /\ Root \in Nodes
  <2>1. n \in Nodes /\ level[n] = 1
    BY <1>2, PlayTreeAssumption DEF Tree, Layered
  <2> QED
    BY <1>2, <2>1, TreeFields
<1> DEFINE u == [Clean(tree, n) EXCEPT !.kids[Root] = <<n>>]
<1>5. /\ \A q \in Nodes : \A k \in Range(u.kids[q]) : k \in Range(tree.kids[q]) \/ (q = Root /\ k = n)
      /\ \A m \in Nodes : m # n => u.params[m] = tree.params[m]
  BY <1>2, <1>4, LoadHas
<1>6. tree' = u
  BY <1>3 DEF OnlyChild
<1> HIDE DEF u
<1>7. Current = None /\ Current' = NewIter /\ ~AtEntry' /\ BookInv'
  BY <1>1 DEF PathInv, BookInv, Current, AtEntry
<1>8. Grounded(tree, outside, config)
  BY <1>7 DEF PathInv, Placed
<1>9. Grounded(u, outside, config)
  BY <1>4, <1>5, <1>8 DEF Grounded
<1>10. Stands(u, outside, config, NewIter)
  BY <1>2, <1>9, NewIterFits
<1>11. Single(u)
  <2>1. \A q \in Nodes : \A k \in Range(u.kids[q]) : k \in Range(tree.kids[q]) \/ (q = Root /\ k = n)
    BY <1>5
  <2>2. Single(tree) /\ Parent(tree, n) = None
    BY <1>3 DEF PathInv
  <2> QED
    BY <2>1, <2>2, SingleMore
<1>12. Placed(tree, outside, config, Current)' /\ Single(tree)' /\ (outside \in [Vars -> Values])'
  BY <1>1, <1>2, <1>6, <1>7, <1>10, <1>11 DEF Placed, PathInv
<1> QED
  BY <1>7, <1>12 DEF PathInv

\* A change goes to the top level: that of the entry, or the one outside.
LEMMA ChangeFits ==
  ASSUME NEW level \in Layers, IInv(level), PathInv, ChangeOption
  PROVE  PathInv'
<1>1. PICK v \in Vars, x \in Values :
        /\ config' = ChangeVar(config, v, x)
        /\ outside' = IF pc = "idle" THEN [outside EXCEPT ![v] = x] ELSE outside
  BY DEF ChangeOption
<1>2. pc \in {"play", "idle"} /\ (changed' <=> pc = "play")
      /\ UNCHANGED <<tree, iter, kept, call, answer, pc, eof, arg>>
  BY DEF ChangeOption
<1>3. Stacked(config) /\ call.op = "none"
  BY <1>2, PlaceIs DEF Asking
<1>4. /\ Stacked(config') /\ config'.lvl = config.lvl
      /\ \A i \in 1 .. config.lvl - 1 : Levels(config')[i] = Levels(config)[i]
      /\ \A w \in Scoped : Levels(config')[config'.lvl][w] = IF w = v THEN x ELSE Levels(config)[config.lvl][w]
  BY <1>1, <1>3, ChangeTop
<1>5. Current = iter /\ Current' = iter /\ BookInv' /\ Single(tree)'
  BY <1>2 DEF Current, BookInv, PathInv
<1>6. CASE pc = "idle"
  <2>1. Grounded(tree, outside, config) /\ iter = None
    BY <1>5, <1>6 DEF PathInv, Placed, BookInv
  <2>2. outside' = [outside EXCEPT ![v] = x] /\ outside \in [Vars -> Values] /\ Scoped \subseteq Vars
    BY <1>1, <1>6, ConfigAssumption DEF PathInv, Scoped
  <2>3. \A w \in Scoped : outside'[w] = IF w = v THEN x ELSE outside[w]
    BY <2>2
  <2> DEFINE e == Levels(config)[config.lvl]   f == Levels(config')[config'.lvl]   p == tree.params[Root]
  <2>4. After(e, p) = After(outside, p) /\ \A w \in Scoped : f[w] = IF w = v THEN x ELSE e[w]
    BY <1>4, <2>1 DEF Grounded
  <2> HIDE DEF e, f, p
  <2>5. After(f, p) = After(outside', p)
    <3> DEFINE d == outside'
    <3>1. Changes(outside, d, v, x)
      BY <2>3 DEF Changes
    <3>2. After(e, p) = After(outside, p)
      BY <2>4
    <3>3. Changes(e, f, v, x)
      BY <2>4 DEF Changes
    <3> HIDE DEF d
    <3>4. After(f, p) = After(d, p)
      BY <3>1, <3>2, <3>3, AfterChange
    <3> QED
      BY <3>4 DEF d
  <2>6. Placed(tree, outside, config, Current)'
    BY <1>2, <1>5, <2>1, <2>5 DEF Placed, Grounded, f, p
  <2>7. (outside \in [Vars -> Values])'
    BY <2>2
  <2>8. ~AtEntry'
    BY <1>2, <1>6 DEF AtEntry
  <2> QED
    BY <1>5, <2>6, <2>7, <2>8 DEF PathInv
<1>7. CASE pc = "play"
  <2>1. iter # None /\ AtEntry /\ outside' = outside
    BY <1>1, <1>2, <1>5, <1>7, PlaceIs DEF AtEntry
  <2>2. Stands(tree, outside, config, iter) /\ Enters(tree, config, changed, iter) /\ iter.file # -1
    BY <1>5, <1>7, <2>1 DEF PathInv, Placed, BookInv
  <2>3. PICK g, b : Fits(tree, outside, config, iter, g, b)
    BY <2>2 DEF Stands
  <2>4. iter.pushed
    BY <2>2 DEF Enters
  <2>5. Len(iter.stack) \in Nat /\ b \in Nat \ {0} /\ config.lvl \in Nat
    BY <1>3, <2>3, FitsIs
  <2>6. config.lvl = Height(b, iter)
    BY <1>3, <2>3, FitsHeight
  <2>7. config.lvl = b + Len(iter.stack) + 1
    BY <2>4, <2>6 DEF Height
  <2>8. \A i \in b .. b + Len(iter.stack) : i \in 1 .. config.lvl - 1
    BY <2>5, <2>7
  <2>9. \A i \in b .. b + Len(iter.stack) : Levels(config')[i] = Levels(config)[i]
    BY <1>4, <2>8
  <2>10. config'.lvl = Height(b, iter)
    BY <1>4, <2>6
  <2>11. Fits(tree, outside, config', iter, g, b)
    <3>1. iter.tree = None => ~iter.pushed
      BY <2>3 DEF Fits
    <3> QED
      BY <1>3, <1>4, <2>3, <2>9, <2>10, <3>1, StandsSame
  <2>12. Placed(tree, outside, config, Current)' /\ (outside \in [Vars -> Values])'
    BY <1>2, <1>5, <2>1, <2>11 DEF Placed, Stands, PathInv
  <2>13. Enters(tree, config, changed, Current)'
    BY <1>2, <1>5, <1>7, <2>2, <2>4 DEF Enters
  <2> QED
    BY <1>5, <2>12, <2>13 DEF PathInv
<1> QED
  BY <1>2, <1>6, <1>7


-----------------------------------------------------------------------------
(* Every step, and what the invariant says of a file that plays. *)

LEMMA PathNext ==
  ASSUME NEW level \in Layers, IInv(level), PathInv, [Next]_vars, [Tidy]_vars
  PROVE  PathInv'
<1>1. CASE UNCHANGED vars
  BY <1>1 DEF vars, PathInv, BookInv, AtEntry, Current
<1>2. CASE ~UNCHANGED vars
  <2>1. Next /\ Tidy
    BY <1>2
  <2>2. CASE Iterate
    BY <2>2, IterateFits
  <2>3. CASE Main
    BY <2>1, <2>3, LeaveFits, NextFits, GetFileFits, FileFits, OpenListFits, ListFits, TryReturnedFits,
       UnwindFits DEF Main
  <2>4. CASE Command
    BY <2>4, AskFits, SourceFits, LoadBehindFits, LoadIdleFits, ChangeFits DEF Command
  <2> QED
    BY <2>1, <2>2, <2>3, <2>4 DEF Next
<1> QED
  BY <1>1, <1>2

LEMMA PathInit ==
  ASSUME NEW level \in Layers, IInv(level), Init
  PROVE  PathInv
<1>1. /\ iter = NewIter /\ pc = "first" /\ call.op = "step" /\ config = NewConfig(Default) /\ outside = Default
      /\ tree \in Trees
  BY DEF Init, NoCall
<1>2. Stacked(config) /\ NewIter # None
  BY PlaceIs, NewIterIs
<1>3. Single(tree) /\ Default \in [Vars -> Values]
  BY <1>1, PlayTreeAssumption
<1>4. config.lvl = 1 /\ config.value = Default
  BY <1>1 DEF NewConfig
<1>5. \A v \in Scoped : Levels(config)[config.lvl][v] = Default[v]
  BY <1>2, <1>4, TopIs
<1>6. Grounded(tree, outside, config)
  <2> DEFINE e == Levels(config)[config.lvl]   p == tree.params[Root]
  <2>1. \A v \in Scoped : e[v] = outside[v]
    BY <1>1, <1>5
  <2> HIDE DEF e, p
  <2>2. After(e, p) = After(outside, p)
    BY <2>1 DEF After
  <2> QED
    BY <2>2 DEF Grounded, e, p
<1>7. Stands(tree, outside, config, NewIter)
  BY <1>2, <1>6, NewIterFits
<1>8. Current = NewIter /\ ~AtEntry /\ BookInv
  BY <1>1 DEF Current, AtEntry, BookInv
<1>9. Placed(tree, outside, config, Current)
  BY <1>2, <1>7, <1>8 DEF Placed
<1> QED
  BY <1>1, <1>3, <1>8, <1>9 DEF PathInv

LEMMA PathMeans ==
  ASSUME NEW level \in Layers, IInv(level), PathInv
  PROVE  EnvIsPath
<1> SUFFICES ASSUME pc = "play" PROVE EnvIsPath
  BY DEF EnvIsPath
<1>1. iter # None /\ iter \in Iterators /\ Tree(tree, level) /\ Stacked(config) /\ Current = iter /\ AtEntry
  BY PlaceIs DEF Current, AtEntry
<1>2. Single(tree) /\ Stands(tree, outside, config, iter) /\ Enters(tree, config, changed, iter)
  BY <1>1 DEF PathInv, Placed
<1>3. PICK g, b : Fits(tree, outside, config, iter, g, b)
  BY <1>2 DEF Stands
<1> DEFINE n == Len(iter.stack)   L == Levels(config)   params == tree.params
<1>4. iter.pushed /\ iter.tree \in Nodes
  <2>1. iter.pushed /\ iter.tree # None
    BY <1>2, <1>3 DEF Enters, Fits
  <2> QED
    BY <1>1, <2>1, IterFields
<1>5. /\ n \in Nat /\ b \in Nat \ {0} /\ config.lvl \in Nat /\ Len(L) = config.lvl
      /\ g \in [Nat -> Nodes] /\ g[0] = Root /\ \A i \in Nat : g[i] \in Nodes
  BY <1>1, <1>3, FitsIs
<1>6. config.lvl = b + n + 1
  <2>1. config.lvl = Height(b, iter)
    BY <1>1, <1>3, FitsHeight
  <2> QED
    BY <1>4, <2>1 DEF Height
<1>7. Way(tree.kids, g, n) /\ Opens(params, outside, L, g, n, b) /\ iter.tree = g[n]
  <2>1. iter.tree = g[Len(iter.stack)]
    BY <1>1, <1>2, <1>3, <1>4, FitsPlace
  <2>2. Way(tree.kids, g, n)
    BY <1>3 DEF Fits
  <2>3. Opens(tree.params, outside, Levels(config), g, Len(iter.stack), b)
    BY <1>3 DEF Fits
  <2> QED
    BY <2>1, <2>2, <2>3
<1>8. params \in [Nodes -> Params]
  BY <1>1, TreeFields
<1> DEFINE path == Path(tree, iter.tree)
           opts == FlattenSeq([j \in 1 .. n + 1 |-> params[g[j - 1]]])
<1>9. path = [j \in 1 .. n + 1 |-> g[j - 1]]
  <2> HIDE DEF n, path
  <2>1. \A i \in 0 .. n : Path(tree, g[i]) = [j \in 1 .. i + 1 |-> g[j - 1]]
    BY <1>1, <1>2, <1>7, WayPath
  <2>2. n \in 0 .. n
    BY <1>5
  <2> QED
    BY <1>7, <2>1, <2>2 DEF path
<1> HIDE DEF n, L, params, path
<1>10. /\ path \in Seq(Nodes) /\ Len(path) = n + 1 /\ DOMAIN path = 1 .. n + 1 /\ Head(path) = Root
       /\ \A j \in 1 .. n + 1 : path[j] = g[j - 1]
  <2>1. \A j \in 1 .. n + 1 : j - 1 \in Nat /\ g[j - 1] \in Nodes
    BY <1>5
  <2>2. path \in Seq(Nodes) /\ Len(path) = n + 1 /\ DOMAIN path = 1 .. n + 1
    BY <1>5, <1>9, <2>1
  <2>3. \A j \in 1 .. n + 1 : path[j] = g[j - 1]
    BY <1>9
  <2>4. Head(path) = path[1] /\ 1 \in 1 .. n + 1 /\ 1 - 1 = 0
    BY <1>5, <2>2
  <2> QED
    BY <1>5, <2>2, <2>3, <2>4
<1>11. FlattenSeq([i \in DOMAIN path |-> tree.params[path[i]]]) = opts
  <2>1. [i \in DOMAIN path |-> tree.params[path[i]]] = [j \in 1 .. n + 1 |-> params[g[j - 1]]]
    BY <1>10 DEF params
  <2> QED
    BY <2>1
<1>12. ASSUME ~changed, NEW v \in Scoped
       PROVE  config.value[v] = SetOptions(NewConfig(outside), opts).value[v]
  <2>1. L[config.lvl] = After(L[config.lvl - 1], params[iter.tree])
    BY <1>2, <1>12 DEF Enters, L, params
  <2>2. config.lvl - 1 = b + n /\ b + n + 1 <= Len(L) /\ n + 1 \in Nat /\ n + 1 > 0 /\ b + (n + 1) = config.lvl
    BY <1>5, <1>6
  <2>3. L[b + n + 1] = After(L[b + n], params[g[n]])
    BY <1>6, <1>7, <2>1, <2>2
  <2>4. Opens(params, outside, L, g, n + 1, b)
    BY <1>5, <1>7, <2>2, <2>3, OpensMore
  <2> DEFINE m == n + 1
  <2>5. m \in Nat /\ m > 0 /\ b + m = config.lvl /\ Opens(params, outside, L, g, m, b)
    BY <2>2, <2>4
  <2>6. opts = FlattenSeq([j \in 1 .. m |-> params[g[j - 1]]])
    OBVIOUS
  <2> HIDE DEF m, opts
  <2>7. L[b + m] = After(outside, opts)
    BY <1>5, <1>8, <2>5, <2>6, OpensEnv
  <2>8. L[config.lvl][v] = config.value[v]
    BY <1>1, TopIs DEF L
  <2>9. SetOptions(NewConfig(outside), opts).value[v] = After(outside, opts)[v]
    BY EnvIs
  <2> QED
    BY <2>5, <2>7, <2>8, <2>9
<1>13. n = Len(path) - 1
  BY <1>5, <1>10
<1> HIDE DEF opts
<1> QED
  BY <1>10, <1>11, <1>12, <1>13 DEF EnvIsPath, Here, n, path

(* As long as the list is left tidily, every file that plays has the options before
   the first file, then those of the groups around it, outermost first, and its own,
   whatever played before, however the list was walked, and whichever options were
   changed on the way (playtree.c:447-763 with play_tree_iter_push_params against
   m_config_pop, mplayer.c:1060-1095 and 4118-4180, command.c:2777-2960). *)
THEOREM OptionsOfPath == Spec /\ [][Tidy]_vars => []EnvIsPath
<1> DEFINE Both == \E level \in Layers : IInv(level) /\ PathInv
<1>1. Init => Both
  BY InvInit, PathInit DEF Inv
<1>2. Both /\ [Next]_vars /\ [Tidy]_vars => Both'
  <2> SUFFICES ASSUME NEW level \in Layers, IInv(level), PathInv, [Next]_vars, [Tidy]_vars PROVE Both'
    OBVIOUS
  <2>1. IInv(level)' /\ PathInv'
    BY NextKeepsIt, PathNext
  <2> QED
    BY <2>1
<1>3. Both => EnvIsPath
  BY PathMeans
<1> HIDE DEF Both
<1> QED
  BY <1>1, <1>2, <1>3, PTL DEF Spec

-----------------------------------------------------------------------------
(* The order of a list is a recursive function as well, and so is whether a group
   has something to play: there is one, as no group is around more than `deep'
   others. *)

Bounded(level, deep) == deep \in Nat /\ level \in [Nodes -> 0 .. deep]

\* What the nodes of a group have, by the function f.
Each(kids, f, n) == [i \in DOMAIN kids[n] |-> f[kids[n][i]]]

\* f is what G makes of a node and of what the nodes in it have.
Recurs(kids, V, G, f, n) == Each(kids, f, n) \in Seq(V) /\ f[n] = G[<<n, Each(kids, f, n)>>]

LEMMA EachIs ==
  ASSUME NEW kids \in [Nodes -> Seq(Nodes)], NEW V, NEW f \in [Nodes -> V], NEW n \in Nodes
  PROVE  /\ Each(kids, f, n) \in Seq(V) /\ Len(Each(kids, f, n)) = Len(kids[n])
         /\ \A i \in 1 .. Len(kids[n]) : Each(kids, f, n)[i] = f[kids[n][i]]
<1> DEFINE s == kids[n]
<1>1. s \in Seq(Nodes) /\ Len(s) \in Nat /\ DOMAIN s = 1 .. Len(s) /\ \A i \in 1 .. Len(s) : s[i] \in Nodes
  OBVIOUS
<1>2. Each(kids, f, n) = [i \in 1 .. Len(s) |-> f[s[i]]]
  BY <1>1 DEF Each
<1> HIDE DEF s
<1>3. \A i \in 1 .. Len(s) : f[s[i]] \in V
  BY <1>1
<1> QED
  BY <1>1, <1>2, <1>3 DEF s

LEMMA Recursion ==
  ASSUME NEW level, NEW deep, Bounded(level, deep), NEW t, Tree(t, level),
         NEW V, NEW G \in [Nodes \X Seq(V) -> V]
  PROVE  \E f \in [Nodes -> V] : \A n \in Nodes : Recurs(t.kids, V, G, f, n)
<1> DEFINE kids == t.kids   h == [n \in Nodes |-> deep - level[n]]
           For(d) == \E f \in [Nodes -> V] : \A n \in Nodes : h[n] <= d => Recurs(kids, V, G, f, n)
           P == {d \in Nat : For(d)}
<1>1. level \in Layers /\ kids \in [Nodes -> Seq(Nodes)] /\ h \in [Nodes -> Nat] /\ deep \in Nat
      /\ \A n \in Nodes : h[n] <= deep
  <2>1. level \in Layers /\ deep \in Nat /\ level \in [Nodes -> 0 .. deep]
    BY DEF Bounded, Layers
  <2>2. \A n \in Nodes : deep - level[n] \in Nat /\ deep - level[n] <= deep
    BY <2>1
  <2> QED
    BY <2>1, <2>2, TreeFields
<1>2. ASSUME NEW n \in Nodes, NEW i \in 1 .. Len(kids[n])
      PROVE  kids[n][i] \in Nodes /\ h[kids[n][i]] < h[n]
  <2> DEFINE k == kids[n][i]
  <2>1. k \in Range(kids[n])
    BY <1>1 DEF Range
  <2>2. k \in Nodes /\ level[k] = level[n] + 1
    BY <1>1, <2>1, TreeFields
  <2> HIDE DEF k
  <2>3. level[n] \in Nat /\ h[k] = deep - level[k] /\ h[n] = deep - level[n]
    BY <1>1, <2>2 DEF Layers
  <2>4. h[k] < h[n]
    BY <1>1, <2>2, <2>3
  <2> QED
    BY <2>2, <2>4 DEF k
<1> HIDE DEF h, kids
<1>3. ASSUME NEW n \in Nodes, NEW f \in [Nodes -> V], NEW g \in [Nodes -> V],
             \A k \in Nodes : h[k] < h[n] => f[k] = g[k]
      PROVE  Each(kids, f, n) = Each(kids, g, n)
  <2>1. \A i \in DOMAIN kids[n] : f[kids[n][i]] = g[kids[n][i]]
    <3>1. DOMAIN kids[n] = 1 .. Len(kids[n])
      BY <1>1
    <3> QED
      BY <1>2, <1>3, <3>1
  <2> QED
    BY <2>1 DEF Each
<1>4. ASSUME NEW d \in Int, NEW f \in [Nodes -> V],
             \A n \in Nodes : h[n] <= d => Recurs(kids, V, G, f, n)
      PROVE  For(d + 1)
  <2> DEFINE g == [n \in Nodes |-> G[<<n, Each(kids, f, n)>>]]
  <2>1. \A n \in Nodes : Each(kids, f, n) \in Seq(V)
    BY <1>1, EachIs
  <2>2. g \in [Nodes -> V]
    BY <2>1
  <2>3. \A n \in Nodes : h[n] <= d => g[n] = f[n]
    BY <1>4 DEF Recurs
  <2>4. ASSUME NEW n \in Nodes, h[n] <= d + 1 PROVE Recurs(kids, V, G, g, n)
    <3>1. \A k \in Nodes : h[k] < h[n] => h[k] <= d
      BY <1>1, <2>4
    <3>2. Each(kids, f, n) = Each(kids, g, n)
      <4>1. \A k \in Nodes : h[k] < h[n] => f[k] = g[k]
        BY <2>3, <3>1
      <4> HIDE DEF g
      <4> QED
        BY <1>3, <2>2, <4>1
    <3>3. g[n] = G[<<n, Each(kids, f, n)>>]
      OBVIOUS
    <3> HIDE DEF g
    <3> QED
      BY <2>1, <3>2, <3>3 DEF Recurs
  <2> HIDE DEF g
  <2> QED
    BY <2>2, <2>4
<1>5. 0 \in P
  <2> DEFINE f == [n \in Nodes |-> G[<<n, << >>>>]]   m == -1
  <2>1. ASSUME NEW n \in Nodes PROVE G[<<n, << >>>>] \in V
    <3>1. << >> \in Seq(V)
      OBVIOUS
    <3>2. <<n, << >>>> \in Nodes \X Seq(V)
      BY <3>1
    <3> QED
      BY <3>2
  <2>2. f \in [Nodes -> V] /\ m \in Int /\ m + 1 = 0
    BY <2>1
  <2>3. \A n \in Nodes : ~(h[n] <= m)
    BY <1>1
  <2> HIDE DEF f, m, For
  <2>4. For(m + 1)
    BY <1>4, <2>2, <2>3
  <2> QED
    BY <2>2, <2>4
<1>6. ASSUME NEW d \in Nat, For(d) PROVE For(d + 1)
  <2>1. PICK f \in [Nodes -> V] : \A n \in Nodes : h[n] <= d => Recurs(kids, V, G, f, n)
    BY <1>6, Zenon
  <2> HIDE DEF For
  <2>2. d \in Int
    OBVIOUS
  <2> QED
    BY <1>4, <2>1, <2>2
<1>7. Nat \subseteq P
  <2> HIDE DEF For
  <2>1. \A d \in Nat : d \in P => d + 1 \in P
    BY <1>6
  <2> HIDE DEF P
  <2> QED
    BY <1>5, <2>1, Induction
<1>8. For(deep)
  BY <1>1, <1>7
<1> QED
  BY <1>1, <1>8 DEF kids

\* What holds of a node when it holds of the nodes in it, holds of all of them.
LEMMA Heights ==
  ASSUME NEW level, NEW deep, Bounded(level, deep), NEW t, Tree(t, level), NEW S,
         \A n \in Nodes : (\A k \in Range(t.kids[n]) : k \in S) => n \in S
  PROVE  Nodes \subseteq S
<1> DEFINE h == [n \in Nodes |-> deep - level[n]]
           P == {d \in Nat : \A n \in Nodes : h[n] <= d => n \in S}
<1>1. level \in Layers /\ h \in [Nodes -> Nat] /\ deep \in Nat /\ \A n \in Nodes : h[n] <= deep
  <2>1. level \in Layers /\ deep \in Nat /\ level \in [Nodes -> 0 .. deep]
    BY DEF Bounded, Layers
  <2>2. \A n \in Nodes : deep - level[n] \in Nat /\ deep - level[n] <= deep
    BY <2>1
  <2> QED
    BY <2>1, <2>2
<1>2. ASSUME NEW n \in Nodes, NEW k \in Range(t.kids[n]) PROVE k \in Nodes /\ h[k] < h[n]
  <2>1. k \in Nodes /\ level[k] = level[n] + 1
    BY <1>1, TreeFields
  <2>2. level[n] \in Nat /\ h[k] = deep - level[k] /\ h[n] = deep - level[n]
    BY <1>1, <2>1 DEF Layers
  <2> QED
    BY <1>1, <2>1, <2>2
<1> HIDE DEF h
<1>3. 0 \in P
  <2> SUFFICES ASSUME NEW n \in Nodes, h[n] <= 0 PROVE n \in S
    OBVIOUS
  <2>1. \A k \in Range(t.kids[n]) : FALSE
    <3> SUFFICES ASSUME NEW k \in Range(t.kids[n]) PROVE FALSE
      OBVIOUS
    <3>1. k \in Nodes /\ h[k] < h[n]
      BY <1>2
    <3> QED
      BY <1>1, <3>1
  <2> QED
    BY <2>1
<1>4. ASSUME NEW d \in Nat, d \in P PROVE d + 1 \in P
  <2> SUFFICES ASSUME NEW n \in Nodes, h[n] <= d + 1 PROVE n \in S
    OBVIOUS
  <2>1. ASSUME NEW k \in Range(t.kids[n]) PROVE k \in S
    <3>1. k \in Nodes /\ h[k] < h[n]
      BY <1>2
    <3>2. h[k] <= d
      BY <1>1, <3>1
    <3> QED
      BY <1>4, <3>1, <3>2
  <2> QED
    BY <2>1
<1>5. Nat \subseteq P
  <2> HIDE DEF P
  <2> QED
    BY <1>3, <1>4, Induction
<1> QED
  BY <1>1, <1>5

Once(t, f, n) == FlattenSeq(Each(t.kids, f, n))
Again(s, k) == FlattenSeq([i \in 1 .. k |-> s])

\* f is the order of every node of the list, as Order has it.
Orders(t, f) ==
  /\ f \in [Nodes -> Seq(Nodes)]
  /\ \A n \in Nodes : f[n] = IF Files[n] > 0 THEN <<n>>
                             ELSE Again(Once(t, f, n), IF t.loop[n] > 1 THEN t.loop[n] ELSE 1)

LEMMA AgainIs ==
  ASSUME NEW T, NEW s \in Seq(T), NEW k \in Int
  PROVE  /\ Again(s, k) \in Seq(T)
         /\ k <= 0 => Again(s, k) = << >>
         /\ k > 0 => Again(s, k) = s \o Again(s, k - 1)
<1>1. ASSUME NEW j \in Int PROVE [i \in 1 .. j |-> s] \in Pieces(T)
  <2>1. CASE j <= 0
    <3>1. 1 .. j = 1 .. 0
      BY <2>1
    <3>2. [i \in 1 .. 0 |-> s] \in Seq(Seq(T))
      OBVIOUS
    <3> QED
      BY <3>1, <3>2 DEF Pieces
  <2>2. CASE j > 0
    <3>1. [i \in 1 .. j |-> s] \in Seq(Seq(T))
      BY <2>2
    <3> QED
      BY <3>1 DEF Pieces
  <2> QED
    BY <2>1, <2>2
<1>2. ASSUME k <= 0 PROVE Again(s, k) = << >>
  <2>1. [i \in 1 .. k |-> s] = << >>
    <3>1. 1 .. k = {}
      BY <1>2
    <3>2. [i \in {} |-> s] = << >>
      OBVIOUS
    <3> QED
      BY <3>1, <3>2
  <2> QED
    BY <2>1, FlattenEmpty DEF Again
<1>3. ASSUME k > 0 PROVE Again(s, k) = s \o Again(s, k - 1)
  <2> DEFINE r == [i \in 1 .. k - 1 |-> s]
  <2>1. [i \in 1 .. k |-> s] = <<s>> \o r
    <3>1. r \in Seq({s}) /\ Len(r) = k - 1
      BY <1>3
    <3> DEFINE w == <<s>> \o r
    <3> HIDE DEF r
    <3>2. w \in Seq({s}) /\ Len(w) = k
      BY <1>3, <3>1
    <3> HIDE DEF w
    <3>3. w = [i \in 1 .. k |-> w[i]] /\ \A i \in 1 .. k : w[i] = s
      BY <3>2
    <3> QED
      BY <3>3 DEF w
  <2>2. r \in Pieces(T)
    <3> DEFINE j == k - 1
    <3>1. j \in Int
      OBVIOUS
    <3> HIDE DEF j
    <3>2. [i \in 1 .. j |-> s] \in Pieces(T)
      BY <1>1, <3>1
    <3> QED
      BY <3>2 DEF j
  <2> HIDE DEF r
  <2>3. FlattenSeq(<<s>> \o r) = s \o FlattenSeq(r)
    BY <2>2, FlattenFront
  <2> QED
    BY <2>1, <2>3 DEF Again, r
<1>4. Again(s, k) \in Seq(T)
  BY <1>1, FlattenType DEF Again
<1> QED
  BY <1>2, <1>3, <1>4

LEMMA OrderIs ==
  ASSUME NEW level, NEW deep, Bounded(level, deep), Tree(tree, level)
  PROVE  \E f : Orders(tree, f) /\ Order = f[Root]
<1> DEFINE V == Seq(Nodes)
           T(n) == IF tree.loop[n] > 1 THEN tree.loop[n] ELSE 1
           M(n, s) == IF Files[n] > 0 THEN <<n>> ELSE Again(FlattenSeq(s), T(n))
           G == [x \in Nodes \X Seq(V) |-> M(x[1], x[2])]
<1>1. level \in Layers
  BY DEF Bounded, Layers
<1>2. tree.kids \in [Nodes -> Seq(Nodes)] /\ \A n \in Nodes : T(n) \in Int
  BY <1>1, TreeFields
<1>3. ASSUME NEW n \in Nodes, NEW s \in Seq(V) PROVE M(n, s) \in V
  <2>1. FlattenSeq(s) \in Seq(Nodes)
    BY FlattenType DEF Pieces
  <2> HIDE DEF T
  <2>2. Again(FlattenSeq(s), T(n)) \in Seq(Nodes)
    BY <1>2, <2>1, AgainIs
  <2> QED
    BY <2>2
<1> HIDE DEF M
<1>4. G \in [Nodes \X Seq(V) -> V] /\ \A n \in Nodes, s \in Seq(V) : G[<<n, s>>] = M(n, s)
  BY <1>3
<1> HIDE DEF G, V
<1>5. PICK f \in [Nodes -> V] : \A n \in Nodes : Recurs(tree.kids, V, G, f, n)
  BY <1>4, Recursion
<1>6. ASSUME NEW n \in Nodes PROVE f[n] = M(n, Each(tree.kids, f, n))
  BY <1>4, <1>5 DEF Recurs
<1>7. f = [n \in Nodes |-> M(n, Each(tree.kids, f, n))]
  <2>1. f = [n \in Nodes |-> f[n]]
    BY <1>5
  <2> QED
    BY <1>6, <2>1
<1> DEFINE c == CHOOSE order : order = [n \in Nodes |-> M(n, Each(tree.kids, order, n))]
<1>8. c = [n \in Nodes |-> M(n, Each(tree.kids, c, n))]
  BY <1>7, Zenon
<1>9. Order = c[Root]
  BY Zenon DEF Order, M, T, Times, Again, Each
<1> HIDE DEF c
<1>10. Nodes \subseteq {n \in Nodes : c[n] = f[n]}
  <2> DEFINE S == {n \in Nodes : c[n] = f[n]}
  <2>1. ASSUME NEW n \in Nodes, \A k \in Range(tree.kids[n]) : k \in S PROVE n \in S
    <3>1. \A i \in DOMAIN tree.kids[n] : c[tree.kids[n][i]] = f[tree.kids[n][i]]
      BY <2>1 DEF Range
    <3>2. Each(tree.kids, c, n) = Each(tree.kids, f, n)
      BY <3>1 DEF Each
    <3>3. c[n] = M(n, Each(tree.kids, c, n)) /\ f[n] = M(n, Each(tree.kids, f, n))
      BY <1>6, <1>8
    <3> QED
      BY <3>2, <3>3
  <2> HIDE DEF S
  <2>2. Nodes \subseteq S
    BY <2>1, Heights
  <2> QED
    BY <2>2 DEF S
<1>11. Root \in Nodes
  BY PlayTreeAssumption
<1>12. Orders(tree, f)
  BY <1>5, <1>6 DEF Orders, M, T, V, Once
<1> QED
  BY <1>9, <1>10, <1>11, <1>12

\* A list: the groups from the root down have something in them, and the entries
\* a file to play, and none is in a group twice.
Proper(t, U) ==
  /\ U \subseteq Nodes /\ Root \in U
  /\ \A n \in U : /\ Range(t.kids[n]) \subseteq U
                  /\ Files[n] > 0 <=> t.kids[n] = << >>
                  /\ \A i, j \in DOMAIN t.kids[n] : t.kids[n][i] = t.kids[n][j] => i = j

LEMMA AllValid ==
  ASSUME NEW level, NEW deep, Bounded(level, deep), NEW t, Tree(t, level), NEW U, Proper(t, U)
  PROVE  \A n \in U : IsValid(t, n)
<1> DEFINE M(n, s) == Files[n] > 0 \/ \E i \in DOMAIN s : s[i]
           G == [x \in Nodes \X Seq(BOOLEAN) |-> M(x[1], x[2])]
           E(v, n) == Files[n] > 0 \/ \E k \in Range(t.kids[n]) : v[k]
<1>1. level \in Layers
  BY DEF Bounded, Layers
<1>2. t.kids \in [Nodes -> Seq(Nodes)]
  BY <1>1, TreeFields
<1>3. G \in [Nodes \X Seq(BOOLEAN) -> BOOLEAN] /\ \A n \in Nodes, s \in Seq(BOOLEAN) : G[<<n, s>>] = M(n, s)
  OBVIOUS
<1> HIDE DEF G, M
<1>4. PICK f \in [Nodes -> BOOLEAN] : \A n \in Nodes : Recurs(t.kids, BOOLEAN, G, f, n)
  BY <1>3, Recursion
<1>5. ASSUME NEW n \in Nodes PROVE f[n] = E(f, n)
  <2>1. f[n] = M(n, Each(t.kids, f, n))
    BY <1>3, <1>4 DEF Recurs
  <2>2. M(n, Each(t.kids, f, n)) = E(f, n)
    <3>1. (\E i \in DOMAIN Each(t.kids, f, n) : Each(t.kids, f, n)[i]) <=> \E k \in Range(t.kids[n]) : f[k]
      BY Zenon DEF Each, Range
    <3> QED
      BY <3>1 DEF M
  <2> QED
    BY <2>1, <2>2
<1>6. f = [n \in Nodes |-> E(f, n)]
  <2>1. f = [n \in Nodes |-> f[n]]
    BY <1>4
  <2> HIDE DEF E
  <2> QED
    BY <1>5, <2>1
<1> DEFINE v == CHOOSE valid : valid = [n \in Nodes |-> E(valid, n)]
<1>7. v = [n \in Nodes |-> E(v, n)]
  <2> HIDE DEF E
  <2> QED
    BY <1>6, Zenon
<1>8. \A n \in Nodes : IsValid(t, n) = v[n]
  BY Zenon DEF IsValid
<1> HIDE DEF v
<1>9. \A n \in Nodes : v[n] = E(v, n)
  <2> HIDE DEF E
  <2> QED
    BY <1>7
<1> DEFINE S == {n \in Nodes : n \in U => v[n]}
<1>10. ASSUME NEW n \in Nodes, \A k \in Range(t.kids[n]) : k \in S PROVE n \in S
  <2> SUFFICES ASSUME n \in U PROVE E(v, n)
    BY <1>9
  <2>1. CASE Files[n] > 0
    BY <2>1
  <2>2. CASE ~(Files[n] > 0)
    <3>1. t.kids[n] # << >> /\ t.kids[n] \in Seq(Nodes)
      BY <1>2, <2>2 DEF Proper
    <3>2. Head(t.kids[n]) \in Range(t.kids[n])
      BY <3>1, EndsAre
    <3>3. Range(t.kids[n]) \subseteq U
      BY DEF Proper
    <3>4. v[Head(t.kids[n])]
      BY <1>10, <3>2, <3>3
    <3> QED
      BY <3>2, <3>4
  <2> QED
    BY <2>1, <2>2
<1> HIDE DEF S, E
<1>11. Nodes \subseteq S
  BY <1>10, Heights
<1>12. U \subseteq Nodes
  BY DEF Proper
<1> QED
  BY <1>8, <1>11, <1>12 DEF S

LEMMA Regroup ==
  ASSUME NEW T, NEW x \in Seq(T), NEW y \in Seq(T), NEW z \in Seq(T)
  PROVE  (x \o y) \o z = x \o (y \o z) /\ x \o y \in Seq(T) /\ x \o (y \o z) \in Seq(T)
<1>1. x \o y \in Seq(T) /\ y \o z \in Seq(T)
  BY ConcatProperties
<1>2. x \o (y \o z) \in Seq(T)
  BY <1>1, ConcatProperties
<1> QED
  BY SMTT(30), <1>1, <1>2, ConcatAssociative

\* What is left from the i-th piece on.
Onward(s, i) == FlattenSeq(SubSeq(s, i, Len(s)))

LEMMA OnwardIs ==
  ASSUME NEW T, NEW s \in Pieces(T), NEW i \in 1 .. Len(s) + 1
  PROVE  /\ Onward(s, i) \in Seq(T)
         /\ i <= Len(s) => Onward(s, i) = s[i] \o Onward(s, i + 1)
         /\ i = Len(s) + 1 => Onward(s, i) = << >>
         /\ Onward(s, 1) = FlattenSeq(s)
<1>1. s \in Seq(Seq(T)) /\ Len(s) \in Nat /\ i \in Nat /\ i >= 1
  BY DEF Pieces
<1>2. ASSUME NEW j \in 1 .. Len(s) + 1 PROVE SubSeq(s, j, Len(s)) \in Pieces(T)
  BY <1>1 DEF Pieces
<1>3. Onward(s, i) \in Seq(T)
  BY <1>2, FlattenType DEF Onward
<1>4. ASSUME i <= Len(s) PROVE Onward(s, i) = s[i] \o Onward(s, i + 1)
  <2> DEFINE r == SubSeq(s, i + 1, Len(s))
  <2>1. i + 1 \in 1 .. Len(s) + 1 /\ s[i] \in Seq(T)
    BY <1>1, <1>4
  <2>2. r \in Pieces(T)
    BY <1>2, <2>1
  <2>3. SubSeq(s, i, Len(s)) = <<s[i]>> \o r
    BY <1>1, <1>4
  <2> HIDE DEF r
  <2>4. FlattenSeq(<<s[i]>> \o r) = s[i] \o FlattenSeq(r)
    BY <2>1, <2>2, FlattenFront
  <2> QED
    BY <2>3, <2>4 DEF Onward, r
<1>5. ASSUME i = Len(s) + 1 PROVE Onward(s, i) = << >>
  <2>1. SubSeq(s, i, Len(s)) = << >>
    BY <1>1, <1>5
  <2> QED
    BY <2>1, FlattenEmpty DEF Onward
<1>6. SubSeq(s, 1, Len(s)) = s
  BY <1>1
<1> QED
  BY <1>3, <1>4, <1>5, <1>6 DEF Onward

\* x is what follows the i-th node of group p, when it loops l times more and y
\* follows it.
Follows(t, f, p, i, l, y) == Onward(Each(t.kids, f, p), i + 1) \o (Again(Once(t, f, p), l) \o y)

\* What follows each node of the way g, with L[j + 1] loops left for the group
\* around the j-th.
Turns(t, f, g, n, L, a) ==
  /\ Way(t.kids, g, n) /\ a \in [Nat -> Seq(Nodes)] /\ a[0] = << >>
  /\ \A j \in 1 .. n :
       /\ L[j + 1] \in Int
       /\ IF t.loop[g[j - 1]] > 0 THEN L[j + 1] >= 0 ELSE L[j + 1] < 0
       /\ \E i \in DOMAIN t.kids[g[j - 1]] :
            g[j] = t.kids[g[j - 1]][i] /\ a[j] = Follows(t, f, g[j - 1], i, L[j + 1], a[j - 1])

\* A list to play in order, and the order of its nodes.
Fixed(t, level, U, f) ==
  /\ level \in Layers /\ Tree(t, level) /\ Single(t) /\ t.rnd = {}
  /\ Proper(t, U) /\ \A n \in U : IsValid(t, n)
  /\ \A n \in U \ {Root} : t.loop[n] >= 0
  /\ Orders(t, f)

LEMMA EachPieces ==
  ASSUME NEW kids \in [Nodes -> Seq(Nodes)], NEW f \in [Nodes -> Seq(Nodes)], NEW n \in Nodes
  PROVE  /\ Each(kids, f, n) \in Pieces(Nodes) /\ Len(Each(kids, f, n)) = Len(kids[n])
         /\ \A i \in 1 .. Len(kids[n]) : Each(kids, f, n)[i] = f[kids[n][i]]
<1> DEFINE V == Seq(Nodes)
<1>1. f \in [Nodes -> V] /\ Pieces(Nodes) = Seq(V)
  BY DEF Pieces
<1> HIDE DEF V
<1>2. f \in [Nodes -> V]
  BY <1>1
<1>3. Each(kids, f, n) \in Seq(V) /\ Len(Each(kids, f, n)) = Len(kids[n])
  BY <1>2, EachIs
<1>4. \A i \in 1 .. Len(kids[n]) : Each(kids, f, n)[i] = f[kids[n][i]]
  <2>1. kids[n] \in Seq(Nodes) /\ DOMAIN kids[n] = 1 .. Len(kids[n])
    OBVIOUS
  <2> QED
    BY <2>1 DEF Each
<1> QED
  BY <1>1, <1>3, <1>4

LEMMA FixedIs ==
  ASSUME NEW level, NEW t, NEW U, NEW f, Fixed(t, level, U, f), NEW p \in Nodes
  PROVE  /\ t.kids \in [Nodes -> Seq(Nodes)] /\ t.kids[p] \in Seq(Nodes) /\ t.loop[p] \in Int
         /\ f \in [Nodes -> Seq(Nodes)]
         /\ Each(t.kids, f, p) \in Pieces(Nodes) /\ Len(Each(t.kids, f, p)) = Len(t.kids[p])
         /\ \A i \in 1 .. Len(t.kids[p]) : t.kids[p][i] \in Nodes /\ Each(t.kids, f, p)[i] = f[t.kids[p][i]]
         /\ Once(t, f, p) \in Seq(Nodes)
<1>1. t.kids \in [Nodes -> Seq(Nodes)] /\ t.loop[p] \in Int
  BY TreeFields DEF Fixed
<1>2. f \in [Nodes -> Seq(Nodes)]
  BY DEF Fixed, Orders
<1>3. /\ Each(t.kids, f, p) \in Pieces(Nodes) /\ Len(Each(t.kids, f, p)) = Len(t.kids[p])
      /\ \A i \in 1 .. Len(t.kids[p]) : Each(t.kids, f, p)[i] = f[t.kids[p][i]]
  BY <1>1, <1>2, EachPieces
<1>4. Once(t, f, p) \in Seq(Nodes)
  BY <1>3, FlattenType DEF Once
<1>5. t.kids[p] \in Seq(Nodes) /\ \A i \in 1 .. Len(t.kids[p]) : t.kids[p][i] \in Nodes
  BY <1>1
<1> QED
  BY <1>1, <1>2, <1>3, <1>4, <1>5

Joins(t, f, p, i, l, y) ==
  /\ Follows(t, f, p, i, l, y) \in Seq(Nodes)
  /\ i < Len(t.kids[p]) => Follows(t, f, p, i, l, y)
                             = f[t.kids[p][i + 1]] \o Follows(t, f, p, i + 1, l, y)
  /\ i = Len(t.kids[p]) => Follows(t, f, p, i, l, y) = Again(Once(t, f, p), l) \o y

LEMMA FollowsIs ==
  ASSUME NEW level, NEW t, NEW U, NEW f, Fixed(t, level, U, f), NEW p \in Nodes,
         NEW i \in 1 .. Len(t.kids[p]), NEW l \in Int, NEW y \in Seq(Nodes)
  PROVE  Joins(t, f, p, i, l, y)
<1> DEFINE s == Each(t.kids, f, p)   o == Once(t, f, p)   x == Again(o, l) \o y
<1>1. s \in Pieces(Nodes) /\ Len(s) = Len(t.kids[p]) /\ o \in Seq(Nodes) /\ Len(s) \in Nat
      /\ \A j \in 1 .. Len(s) : s[j] = f[t.kids[p][j]] /\ s[j] \in Seq(Nodes)
  <2>1. s \in Pieces(Nodes) /\ Len(s) = Len(t.kids[p]) /\ o \in Seq(Nodes)
        /\ \A j \in 1 .. Len(t.kids[p]) : s[j] = f[t.kids[p][j]]
    BY FixedIs
  <2> HIDE DEF s, o
  <2> QED
    BY <2>1, PiecesAre
<1>2. x \in Seq(Nodes)
  <2>1. Again(o, l) \in Seq(Nodes)
    BY <1>1, AgainIs
  <2> QED
    BY <2>1, ConcatProperties
<1>3. i + 1 \in 1 .. Len(s) + 1
  BY <1>1
<1>4. Onward(s, i + 1) \in Seq(Nodes)
  BY <1>1, <1>3, OnwardIs
<1> HIDE DEF s, o, x
<1>5. Follows(t, f, p, i, l, y) = Onward(s, i + 1) \o x
  BY DEF Follows, s, o, x
<1>6. Onward(s, i + 1) \o x \in Seq(Nodes)
  BY <1>2, <1>4, ConcatProperties
<1>7. ASSUME i < Len(s) PROVE Follows(t, f, p, i, l, y) = f[t.kids[p][i + 1]] \o Follows(t, f, p, i + 1, l, y)
  <2> DEFINE j == i + 1
  <2>1. j \in 1 .. Len(s) /\ j \in 1 .. Len(s) + 1 /\ j + 1 \in 1 .. Len(s) + 1
    BY <1>1, <1>7
  <2> HIDE DEF j
  <2>2. Onward(s, j) = s[j] \o Onward(s, j + 1) /\ Onward(s, j + 1) \in Seq(Nodes)
    <3>1. j <= Len(s)
      BY <1>1, <2>1
    <3>2. Onward(s, j) = s[j] \o Onward(s, j + 1)
      BY <1>1, <2>1, <3>1, OnwardIs
    <3>3. Onward(s, j + 1) \in Seq(Nodes)
      BY <1>1, <2>1, OnwardIs
    <3> QED
      BY <3>2, <3>3
  <2>3. (s[j] \o Onward(s, j + 1)) \o x = s[j] \o (Onward(s, j + 1) \o x)
    <3> DEFINE b == s[j]   c == Onward(s, j + 1)
    <3>1. b \in Seq(Nodes) /\ c \in Seq(Nodes)
      BY <1>1, <2>1, <2>2
    <3> HIDE DEF b, c
    <3>2. (b \o c) \o x = b \o (c \o x)
      BY <1>2, <3>1, Regroup
    <3> QED
      BY <3>2 DEF b, c
  <2>4. Follows(t, f, p, j, l, y) = Onward(s, j + 1) \o x
    BY DEF Follows, s, o, x
  <2>5. s[j] = f[t.kids[p][j]]
    BY <1>1, <2>1
  <2> QED
    BY <1>5, <2>2, <2>3, <2>4, <2>5 DEF j
<1>8. ASSUME i = Len(s) PROVE Follows(t, f, p, i, l, y) = x
  <2>1. Onward(s, i + 1) = << >>
    BY <1>1, <1>3, <1>8, OnwardIs
  <2> QED
    BY <1>2, <1>5, <2>1, ConcatEmptySeq
<1> QED
  BY <1>1, <1>5, <1>6, <1>7, <1>8 DEF x, o, Joins

\* What the first node of a group begins.
Begins(t, f, p, l, y) ==
  f[t.kids[p][1]] \o Follows(t, f, p, 1, l, y) = Once(t, f, p) \o (Again(Once(t, f, p), l) \o y)

LEMMA GroupBegins ==
  ASSUME NEW level, NEW t, NEW U, NEW f, Fixed(t, level, U, f), NEW p \in Nodes,
         t.kids[p] # << >>, NEW l \in Int, NEW y \in Seq(Nodes)
  PROVE  Begins(t, f, p, l, y)
<1> DEFINE s == Each(t.kids, f, p)   o == Once(t, f, p)   x == Again(o, l) \o y
<1>1. s \in Pieces(Nodes) /\ Len(s) = Len(t.kids[p]) /\ o \in Seq(Nodes) /\ Len(s) \in Nat
      /\ Len(s) >= 1 /\ s[1] = f[t.kids[p][1]] /\ s[1] \in Seq(Nodes)
  <2>1. t.kids[p] \in Seq(Nodes) /\ Len(t.kids[p]) >= 1
    BY FixedIs
  <2> QED
    BY <2>1, FixedIs
<1>2. x \in Seq(Nodes)
  <2>1. Again(o, l) \in Seq(Nodes)
    BY <1>1, AgainIs
  <2> QED
    BY <2>1, ConcatProperties
<1> HIDE DEF s, x
<1>3. 1 \in 1 .. Len(s) + 1 /\ 2 \in 1 .. Len(s) + 1 /\ 1 + 1 = 2
  BY <1>1
<1>4. Onward(s, 1) = s[1] \o Onward(s, 2) /\ Onward(s, 1) = FlattenSeq(s)
  BY <1>1, <1>3, OnwardIs
<1>5. Onward(s, 2) \in Seq(Nodes)
  BY <1>1, <1>3, OnwardIs
<1>6. (s[1] \o Onward(s, 2)) \o x = s[1] \o (Onward(s, 2) \o x)
  <2> DEFINE b == s[1]   c == Onward(s, 2)
  <2>1. b \in Seq(Nodes) /\ c \in Seq(Nodes)
    BY <1>1, <1>5
  <2> HIDE DEF b, c
  <2>2. (b \o c) \o x = b \o (c \o x)
    BY <1>2, <2>1, Regroup
  <2> QED
    BY <2>2 DEF b, c
<1>7. FlattenSeq(s) = o
  BY DEF Once, s
<1>8. Follows(t, f, p, 1, l, y) = Onward(s, 2) \o x
  BY <1>3 DEF Follows, s, o, x
<1> QED
  BY <1>1, <1>4, <1>6, <1>7, <1>8 DEF x, Begins

LEMMA TurnsAre ==
  ASSUME NEW t, NEW f, NEW g, NEW n, NEW L, NEW a, Turns(t, f, g, n, L, a)
  PROVE  /\ Way(t.kids, g, n) /\ n \in Nat /\ g[0] = Root /\ a[0] = << >>
         /\ \A i \in Nat : g[i] \in Nodes /\ a[i] \in Seq(Nodes)
         /\ \A j \in 1 .. n : L[j + 1] \in Int /\ IF t.loop[g[j - 1]] > 0 THEN L[j + 1] >= 0 ELSE L[j + 1] < 0
<1>1. Way(t.kids, g, n)
  BY DEF Turns
<1> QED
  BY <1>1, WayIs DEF Turns

LEMMA TurnsUp ==
  ASSUME NEW t, NEW f, NEW g, NEW n, NEW L, NEW a, Turns(t, f, g, n, L, a), NEW m \in 0 .. n,
         NEW M, \A j \in 1 .. m : M[j + 1] = L[j + 1]
  PROVE  Turns(t, f, g, m, M, a)
<1>1. Way(t.kids, g, n) /\ n \in Nat
  BY TurnsAre
<1>2. Way(t.kids, g, m)
  BY <1>1, WayUp
<1>3. \A j \in 1 .. m : j \in 1 .. n
  BY <1>1
<1> QED
  BY <1>2, <1>3 DEF Turns

LEMMA WayIn ==
  ASSUME NEW t, NEW U, Proper(t, U), NEW g, NEW n, Way(t.kids, g, n), NEW i \in 0 .. n
  PROVE  g[i] \in U
<1> DEFINE P == {j \in Nat : j <= n => g[j] \in U}
<1>1. n \in Nat /\ g[0] = Root /\ Root \in U /\ \A m \in U : Range(t.kids[m]) \subseteq U
  BY WayIs DEF Proper
<1>2. 0 \in P
  BY <1>1
<1>3. ASSUME NEW j \in Nat, j \in P PROVE j + 1 \in P
  <2> SUFFICES ASSUME j + 1 <= n PROVE g[j + 1] \in U
    OBVIOUS
  <2>1. j + 1 \in 1 .. n /\ (j + 1) - 1 = j /\ j <= n
    BY <1>1
  <2>2. g[j + 1] \in Range(t.kids[g[j]])
    BY <2>1, WayIs
  <2> QED
    BY <1>1, <1>3, <2>1, <2>2
<1>4. Nat \subseteq P
  <2> HIDE DEF P
  <2> QED
    BY <1>2, <1>3, Induction
<1> QED
  BY <1>1, <1>4

LEMMA TurnsLast ==
  ASSUME NEW level, NEW t, NEW U, NEW f, Fixed(t, level, U, f),
         NEW g, NEW n, NEW L, NEW a, Turns(t, f, g, n, L, a), NEW i \in 1 .. Len(t.kids[g[n]]),
         NEW M, \A j \in 1 .. n : M[j + 1] = L[j + 1],
         M[n + 2] \in Int, IF t.loop[g[n]] > 0 THEN M[n + 2] >= 0 ELSE M[n + 2] < 0
  PROVE  \E h, b : /\ Turns(t, f, h, n + 1, M, b) /\ h[n + 1] = t.kids[g[n]][i]
                   /\ b[n + 1] = Follows(t, f, g[n], i, M[n + 2], a[n])
<1> DEFINE p == g[n]   k == t.kids[p][i]   x == Follows(t, f, p, i, M[n + 2], a[n])
           h == [g EXCEPT ![n + 1] = k]   b == [a EXCEPT ![n + 1] = x]
<1>1. /\ Way(t.kids, g, n) /\ n \in Nat /\ a[0] = << >> /\ p \in Nodes /\ a[n] \in Seq(Nodes)
      /\ a \in [Nat -> Seq(Nodes)]
  <2>1. Way(t.kids, g, n) /\ n \in Nat /\ a[0] = << >> /\ \A j \in Nat : g[j] \in Nodes /\ a[j] \in Seq(Nodes)
    BY TurnsAre
  <2>2. a \in [Nat -> Seq(Nodes)]
    BY DEF Turns
  <2> QED
    BY <2>1, <2>2
<1>2. k \in Nodes /\ k \in Range(t.kids[p]) /\ DOMAIN t.kids[p] = 1 .. Len(t.kids[p])
  <2>1. t.kids[p] \in Seq(Nodes) /\ k \in Nodes
    BY <1>1, FixedIs
  <2> QED
    BY <2>1 DEF Range
<1>3. x \in Seq(Nodes)
  <2>1. Joins(t, f, p, i, M[n + 2], a[n])
    BY <1>1, FollowsIs
  <2> QED
    BY <2>1 DEF Joins
<1>4. /\ Way(t.kids, h, n + 1) /\ \A j \in 0 .. n : h[j] = g[j]
      /\ h[n + 1] = k
  <2> DEFINE kids == t.kids
  <2>1. Way(kids, g, n) /\ k \in Nodes /\ k \in Range(kids[g[n]])
    BY <1>1, <1>2
  <2> HIDE DEF k, kids
  <2>2. Way(kids, h, n + 1) /\ (\A j \in 0 .. n : h[j] = g[j]) /\ h[n + 1] = k
    BY <2>1, WayTo
  <2> QED
    BY <2>2 DEF kids
<1>5. b \in [Nat -> Seq(Nodes)] /\ b[n + 1] = x /\ \A j \in 0 .. n : b[j] = a[j]
  <2>1. n \in Nat /\ a \in [Nat -> Seq(Nodes)]
    BY <1>1
  <2> HIDE DEF p, k, h, x
  <2>2. n + 1 \in Nat /\ \A j \in 0 .. n : j \in Nat /\ j # n + 1
    BY <2>1
  <2> QED
    BY <1>3, <2>1, <2>2
<1> HIDE DEF h, b, k, x
<1>6. b[0] = << >>
  BY <1>1, <1>5
<1>7. ASSUME NEW j \in 1 .. n + 1
      PROVE  /\ M[j + 1] \in Int
             /\ IF t.loop[h[j - 1]] > 0 THEN M[j + 1] >= 0 ELSE M[j + 1] < 0
             /\ \E q \in DOMAIN t.kids[h[j - 1]] :
                  h[j] = t.kids[h[j - 1]][q] /\ b[j] = Follows(t, f, h[j - 1], q, M[j + 1], b[j - 1])
  <2>1. CASE j = n + 1
    <3>1. j - 1 = n /\ j + 1 = n + 2 /\ n \in 0 .. n
      BY <1>1, <2>1
    <3>2. h[j - 1] = p /\ b[j - 1] = a[n] /\ h[j] = k /\ b[j] = x /\ M[j + 1] = M[n + 2]
      BY <1>4, <1>5, <2>1, <3>1
    <3>3. i \in DOMAIN t.kids[p]
      BY <1>2
    <3> QED
      BY <3>2, <3>3 DEF k, x
  <2>2. CASE j # n + 1
    <3>0. n \in Nat
      BY <1>1
    <3>1. j \in 1 .. n /\ j \in 0 .. n /\ j - 1 \in 0 .. n
      BY <2>2, <3>0
    <3>2. h[j] = g[j] /\ h[j - 1] = g[j - 1] /\ b[j] = a[j] /\ b[j - 1] = a[j - 1] /\ M[j + 1] = L[j + 1]
      BY <1>4, <1>5, <3>1
    <3>3. /\ L[j + 1] \in Int
          /\ IF t.loop[g[j - 1]] > 0 THEN L[j + 1] >= 0 ELSE L[j + 1] < 0
          /\ \E q \in DOMAIN t.kids[g[j - 1]] :
               g[j] = t.kids[g[j - 1]][q] /\ a[j] = Follows(t, f, g[j - 1], q, L[j + 1], a[j - 1])
      BY <3>1 DEF Turns
    <3> QED
      BY <3>2, <3>3
  <2> QED
    BY <2>1, <2>2
<1>8. Turns(t, f, h, n + 1, M, b)
  BY <1>4, <1>5, <1>6, <1>7 DEF Turns
<1> QED
  BY <1>4, <1>5, <1>8 DEF k, x

\* Down into a group: nothing is left out and nothing comes twice.
Descends(t, f, g, n, M, a) ==
  \E h, b : /\ Turns(t, f, h, n + 1, M, b) /\ h[n + 1] = Head(t.kids[g[n]])
            /\ f[h[n + 1]] \o b[n + 1] = f[g[n]] \o a[n]

LEMMA TurnsDown ==
  ASSUME NEW level, NEW t, NEW U, NEW f, Fixed(t, level, U, f),
         NEW g, NEW n, NEW L, NEW a, Turns(t, f, g, n, L, a), t.kids[g[n]] # << >>,
         NEW M, \A j \in 1 .. n : M[j + 1] = L[j + 1], M[n + 2] = t.loop[g[n]] - 1
  PROVE  Descends(t, f, g, n, M, a)
<1> DEFINE p == g[n]   l == t.loop[p] - 1   o == Once(t, f, p)   y == a[n]
<1>1. p \in U /\ p \in Nodes /\ y \in Seq(Nodes) /\ n \in Nat
  <2>1. Way(t.kids, g, n) /\ n \in Nat /\ p \in Nodes /\ y \in Seq(Nodes)
    BY TurnsAre
  <2>2. n \in 0 .. n /\ Proper(t, U)
    BY <2>1 DEF Fixed
  <2> QED
    BY <2>1, <2>2, WayIn
<1>2. t.kids[p] \in Seq(Nodes) /\ t.loop[p] \in Int /\ o \in Seq(Nodes)
  BY <1>1, FixedIs
<1> HIDE DEF o
<1>3. 1 \in 1 .. Len(t.kids[p]) /\ Head(t.kids[p]) = t.kids[p][1]
  BY <1>2
<1>4. l \in Int /\ IF t.loop[p] > 0 THEN l >= 0 ELSE l < 0
  BY <1>2
<1>5. PICK h, b : /\ Turns(t, f, h, n + 1, M, b) /\ h[n + 1] = t.kids[p][1]
                  /\ b[n + 1] = Follows(t, f, p, 1, l, y)
  BY <1>3, <1>4, TurnsLast
<1>6. f[t.kids[p][1]] \o Follows(t, f, p, 1, l, y) = o \o (Again(o, l) \o y)
  <2>1. t.kids[p] # << >>
    OBVIOUS
  <2>2. p \in Nodes /\ y \in Seq(Nodes) /\ l \in Int
    BY <1>1, <1>4
  <2> HIDE DEF y, l, p
  <2> QED
    <3>1. Begins(t, f, p, l, y)
      BY <2>1, <2>2, GroupBegins
    <3> QED
      BY <3>1 DEF Begins, o
<1>7. f[p] = o \o Again(o, l)
  <2> DEFINE k == IF t.loop[p] > 1 THEN t.loop[p] ELSE 1
  <2>1. ~(Files[p] > 0)
    BY <1>1 DEF Fixed, Proper
  <2>2. f[p] = Again(o, k)
    BY <1>1, <2>1 DEF Fixed, Orders, o
  <2>3. k \in Int /\ k > 0 /\ k - 1 \in Int
    BY <1>2
  <2>4. Again(o, k) = o \o Again(o, k - 1)
    <3> HIDE DEF k
    <3> QED
      BY <1>2, <2>3, AgainIs
  <2>5. Again(o, k - 1) = Again(o, l)
    <3>1. CASE t.loop[p] > 1
      BY <3>1
    <3>2. CASE ~(t.loop[p] > 1)
      <4>1. k - 1 = 0 /\ l <= 0
        BY <1>2, <3>2
      <4>2. Again(o, 0) = << >> /\ Again(o, l) = << >>
        <5> HIDE DEF l
        <5> QED
          BY <1>2, <1>4, <4>1, AgainIs
      <4> QED
        BY <4>1, <4>2
    <3> QED
      BY <3>1, <3>2
  <2> QED
    BY <2>2, <2>4, <2>5
<1>8. o \o (Again(o, l) \o y) = (o \o Again(o, l)) \o y
  <2> DEFINE z == Again(o, l)
  <2>1. z \in Seq(Nodes)
    <3> HIDE DEF l
    <3> QED
      BY <1>2, <1>4, AgainIs
  <2>2. o \in Seq(Nodes) /\ y \in Seq(Nodes)
    BY <1>1, <1>2
  <2> HIDE DEF o, z, y
  <2>3. (o \o z) \o y = o \o (z \o y)
    BY <2>1, <2>2, Regroup
  <2> QED
    BY <2>3 DEF z
<1>9. f[h[n + 1]] \o b[n + 1] = f[p] \o y
  <2> HIDE DEF p, l, y
  <2> QED
    BY <1>5, <1>6, <1>7, <1>8
<1> QED
  BY <1>3, <1>5, <1>9 DEF Descends

\* The last node of a way: its place in the group, and the way to the group.
LEMMA TurnsHere ==
  ASSUME NEW level, NEW t, NEW U, NEW f, Fixed(t, level, U, f),
         NEW g, NEW n, NEW L, NEW a, Turns(t, f, g, n, L, a), n # 0
  PROVE  /\ n - 1 \in 0 .. n /\ n \in 1 .. n /\ n - 1 \in Nat /\ (n - 1) + 1 = n /\ (n - 1) + 2 = n + 1
         /\ g[n - 1] \in U /\ g[n - 1] \in Nodes /\ a[n - 1] \in Seq(Nodes) /\ a[n] \in Seq(Nodes)
         /\ L[n + 1] \in Int /\ IF t.loop[g[n - 1]] > 0 THEN L[n + 1] >= 0 ELSE L[n + 1] < 0
         /\ LET i == IndexOf(t.kids[g[n - 1]], g[n]) IN
            /\ i \in 1 .. Len(t.kids[g[n - 1]]) /\ t.kids[g[n - 1]][i] = g[n]
            /\ a[n] = Follows(t, f, g[n - 1], i, L[n + 1], a[n - 1])
<1> DEFINE p == g[n - 1]   s == t.kids[p]
<1>1. n \in Nat /\ Way(t.kids, g, n)
  BY TurnsAre
<1>2. n - 1 \in 0 .. n /\ n \in 1 .. n /\ n - 1 \in Nat /\ (n - 1) + 1 = n /\ (n - 1) + 2 = n + 1
  BY <1>1
<1>3. p \in U /\ p \in Nodes
  <2>1. Proper(t, U)
    BY DEF Fixed
  <2>2. p \in U
    BY <1>1, <1>2, <2>1, WayIn
  <2> QED
    BY <2>1, <2>2 DEF Proper
<1>4. PICK q \in DOMAIN s : g[n] = s[q] /\ a[n] = Follows(t, f, p, q, L[n + 1], a[n - 1])
  BY <1>2 DEF Turns
<1>5. s \in Seq(Nodes) /\ DOMAIN s = 1 .. Len(s)
  <2>1. s \in Seq(Nodes)
    BY <1>3, FixedIs
  <2> QED
    BY <2>1
<1>6. \A i, j \in DOMAIN s : s[i] = s[j] => i = j
  BY <1>3 DEF Fixed, Proper
<1>7. a[n - 1] \in Seq(Nodes) /\ a[n] \in Seq(Nodes)
      /\ L[n + 1] \in Int /\ IF t.loop[p] > 0 THEN L[n + 1] >= 0 ELSE L[n + 1] < 0
  BY <1>1, <1>2, TurnsAre
<1> HIDE DEF s, p
<1>8. IndexOf(s, g[n]) = q
  <2>1. IndexOf(s, g[n]) \in DOMAIN s /\ s[IndexOf(s, g[n])] = g[n]
    BY <1>4, Zenon DEF IndexOf
  <2> QED
    BY <1>4, <1>6, <2>1
<1> QED
  BY <1>2, <1>3, <1>4, <1>5, <1>7, <1>8 DEF p, s

\* On to the next node of the group.
Beside(t, f, g, n, L, a, i) ==
  \E h, b : /\ Turns(t, f, h, n, L, b) /\ h[n] = t.kids[g[n - 1]][i + 1]
            /\ f[h[n]] \o b[n] = a[n]

LEMMA TurnsSide ==
  ASSUME NEW level, NEW t, NEW U, NEW f, Fixed(t, level, U, f),
         NEW g, NEW n, NEW L, NEW a, Turns(t, f, g, n, L, a), n # 0,
         NEW i, i = IndexOf(t.kids[g[n - 1]], g[n]), i < Len(t.kids[g[n - 1]])
  PROVE  Beside(t, f, g, n, L, a, i)
<1> DEFINE m == n - 1   p == g[m]   l == L[n + 1]   y == a[m]
<1>1. /\ m \in 0 .. n /\ n \in 1 .. n /\ m \in Nat /\ m + 1 = n /\ m + 2 = n + 1
      /\ p \in Nodes /\ y \in Seq(Nodes) /\ i \in 1 .. Len(t.kids[p])
      /\ a[n] = Follows(t, f, p, i, l, y) /\ l \in Int /\ IF t.loop[p] > 0 THEN l >= 0 ELSE l < 0
  BY TurnsHere
<1> HIDE DEF m
<1>2. i + 1 \in 1 .. Len(t.kids[p])
  <2>1. Len(t.kids[p]) \in Nat
    <3>1. t.kids[p] \in Seq(Nodes)
      BY <1>1, FixedIs
    <3> QED
      BY <3>1
  <2> QED
    BY <1>1, <2>1 DEF m
<1>3. Turns(t, f, g, m, L, a)
  BY <1>1, TurnsUp
<1> DEFINE j == i + 1
<1>4. j \in 1 .. Len(t.kids[g[m]]) /\ L[m + 2] = l
  BY <1>1, <1>2
<1> HIDE DEF j
<1>5. PICK h, b : /\ Turns(t, f, h, m + 1, L, b) /\ h[m + 1] = t.kids[p][j]
                  /\ b[m + 1] = Follows(t, f, p, j, l, y)
  <2>1. L[m + 2] \in Int /\ IF t.loop[g[m]] > 0 THEN L[m + 2] >= 0 ELSE L[m + 2] < 0
    BY <1>1, <1>4
  <2>2. \E h, b : /\ Turns(t, f, h, m + 1, L, b) /\ h[m + 1] = t.kids[g[m]][j]
                  /\ b[m + 1] = Follows(t, f, g[m], j, L[m + 2], a[m])
    BY <1>3, <1>4, <2>1, TurnsLast
  <2> QED
    BY <1>4, <2>2
<1>6. a[n] = f[t.kids[p][j]] \o Follows(t, f, p, j, l, y)
  <2>1. i < Len(t.kids[p])
    BY DEF m
  <2> HIDE DEF p, l, y
  <2>2. Follows(t, f, p, i, l, y) = f[t.kids[p][i + 1]] \o Follows(t, f, p, i + 1, l, y)
    <3>1. p \in Nodes /\ i \in 1 .. Len(t.kids[p]) /\ l \in Int /\ y \in Seq(Nodes)
      BY <1>1 DEF p, l, y
    <3> QED
      <4>1. Joins(t, f, p, i, l, y)
        BY <3>1, FollowsIs
      <4> QED
        BY <2>1, <4>1 DEF Joins
  <2> QED
    BY <1>1, <2>2 DEF j, p, l, y
<1> QED
  BY <1>1, <1>5, <1>6 DEF j, m, Beside

\* Past the end of a group whose loops are used up.
LEMMA TurnsEnd ==
  ASSUME NEW level, NEW t, NEW U, NEW f, Fixed(t, level, U, f),
         NEW g, NEW n, NEW L, NEW a, Turns(t, f, g, n, L, a), n # 0,
         IndexOf(t.kids[g[n - 1]], g[n]) = Len(t.kids[g[n - 1]]),
         L[n + 1] = 0 \/ t.loop[g[n - 1]] = 0
  PROVE  a[n] = a[n - 1]
<1> DEFINE m == n - 1   p == g[m]   l == L[n + 1]   y == a[m]   o == Once(t, f, p)   i == Len(t.kids[p])
<1>1. /\ p \in Nodes /\ y \in Seq(Nodes) /\ i \in 1 .. Len(t.kids[p])
      /\ a[n] = Follows(t, f, p, i, l, y) /\ l \in Int /\ IF t.loop[p] > 0 THEN l >= 0 ELSE l < 0
  BY TurnsHere
<1>2. l <= 0
  BY <1>1
<1> HIDE DEF p, l, y, i
<1>3. Follows(t, f, p, i, l, y) = Again(o, l) \o y
  <2>1. i = Len(t.kids[p]) /\ p \in Nodes /\ i \in 1 .. Len(t.kids[p]) /\ l \in Int /\ y \in Seq(Nodes)
    BY <1>1 DEF i
  <2>2. Joins(t, f, p, i, l, y)
    BY <2>1, FollowsIs
  <2> QED
    BY <2>1, <2>2 DEF Joins
<1>4. Again(o, l) = << >>
  <2>1. o \in Seq(Nodes)
    BY <1>1, FixedIs
  <2> HIDE DEF o
  <2> QED
    BY <1>1, <1>2, <2>1, AgainIs
<1>5. << >> \o y = y
  BY <1>1, ConcatEmptySeq
<1> QED
  BY <1>1, <1>3, <1>4, <1>5 DEF y

\* Around again.
Renews(t, f, g, n, M, a) ==
  \E h, b : /\ Turns(t, f, h, n, M, b) /\ h[n] = Head(t.kids[g[n - 1]])
            /\ \/ f[h[n]] \o b[n] = a[n]
               \/ t.loop[Root] < 0 /\ a[n] = << >> /\ f[h[n]] \o b[n] = f[Root]

LEMMA TurnsLoop ==
  ASSUME NEW level, NEW t, NEW U, NEW f, Fixed(t, level, U, f),
         NEW g, NEW n, NEW L, NEW a, Turns(t, f, g, n, L, a), n # 0,
         IndexOf(t.kids[g[n - 1]], g[n]) = Len(t.kids[g[n - 1]]),
         L[n + 1] # 0, t.loop[g[n - 1]] # 0,
         NEW M, \A j \in 1 .. n - 1 : M[j + 1] = L[j + 1],
         M[n + 1] = IF L[n + 1] > 0 THEN L[n + 1] - 1 ELSE L[n + 1]
  PROVE  Renews(t, f, g, n, M, a)
<1> DEFINE m == n - 1   p == g[m]   l == L[n + 1]   y == a[m]   o == Once(t, f, p)
           i == Len(t.kids[p])   k == M[n + 1]
<1>1. /\ m \in 0 .. n /\ n \in 1 .. n /\ m \in Nat /\ m + 1 = n /\ m + 2 = n + 1 /\ p \in U
      /\ p \in Nodes /\ y \in Seq(Nodes) /\ i \in 1 .. Len(t.kids[p]) /\ a[n] \in Seq(Nodes)
      /\ a[n] = Follows(t, f, p, i, l, y) /\ l \in Int /\ IF t.loop[p] > 0 THEN l >= 0 ELSE l < 0
  BY TurnsHere
<1>2. /\ t.loop[p] \in Int /\ t.loop[p] # 0 /\ l # 0 /\ k = IF l > 0 THEN l - 1 ELSE l
      /\ t.kids[p] \in Seq(Nodes) /\ o \in Seq(Nodes) /\ f \in [Nodes -> Seq(Nodes)]
  BY <1>1, FixedIs
<1>3. k \in Int /\ IF t.loop[p] > 0 THEN k >= 0 ELSE k < 0
  BY <1>1, <1>2
<1>4. Turns(t, f, g, m, M, a) /\ t.kids[p] # << >> /\ 1 \in 1 .. Len(t.kids[p])
      /\ Head(t.kids[p]) = t.kids[p][1]
  <2>1. Turns(t, f, g, m, M, a)
    <3>1. \A j \in 1 .. m : M[j + 1] = L[j + 1]
      OBVIOUS
    <3> HIDE DEF m
    <3> QED
      BY <1>1, <3>1, TurnsUp
  <2>2. t.kids[p] # << >> /\ 1 \in 1 .. Len(t.kids[p])
    <3> HIDE DEF p
    <3> QED
      BY <1>1, <1>2
  <2> QED
    BY <2>1, <2>2
<1> HIDE DEF m
<1>5. PICK h, b : /\ Turns(t, f, h, m + 1, M, b) /\ h[m + 1] = t.kids[p][1]
                  /\ b[m + 1] = Follows(t, f, p, 1, k, y)
  <2>1. M[m + 2] = k /\ M[m + 2] \in Int /\ IF t.loop[g[m]] > 0 THEN M[m + 2] >= 0 ELSE M[m + 2] < 0
    BY <1>1, <1>3
  <2>2. \E h, b : /\ Turns(t, f, h, m + 1, M, b) /\ h[m + 1] = t.kids[g[m]][1]
                  /\ b[m + 1] = Follows(t, f, g[m], 1, M[m + 2], a[m])
    BY <1>4, <2>1, TurnsLast
  <2> QED
    BY <2>1, <2>2
<1> HIDE DEF p, y, l, i, k, o
<1>6. f[h[n]] \o b[n] = o \o (Again(o, k) \o y)
  <2>1. f[t.kids[p][1]] \o Follows(t, f, p, 1, k, y) = o \o (Again(o, k) \o y)
    <3>1. p \in Nodes /\ t.kids[p] # << >> /\ k \in Int /\ y \in Seq(Nodes)
      BY <1>1, <1>3, <1>4
    <3> QED
      <4>1. Begins(t, f, p, k, y)
        BY <3>1, GroupBegins
      <4> QED
        BY <4>1 DEF Begins, o
  <2> QED
    BY <1>1, <1>5, <2>1
<1>7. a[n] = Again(o, l) \o y
  <2>1. i = Len(t.kids[p]) /\ p \in Nodes /\ i \in 1 .. Len(t.kids[p]) /\ l \in Int /\ y \in Seq(Nodes)
    BY <1>1 DEF i
  <2>2. Follows(t, f, p, i, l, y) = Again(o, l) \o y
    <3>1. Joins(t, f, p, i, l, y)
      BY <2>1, FollowsIs
    <3> QED
      BY <2>1, <3>1 DEF Joins, o
  <2> QED
    BY <1>1, <2>2
<1>8. Again(o, k) \in Seq(Nodes)
  BY <1>2, <1>3, AgainIs
<1>9. CASE l > 0
  <2>1. Again(o, l) = o \o Again(o, k)
    <3>1. Again(o, l) = o \o Again(o, l - 1)
      BY <1>1, <1>2, <1>9, AgainIs
    <3> QED
      BY <1>2, <1>9, <3>1
  <2> DEFINE z == Again(o, k)
  <2> HIDE DEF z
  <2>2. (o \o z) \o y = o \o (z \o y)
    <3>1. o \in Seq(Nodes) /\ z \in Seq(Nodes) /\ y \in Seq(Nodes)
      BY <1>1, <1>2, <1>8 DEF z
    <3> QED
      BY <3>1, Regroup
  <2> QED
    BY <1>1, <1>4, <1>5, <1>6, <1>7, <2>1, <2>2 DEF z, m, p, Renews
<1>10. CASE ~(l > 0)
  <2>1. l < 0 /\ k < 0 /\ t.loop[p] < 0
    BY <1>1, <1>2, <1>10
  <2>2. p = Root
    <3>1. \A q \in U \ {Root} : t.loop[q] >= 0
      BY DEF Fixed
    <3> QED
      BY <1>1, <1>2, <2>1, <3>1
  <2>3. y = << >>
    <3>1. Way(t.kids, g, n) /\ level \in Layers /\ Tree(t, level)
      BY TurnsAre DEF Fixed
    <3>2. level[p] = m /\ level[Root] = 0
      BY <1>1, <3>1, WayLevels, TreeFields DEF p
    <3>3. m = 0
      BY <2>2, <3>2
    <3> QED
      BY <3>3, TurnsAre DEF y
  <2>4. Again(o, l) = << >> /\ Again(o, k) = << >>
    <3>1. o \in Seq(Nodes) /\ l \in Int /\ k \in Int /\ l <= 0 /\ k <= 0
      BY <1>1, <1>2, <1>3, <2>1
    <3> QED
      BY <3>1, AgainIs
  <2>5. a[n] = << >> /\ f[h[n]] \o b[n] = o
    <3>1. << >> \o << >> = << >> /\ o \o << >> = o
      BY <1>2, ConcatEmptySeq
    <3> QED
      BY <1>6, <1>7, <2>3, <2>4, <3>1
  <2>6. f[Root] = o
    <3>1. ~(Files[p] > 0) /\ ~(t.loop[p] > 1)
      <4>1. Files[p] > 0 <=> t.kids[p] = << >>
        BY <1>1 DEF Fixed, Proper
      <4> QED
        BY <1>2, <1>4, <2>1, <4>1
    <3>2. f[p] = Again(o, 1)
      BY <1>1, <3>1 DEF Fixed, Orders, o
    <3>3. Again(o, 1) = o \o Again(o, 0) /\ Again(o, 0) = << >>
      <4>1. Again(o, 1) = o \o Again(o, 1 - 1) /\ Again(o, 0) = << >>
        <5>1. o \in Seq(Nodes)
          BY <1>2
        <5>2. Again(o, 1) = o \o Again(o, 1 - 1)
          <6> DEFINE e == 1
          <6>1. e \in Int /\ e > 0
            OBVIOUS
          <6> HIDE DEF e
          <6>2. Again(o, e) = o \o Again(o, e - 1)
            BY <5>1, <6>1, AgainIs
          <6> QED
            BY <6>2 DEF e
        <5>3. Again(o, 0) = << >>
          BY <5>1, AgainIs
        <5> QED
          BY <5>2, <5>3
      <4>2. 1 - 1 = 0
        OBVIOUS
      <4> QED
        BY <4>1, <4>2
    <3>4. o \o << >> = o
      BY <1>2, ConcatEmptySeq
    <3> QED
      BY <2>2, <3>2, <3>3, <3>4
  <2> QED
    BY <1>1, <1>4, <1>5, <2>1, <2>2, <2>5, <2>6 DEF m, p, Renews
<1> QED
  BY <1>9, <1>10

\* The sequence r is what is left of the order O after k of its nodes; after the
\* last one an endless list begins again.
Still(t, O, k, r) ==
  \/ \E pre \in Seq(Nodes) : Len(pre) = k /\ O = pre \o r
  \/ t.loop[Root] < 0 /\ k = Len(O) /\ r = O

\* Where the iterator is, with what follows each node around it.
OnWay(it, t, f, g, a) ==
  /\ it # None /\ it.config /\ ~it.random
  /\ Turns(t, f, g, Len(it.stack), Append(it.stack, it.loop), a)
  /\ it.tree = g[Len(it.stack)]

\* An entry that is to play next.
Found(it, t, f, a, k) ==
  /\ Files[it.tree] > 0 /\ it.file = -1 /\ it.num = Files[it.tree]
  /\ Still(t, f[Root], k, f[it.tree] \o a[Len(it.stack)])

Steps(it, t, f, a, k, c) ==
  /\ c.d \in {0, 1} /\ ~c.nodes
  /\ c.op = "step" => Still(t, f[Root], k, IF c.d = 0 THEN f[it.tree] \o a[Len(it.stack)] ELSE a[Len(it.stack)])
  /\ c.op = "down" => Still(t, f[Root], k, f[it.tree] \o a[Len(it.stack)])
  /\ c.op = "up" => /\ c.d = 1
                    /\ Still(t, f[Root], k, IF Len(it.stack) = 0 THEN << >> ELSE a[Len(it.stack) - 1])

\* What is still to come, wherever main and playtree.c are.
Stage(f, a) ==
  \/ pc \in {"first", "next"} /\ call.op \in {"step", "down", "up"} /\ Steps(iter, tree, f, a, at, call)
  \/ pc \in {"first", "next"} /\ call.op = "none" /\ answer = "entry" /\ Found(iter, tree, f, a, at)
  \/ pc \in {"first", "next"} /\ call.op = "none" /\ answer # "entry" /\ at = Len(f[Root])
  \/ pc = "file" /\ call.op = "none" /\ Found(iter, tree, f, a, at)
  \/ /\ pc \in {"play", "leave"} /\ call.op = "none" /\ (pc = "leave" => eof = 1)
     /\ at \in DOMAIN f[Root] /\ f[Root][at] = iter.tree /\ Still(tree, f[Root], at, a[Len(iter.stack)])

NotBegun == iter = NewIter /\ pc = "first" /\ call = [op |-> "step", d |-> 0, nodes |-> FALSE] /\ at = 0
Done(f) == iter = None /\ pc \in {"file", "idle", "over"} /\ call.op = "none" /\ at = Len(f[Root])
Going(f) == \E g, a : OnWay(iter, tree, f, g, a) /\ Stage(f, a)

\* Until a command interferes, the list is the one that was given, and what has
\* played is the beginning of its order.
InOrder(level, U, f) ==
  /\ Fixed(tree, level, U, f) /\ Order = f[Root] /\ step = 1
  /\ NotBegun \/ Done(f) \/ Going(f)

LEMMA StillDone ==
  ASSUME NEW t, NEW O \in Seq(Nodes), NEW k, Still(t, O, k, << >>)
  PROVE  k = Len(O)
<1>1. CASE \E pre \in Seq(Nodes) : Len(pre) = k /\ O = pre \o << >>
  BY <1>1, ConcatEmptySeq
<1>2. CASE ~(\E pre \in Seq(Nodes) : Len(pre) = k /\ O = pre \o << >>)
  BY <1>2 DEF Still
<1> QED
  BY <1>1, <1>2

\* One more node is played.
Hears(t, O, k, n, r) ==
  LET j == IF k = Len(O) /\ t.loop[Root] < 0 THEN 1 ELSE k + 1
  IN  j \in DOMAIN O /\ O[j] = n /\ Still(t, O, j, r)

LEMMA StillNext ==
  ASSUME NEW t, NEW O \in Seq(Nodes), NEW k, NEW n \in Nodes, NEW r \in Seq(Nodes), Still(t, O, k, <<n>> \o r)
  PROVE  Hears(t, O, k, n, r)
<1> DEFINE j == IF k = Len(O) /\ t.loop[Root] < 0 THEN 1 ELSE k + 1
<1> SUFFICES j \in DOMAIN O /\ O[j] = n /\ Still(t, O, j, r)
  BY DEF Hears
<1>1. ASSUME NEW pre \in Seq(Nodes), O = pre \o (<<n>> \o r)
      PROVE  /\ Len(pre) + 1 \in DOMAIN O /\ O[Len(pre) + 1] = n /\ Len(pre) # Len(O)
             /\ \E q \in Seq(Nodes) : Len(q) = Len(pre) + 1 /\ O = q \o r
  <2> DEFINE q == pre \o <<n>>
  <2>1. <<n>> \in Seq(Nodes)
    OBVIOUS
  <2>2. q \in Seq(Nodes) /\ Len(q) = Len(pre) + 1 /\ q[Len(pre) + 1] = n
    OBVIOUS
  <2>3. O = q \o r
    <3>1. (pre \o <<n>>) \o r = pre \o (<<n>> \o r)
      BY <2>1, Regroup
    <3> QED
      BY <1>1, <3>1
  <2> HIDE DEF q
  <2>4. Len(q \o r) = Len(q) + Len(r) /\ \A i \in 1 .. Len(q) + Len(r) : (q \o r)[i] = IF i <= Len(q) THEN q[i] ELSE r[i - Len(q)]
    BY <2>2, ConcatProperties
  <2>5. Len(r) \in Nat /\ Len(pre) \in Nat
    OBVIOUS
  <2>6. Len(O) = Len(pre) + 1 + Len(r) /\ DOMAIN O = 1 .. Len(O)
    BY <2>2, <2>3, <2>4
  <2>7. Len(pre) + 1 \in 1 .. Len(q) + Len(r) /\ Len(pre) + 1 <= Len(q) /\ Len(pre) # Len(O)
        /\ Len(pre) + 1 \in 1 .. Len(O)
    BY <2>2, <2>5, <2>6
  <2>8. O[Len(pre) + 1] = n
    BY <2>2, <2>3, <2>4, <2>7
  <2> QED
    BY <2>2, <2>3, <2>6, <2>7, <2>8
<1>2. CASE \E pre \in Seq(Nodes) : Len(pre) = k /\ O = pre \o (<<n>> \o r)
  <2>1. PICK pre \in Seq(Nodes) : Len(pre) = k /\ O = pre \o (<<n>> \o r)
    BY <1>2
  <2>2. j = Len(pre) + 1
    BY <1>1, <2>1
  <2> QED
    BY <1>1, <2>1, <2>2 DEF Still
<1>3. CASE t.loop[Root] < 0 /\ k = Len(O) /\ <<n>> \o r = O
  <2>1. j = 1 /\ << >> \in Seq(Nodes) /\ Len(<< >>) = 0 /\ <<n>> \o r \in Seq(Nodes)
    BY <1>3
  <2>2. << >> \o (<<n>> \o r) = <<n>> \o r
    BY <2>1, ConcatEmptySeq
  <2>3. O = << >> \o (<<n>> \o r)
    BY <1>3, <2>2
  <2> DEFINE e == << >>
  <2>4. e \in Seq(Nodes) /\ Len(e) = 0 /\ O = e \o (<<n>> \o r)
    BY <2>1, <2>3
  <2> HIDE DEF e
  <2>5. /\ Len(e) + 1 \in DOMAIN O /\ O[Len(e) + 1] = n
        /\ \E q \in Seq(Nodes) : Len(q) = Len(e) + 1 /\ O = q \o r
    BY <1>1, <2>4
  <2>6. Len(e) + 1 = j
    BY <2>1, <2>4
  <2> QED
    BY <2>5, <2>6 DEF Still
<1> QED
  BY <1>2, <1>3 DEF Still

\* Where playtree.c steps from.
LEMMA SteppingFrom ==
  ASSUME NEW level, NEW U, NEW f, Fixed(tree, level, U, f), NEW g, NEW a, iter \in Iterators,
         OnWay(iter, tree, f, g, a), call.d \in {0, 1}
  PROVE  LET n == Len(iter.stack)   i == IndexOf(tree.kids[g[n - 1]], g[n])   s == tree.kids[g[n - 1]] IN
         /\ n \in Nat /\ Here = g[n] /\ Here \in U /\ Here \in Nodes /\ Here # None /\ ~Random
         /\ Parent(tree, Here) = IF n = 0 THEN None ELSE g[n - 1]
         /\ Rest = call.d
         /\ n = 0 => /\ Here = Root /\ Siblings(tree, Here) = <<Root>>
                     /\ Targets = IF call.d = 0 THEN {Here} ELSE {}
         /\ n # 0 => /\ i \in 1 .. Len(s) /\ Siblings(tree, Here) = s
                     /\ Targets = IF call.d = 0 THEN {Here} ELSE IF i < Len(s) THEN {s[i + 1]} ELSE {}
<1> DEFINE n == Len(iter.stack)   i == IndexOf(tree.kids[g[n - 1]], g[n])   s == tree.kids[g[n - 1]]
           L == Append(iter.stack, iter.loop)
<1>1. Turns(tree, f, g, n, L, a) /\ Here = g[n] /\ Single(tree) /\ Tree(tree, level) /\ level \in Layers
      /\ tree.rnd = {} /\ Proper(tree, U)
  BY DEF OnWay, Fixed, Here
<1>2. n \in Nat /\ Way(tree.kids, g, n) /\ g[0] = Root /\ \A j \in Nat : g[j] \in Nodes
  BY <1>1, TurnsAre
<1>3. Parent(tree, Root) = None /\ \A j \in 1 .. n : Parent(tree, g[j]) = g[j - 1]
  <2>1. Around(tree, g, n)
    <3> HIDE DEF n
    <3> QED
      BY <1>1, <1>2, WayParent
  <2> QED
    BY <2>1 DEF Around
<1>4. Here \in U /\ Here \in Nodes /\ Here # None
  <2>1. n \in 0 .. n
    BY <1>2
  <2>2. g[n] \in U
    <3> HIDE DEF n
    <3> QED
      BY <1>1, <1>2, <2>1, WayIn
  <2> QED
    BY <1>1, <1>2, <2>2, PlayTreeAssumption
<1>5. ~Random
  BY <1>1 DEF Random
<1>6. Parent(tree, Here) = IF n = 0 THEN None ELSE g[n - 1]
  <2>1. n # 0 => n \in 1 .. n
    BY <1>2
  <2> QED
    BY <1>1, <1>2, <1>3, <2>1
<1>7. CASE n = 0
  <2>1. Here = Root /\ Siblings(tree, Here) = <<Root>>
    BY <1>1, <1>2, <1>6, <1>7 DEF Siblings
  <2>2. IndexOf(<<Root>>, Root) = 1
    <3>1. \E j \in DOMAIN <<Root>> : <<Root>>[j] = Root
      OBVIOUS
    <3>2. IndexOf(<<Root>>, Root) \in DOMAIN <<Root>>
      BY <3>1 DEF IndexOf
    <3> QED
      BY <3>2
  <2>3. Place = 1 + call.d /\ Len(Siblings(tree, Here)) = 1
    BY <2>1, <2>2 DEF Place
  <2>4. Targets = IF call.d = 0 THEN {Here} ELSE {}
    <3>1. DOMAIN <<Root>> = {1} /\ <<Root>>[1] = Root
      OBVIOUS
    <3>2. Targets = {<<Root>>[j] : j \in {1 + call.d} \cap {1}}
      BY <1>5, <2>1, <2>3, <3>1 DEF Targets
    <3>3. CASE call.d = 0
      BY <2>1, <3>1, <3>2, <3>3
    <3>4. CASE call.d = 1
      <4>1. {1 + call.d} \cap {1} = {}
        BY <3>4
      <4> QED
        BY <3>2, <3>4, <4>1
    <3> QED
      BY <3>3, <3>4
  <2>5. Rest = call.d
    BY <1>5, <2>3 DEF Rest
  <2> QED
    BY <1>2, <1>4, <1>5, <1>6, <1>7, <2>1, <2>4, <2>5, <1>1
<1>8. CASE n # 0
  <2>1. Siblings(tree, Here) = s
    <3>1. n - 1 \in Nat
      BY <1>2, <1>8
    <3>2. g[n - 1] \in Nodes /\ g[n - 1] # None
      BY <1>2, <3>1, PlayTreeAssumption
    <3> QED
      BY <1>6, <1>8, <3>2 DEF Siblings
  <2>2. i \in 1 .. Len(s) /\ s[i] = Here /\ s \in Seq(Nodes)
    <3>1. i \in 1 .. Len(s) /\ s[i] = g[n] /\ g[n - 1] \in Nodes
      <4> HIDE DEF n
      <4> QED
        BY <1>1, <1>8, TurnsHere
    <3> QED
      BY <1>1, <3>1, TreeFields
  <2>3. Place = i + call.d
    BY <1>1, <2>1 DEF Place
  <2> HIDE DEF i, s
  <2>4. Targets = {s[j] : j \in {i + call.d} \cap DOMAIN s} /\ DOMAIN s = 1 .. Len(s) /\ Len(s) \in Nat /\ i \in Nat
    BY <1>5, <2>1, <2>2, <2>3 DEF Targets
  <2>5. Targets = IF call.d = 0 THEN {Here} ELSE IF i < Len(s) THEN {s[i + 1]} ELSE {}
    <3>1. CASE call.d = 0
      <4>1. {i + call.d} \cap DOMAIN s = {i}
        BY <2>2, <2>4, <3>1
      <4> QED
        BY <2>2, <2>4, <3>1, <4>1
    <3>2. CASE call.d = 1 /\ i < Len(s)
      <4>1. {i + call.d} \cap DOMAIN s = {i + 1}
        BY <2>2, <2>4, <3>2
      <4> QED
        BY <2>4, <3>2, <4>1
    <3>3. CASE call.d = 1 /\ ~(i < Len(s))
      <4>1. {i + call.d} \cap DOMAIN s = {}
        BY <2>2, <2>4, <3>3
      <4> QED
        BY <2>4, <3>3, <4>1
    <3> QED
      BY <3>1, <3>2, <3>3
  <2>6. Rest = call.d
    <3>1. Len(Siblings(tree, Here)) = Len(s)
      BY <2>1
    <3> QED
      BY <1>5, <2>2, <2>3, <2>4, <3>1 DEF Rest
  <2> QED
    BY <1>1, <1>2, <1>4, <1>5, <1>6, <1>8, <2>1, <2>2, <2>5, <2>6 DEF i, s
<1> QED
  BY <1>7, <1>8

\* What follows the entry an iterator stands on.
LEMMA OnWayIs ==
  ASSUME NEW it \in Iterators, NEW t, NEW f, NEW g, NEW a, OnWay(it, t, f, g, a)
  PROVE  LET n == Len(it.stack)   L == Append(it.stack, it.loop) IN
         /\ n \in Nat /\ it.stack \in Seq(Int) /\ it.loop \in Int /\ it.config /\ ~it.random
         /\ Turns(t, f, g, n, L, a) /\ it.tree = g[n] /\ g[n] \in Nodes /\ a[n] \in Seq(Nodes)
         /\ L[n + 1] = it.loop /\ \A j \in 1 .. n : L[j] = it.stack[j]
<1> DEFINE n == Len(it.stack)   L == Append(it.stack, it.loop)
<1>1. it.stack \in Seq(Int) /\ it.loop \in Int
  BY IterFields
<1>2. n \in Nat /\ L[n + 1] = it.loop /\ \A j \in 1 .. n : L[j] = it.stack[j]
  BY <1>1
<1>3. Turns(t, f, g, n, L, a) /\ it.tree = g[n] /\ it.config /\ ~it.random
  BY DEF OnWay
<1> HIDE DEF n, L
<1>4. g[n] \in Nodes /\ a[n] \in Seq(Nodes)
  BY <1>2, <1>3, TurnsAre
<1> QED
  BY <1>1, <1>2, <1>3, <1>4 DEF n, L

\* Where a step lands.
LEMMA Lands ==
  ASSUME NEW level, NEW U, NEW f, Fixed(tree, level, U, f), iter \in Iterators, NEW g, NEW a,
         OnWay(iter, tree, f, g, a), Steps(iter, tree, f, a, at, call), Stepping, NEW m \in Targets
  PROVE  LET n == Len(iter.stack) IN
         /\ m \in U /\ m \in Nodes
         /\ \E h, b : /\ Turns(tree, f, h, n, Append(iter.stack, iter.loop), b) /\ h[n] = m
                      /\ Still(tree, f[Root], at, f[m] \o b[n])
<1> DEFINE n == Len(iter.stack)   L == Append(iter.stack, iter.loop)   s == tree.kids[g[n - 1]]
           i == IndexOf(s, g[n])
<1>1. call.d \in {0, 1} /\ call.op = "step" /\ Here = iter.tree
  BY DEF Steps, Stepping, Here
<1>2. Still(tree, f[Root], at, IF call.d = 0 THEN f[iter.tree] \o a[n] ELSE a[n])
  BY <1>1 DEF Steps
<1>3. n \in Nat /\ Turns(tree, f, g, n, L, a) /\ iter.tree = g[n] /\ g[n] \in Nodes
  BY OnWayIs
<1>4. /\ Here \in U /\ (n = 0 => Targets = IF call.d = 0 THEN {Here} ELSE {})
      /\ (n # 0 => /\ i \in 1 .. Len(s)
                   /\ Targets = IF call.d = 0 THEN {Here} ELSE IF i < Len(s) THEN {s[i + 1]} ELSE {})
  BY <1>1, SteppingFrom
<1>5. U \subseteq Nodes
  BY DEF Fixed, Proper
<1> HIDE DEF n, L
<1>6. CASE call.d = 0
  <2>1. m = Here /\ m = g[n] /\ m \in U
    BY <1>1, <1>3, <1>4, <1>6
  <2> QED
    BY <1>1, <1>2, <1>3, <1>5, <1>6, <2>1 DEF n, L
<1>7. CASE call.d # 0
  <2>1. n # 0 /\ i < Len(s) /\ m = s[i + 1] /\ Still(tree, f[Root], at, a[n])
    BY <1>2, <1>4, <1>7
  <2>2. Beside(tree, f, g, n, L, a, i)
    <3>1. i = IndexOf(tree.kids[g[n - 1]], g[n]) /\ i < Len(tree.kids[g[n - 1]])
      BY <2>1
    <3> HIDE DEF i, s
    <3>2. Turns(tree, f, g, n, L, a) /\ n # 0
      BY <1>3, <2>1
    <3> QED
      BY <3>1, <3>2, TurnsSide
  <2>3. PICK h, b : /\ Turns(tree, f, h, n, L, b) /\ h[n] = m /\ f[m] \o b[n] = a[n]
    BY <2>1, <2>2 DEF Beside
  <2>4. m \in U
    <3>1. Way(tree.kids, h, n) /\ Proper(tree, U) /\ n \in 0 .. n
      BY <1>3, <2>3, TurnsAre DEF Fixed
    <3> QED
      BY <2>3, <3>1, WayIn
  <2> QED
    BY <1>5, <2>1, <2>3, <2>4 DEF n, L
<1> QED
  BY <1>6, <1>7

\* Where it goes past the end of a group.
LEMMA Past ==
  ASSUME NEW level, NEW U, NEW f, Fixed(tree, level, U, f), iter \in Iterators, NEW g, NEW a,
         OnWay(iter, tree, f, g, a), Steps(iter, tree, f, a, at, call), Stepping, Targets = {}
  PROVE  LET n == Len(iter.stack)   s == tree.kids[g[n - 1]] IN
         /\ Rest = 1 /\ ~Random /\ Still(tree, f[Root], at, a[n])
         /\ n = 0 => Parent(tree, Here) = None
         /\ n # 0 => /\ Parent(tree, Here) = g[n - 1] /\ g[n - 1] # None
                     /\ Siblings(tree, Here) = s /\ IndexOf(s, g[n]) = Len(s)
<1> DEFINE n == Len(iter.stack)   s == tree.kids[g[n - 1]]   i == IndexOf(s, g[n])
<1>1. call.d \in {0, 1} /\ call.op = "step"
  BY DEF Steps, Stepping
<1>2. Still(tree, f[Root], at, IF call.d = 0 THEN f[iter.tree] \o a[n] ELSE a[n])
  BY <1>1 DEF Steps
<1>3. /\ Rest = call.d /\ ~Random /\ n \in Nat
      /\ Parent(tree, Here) = IF n = 0 THEN None ELSE g[n - 1]
      /\ (n = 0 => Targets = IF call.d = 0 THEN {Here} ELSE {})
      /\ (n # 0 => /\ i \in 1 .. Len(s) /\ Siblings(tree, Here) = s
                   /\ Targets = IF call.d = 0 THEN {Here} ELSE IF i < Len(s) THEN {s[i + 1]} ELSE {})
  BY <1>1, SteppingFrom
<1>4. call.d = 1
  BY <1>1, <1>3
<1>5. ASSUME n # 0 PROVE i = Len(s) /\ g[n - 1] # None
  <2>1. Turns(tree, f, g, n, Append(iter.stack, iter.loop), a)
    BY OnWayIs
  <2>2. g[n - 1] \in Nodes
    <3> HIDE DEF n
    <3> QED
      BY <1>5, <2>1, TurnsHere
  <2>3. s \in Seq(Nodes)
    <3> DEFINE p == g[n - 1]
    <3>1. p \in Nodes
      BY <2>2
    <3> HIDE DEF p
    <3>2. tree.kids[p] \in Seq(Nodes)
      BY <3>1, FixedIs
    <3> QED
      BY <3>2 DEF p
  <2> HIDE DEF s, i
  <2>4. i \in 1 .. Len(s) /\ Targets = IF call.d = 0 THEN {Here} ELSE IF i < Len(s) THEN {s[i + 1]} ELSE {}
    BY <1>3, <1>5
  <2>5. ~(i < Len(s))
    <3>1. call.d # 0
      BY <1>4
    <3>2. ASSUME i < Len(s) PROVE FALSE
      <4>1. Targets = {s[i + 1]}
        BY <2>4, <3>1, <3>2
      <4> QED
        BY <4>1
    <3> QED
      BY <3>2
  <2>6. i = Len(s)
    BY <2>3, <2>4, <2>5
  <2> QED
    BY <2>2, <2>6, PlayTreeAssumption
<1> QED
  BY <1>2, <1>3, <1>4, <1>5

LEMMA SettledMore ==
  ASSUME iter \in Iterators
  PROVE  Settled.random = Random
<1> DEFINE b == iter.pushed /\ ~iter.config   r == Random
<1>1. Settled = [iter EXCEPT !.pushed = b, !.random = r, !.file = -1]
  BY DEF Settled
<1> HIDE DEF b, r
<1>2. Settled.random = r
  BY <1>1 DEF Iterators
<1> QED
  BY <1>2 DEF r

-----------------------------------------------------------------------------
(* Every step goes on in order. *)

OrderOf(t) ==
  LET order[n \in Nodes] ==
        IF Files[n] > 0 THEN <<n>>
        ELSE LET once == FlattenSeq([i \in DOMAIN t.kids[n] |-> order[t.kids[n][i]]])
             IN  FlattenSeq([i \in 1 .. (IF t.loop[n] > 1 THEN t.loop[n] ELSE 1) |-> once])
  IN  order[Root]

LEMMA OrderStays == tree' = tree => Order' = Order
<1>1. Order = OrderOf(tree)
  BY Zenon DEF Order, OrderOf, Times
<1>2. Order' = OrderOf(tree')
  BY Zenon DEF Order, OrderOf, Times
<1> QED
  BY <1>1, <1>2

\* What a function of playtree.c does in the list.
Moved(f) ==
  /\ tree' = tree
  /\ \E g, a : /\ OnWay(iter', tree, f, g, a)
               /\ \/ call'.op \in {"step", "down", "up"} /\ Steps(iter', tree, f, a, at, call')
                  \/ call'.op = "none" /\ answer' = "entry" /\ Found(iter', tree, f, a, at)
                  \/ call'.op = "none" /\ answer' # "entry" /\ at = Len(f[Root])

LEMMA MovedKeeps ==
  ASSUME NEW level, NEW U, NEW f, InOrder(level, U, f), pc \in {"first", "next"}, Moved(f),
         UNCHANGED <<pc, step, at>>
  PROVE  InOrder(level, U, f)'
<1>1. Order' = Order /\ tree' = tree
  BY OrderStays DEF Moved
<1>2. PICK g, a : /\ OnWay(iter', tree, f, g, a)
                  /\ \/ call'.op \in {"step", "down", "up"} /\ Steps(iter', tree, f, a, at, call')
                     \/ call'.op = "none" /\ answer' = "entry" /\ Found(iter', tree, f, a, at)
                     \/ call'.op = "none" /\ answer' # "entry" /\ at = Len(f[Root])
  BY DEF Moved
<1>3. OnWay(iter, tree, f, g, a)'
  BY <1>1, <1>2
<1>4. Stage(f, a)'
  BY <1>1, <1>2 DEF Stage
<1>5. Going(f)'
  BY <1>3, <1>4 DEF Going
<1>6. Fixed(tree, level, U, f)' /\ (Order = f[Root])' /\ (step = 1)'
  BY <1>1 DEF InOrder
<1> QED
  BY <1>5, <1>6 DEF InOrder

\* Where a function of playtree.c begins.
LEMMA MovesFrom ==
  ASSUME NEW level \in Layers, IInv(level), NEW U, NEW f, InOrder(level, U, f), call.op # "none", Here # None
  PROVE  /\ iter \in Iterators /\ Fixed(tree, level, U, f) /\ pc \in {"first", "next"}
         /\ \E g, a : OnWay(iter, tree, f, g, a) /\ Steps(iter, tree, f, a, at, call)
<1>1. iter \in Iterators
  BY CallIs
<1>2. ~NotBegun
  BY DEF NotBegun, NewIter, Here
<1>3. ~Done(f)
  BY DEF Done
<1>4. PICK g, a : OnWay(iter, tree, f, g, a) /\ Stage(f, a)
  BY <1>2, <1>3 DEF InOrder, Going
<1>5. pc \in {"first", "next"} /\ Steps(iter, tree, f, a, at, call)
  BY <1>4 DEF Stage
<1> QED
  BY <1>1, <1>4, <1>5 DEF InOrder

LEMMA StepRootMoves ==
  ASSUME NEW level \in Layers, IInv(level), NEW U, NEW f, InOrder(level, U, f), StepRoot
  PROVE  Moved(f) /\ pc \in {"first", "next"}
<1>1. call.op = "step" /\ Here = None /\ iter' = [iter EXCEPT !.tree = Root]
      /\ call' = [op |-> "step", d |-> 0, nodes |-> call.nodes] /\ tree' = tree
  BY DEF StepRoot, GoOn, Call
<1>2. NotBegun
  <2>1. ~Done(f)
    BY <1>1 DEF Done
  <2>2. ASSUME Going(f) PROVE FALSE
    <3>1. PICK g, a : OnWay(iter, tree, f, g, a)
      BY <2>2 DEF Going
    <3>2. iter \in Iterators
      BY <1>1, CallIs
    <3>3. iter.tree \in Nodes
      BY <3>1, <3>2, OnWayIs
    <3> QED
      BY <1>1, <3>3, PlayTreeAssumption DEF Here
  <2> QED
    BY <2>1, <2>2 DEF InOrder
<1>3. at = 0 /\ iter = NewIter /\ ~call.nodes /\ pc = "first"
  BY <1>2 DEF NotBegun
<1>4. /\ iter'.stack = << >> /\ iter'.tree = Root /\ iter'.config /\ ~iter'.random /\ iter' # None
      /\ iter'.loop = 0
  <2>1. iter' \in Iterators
    <3>1. iter \in Iterators
      BY <1>1, CallIs
    <3> QED
      BY <1>1, <3>1, IterExcept, PlayTreeAssumption
  <2>2. iter'.stack = << >> /\ iter'.tree = Root /\ iter'.config /\ ~iter'.random /\ iter'.loop = 0
    BY <1>1, <1>3 DEF NewIter
  <2> QED
    BY <2>1, <2>2, PlayTreeAssumption
<1> DEFINE g == [i \in Nat |-> Root]   a == [i \in Nat |-> << >>]   L == Append(<< >>, 0)
<1>5. Turns(tree, f, g, 0, L, a) /\ g[0] = Root /\ a[0] = << >>
  <2>1. Way(tree.kids, g, 0)
    BY PlayTreeAssumption DEF Way
  <2>2. a \in [Nat -> Seq(Nodes)] /\ a[0] = << >> /\ g[0] = Root
    OBVIOUS
  <2>3. \A j \in 1 .. 0 : FALSE
    OBVIOUS
  <2> HIDE DEF g, a, L
  <2> QED
    BY <2>1, <2>2, <2>3 DEF Turns
<1> HIDE DEF g, a
<1>6. OnWay(iter', tree, f, g, a)
  <2>1. Len(iter'.stack) = 0
    BY <1>4
  <2> QED
    BY <1>4, <1>5, <2>1 DEF OnWay
<1>7. Still(tree, f[Root], at, f[Root] \o << >>)
  <2>1. f[Root] \in Seq(Nodes)
    BY PlayTreeAssumption DEF InOrder, Fixed, Orders
  <2>2. << >> \in Seq(Nodes) /\ Len(<< >>) = 0
    OBVIOUS
  <2>3. f[Root] \o << >> = f[Root] /\ << >> \o f[Root] = f[Root]
    BY <2>1, ConcatEmptySeq
  <2> DEFINE e == << >>
  <2>4. e \in Seq(Nodes) /\ Len(e) = at /\ f[Root] = e \o (f[Root] \o << >>)
    BY <1>3, <2>2, <2>3
  <2> HIDE DEF e
  <2> QED
    BY <2>4 DEF Still
<1>8. Steps(iter', tree, f, a, at, call')
  <2>1. call'.op = "step" /\ call'.d = 0 /\ ~call'.nodes
    BY <1>1, <1>3
  <2>2. f[iter'.tree] \o a[Len(iter'.stack)] = f[Root] \o << >>
    BY <1>4, <1>5
  <2> QED
    BY <1>7, <2>1, <2>2 DEF Steps
<1> QED
  BY <1>1, <1>3, <1>6, <1>8 DEF Moved

LEMMA StepNodeMoves ==
  ASSUME NEW level \in Layers, IInv(level), NEW U, NEW f, InOrder(level, U, f), StepNode
  PROVE  Moved(f) /\ pc \in {"first", "next"}
<1>1. Stepping /\ call.op # "none" /\ Here # None /\ tree' = tree
  BY DEF StepNode, Stepping
<1>2. PICK m \in Targets : iter' = [Settled EXCEPT !.tree = m]
  BY DEF StepNode
<1>3. iter \in Iterators /\ Fixed(tree, level, U, f) /\ pc \in {"first", "next"}
  BY <1>1, MovesFrom
<1>4. PICK g, a : OnWay(iter, tree, f, g, a) /\ Steps(iter, tree, f, a, at, call)
  BY <1>1, MovesFrom
<1>5. ~Random /\ Rest = call.d /\ call.d \in {0, 1} /\ ~call.nodes
  <2>1. call.d \in {0, 1} /\ ~call.nodes
    BY <1>4 DEF Steps
  <2> QED
    BY <1>3, <1>4, <2>1, SteppingFrom
<1>6. m \in Nodes
  BY <1>1, <1>3, <1>4, Lands
<1>7. PICK h, b : /\ Turns(tree, f, h, Len(iter.stack), Append(iter.stack, iter.loop), b)
                  /\ h[Len(iter.stack)] = m /\ Still(tree, f[Root], at, f[m] \o b[Len(iter.stack)])
  BY <1>1, <1>3, <1>4, Lands
<1>8. /\ iter'.tree = m /\ iter'.stack = iter.stack /\ iter'.loop = iter.loop /\ iter'.config /\ ~iter'.random
      /\ iter' # None
  <2>1. Settled \in Iterators
    BY <1>3, SettledIs
  <2>2. Settled.stack = iter.stack /\ Settled.loop = iter.loop /\ Settled.config /\ ~Settled.random
    BY <1>3, <1>4, <1>5, SettledIs, SettledMore DEF OnWay
  <2>3. [Settled EXCEPT !.tree = m] \in Iterators
    BY <1>6, <2>1, IterExcept
  <2> QED
    BY <1>2, <2>1, <2>2, <2>3, IterFields DEF Iterators
<1>9. OnWay(iter', tree, f, h, b)
  BY <1>7, <1>8 DEF OnWay
<1>10. call'.op = "down" /\ call'.d = call.d /\ ~call'.nodes
  BY <1>5 DEF StepNode, GoOn, Call
<1>11. Steps(iter', tree, f, b, at, call')
  BY <1>5, <1>7, <1>8, <1>10 DEF Steps
<1> QED
  BY <1>1, <1>3, <1>9, <1>10, <1>11 DEF Moved

LEMMA StepEntryMoves ==
  ASSUME NEW level \in Layers, IInv(level), NEW U, NEW f, InOrder(level, U, f), StepEntry
  PROVE  Moved(f) /\ pc \in {"first", "next"}
<1>1. Stepping /\ call.op # "none" /\ Here # None
  BY DEF StepEntry, Stepping
<1>2. PICK m \in Targets :
        /\ Files[m] > 0
        /\ iter' = [Settled EXCEPT !.tree = m, !.num = Files[m], !.pushed = @ \/ iter.config]
        /\ MarkPlayed(m)
  BY DEF StepEntry
<1>3. iter \in Iterators /\ Fixed(tree, level, U, f) /\ pc \in {"first", "next"}
  BY <1>1, MovesFrom
<1>4. PICK g, a : OnWay(iter, tree, f, g, a) /\ Steps(iter, tree, f, a, at, call)
  BY <1>1, MovesFrom
<1>5. ~Random
  <2>1. call.d \in {0, 1}
    BY <1>4 DEF Steps
  <2> QED
    BY <1>3, <1>4, <2>1, SteppingFrom
<1>6. m \in Nodes
  BY <1>1, <1>3, <1>4, Lands
<1>7. PICK h, b : /\ Turns(tree, f, h, Len(iter.stack), Append(iter.stack, iter.loop), b)
                  /\ h[Len(iter.stack)] = m /\ Still(tree, f[Root], at, f[m] \o b[Len(iter.stack)])
  BY <1>1, <1>3, <1>4, Lands
<1>8. /\ iter'.tree = m /\ iter'.stack = iter.stack /\ iter'.loop = iter.loop /\ iter'.config /\ ~iter'.random
      /\ iter' # None /\ iter'.file = -1 /\ iter'.num = Files[m]
  <2> DEFINE w == Settled.pushed \/ iter.config   it1 == [Settled EXCEPT !.tree = m]   k == Files[m]
             it2 == [it1 EXCEPT !.num = k]   it3 == [it2 EXCEPT !.pushed = w]
  <2>1. iter' = [Settled EXCEPT !.tree = m, !.num = k, !.pushed = w] /\ w \in BOOLEAN /\ k \in Nat
    BY <1>2, <1>6, PlayTreeAssumption
  <2> HIDE DEF w, k
  <2>2. Settled \in Iterators /\ Settled.file = -1
        /\ Settled.stack = iter.stack /\ Settled.loop = iter.loop /\ Settled.config /\ ~Settled.random
    BY <1>3, <1>4, <1>5, SettledIs, SettledMore DEF OnWay
  <2>3. iter' = it3
    BY <2>1
  <2>4. it1 \in Iterators
    BY <1>6, <2>2, IterExcept
  <2>5. it1.tree = m /\ it1.stack = Settled.stack /\ it1.loop = Settled.loop /\ it1.config = Settled.config
        /\ it1.random = Settled.random /\ it1.file = Settled.file
    BY <2>2 DEF Iterators
  <2> HIDE DEF it1
  <2>6. it2 \in Iterators
    BY <2>1, <2>4, IterExcept
  <2>7. it2.tree = it1.tree /\ it2.stack = it1.stack /\ it2.loop = it1.loop /\ it2.config = it1.config
        /\ it2.random = it1.random /\ it2.file = it1.file /\ it2.num = k
    BY <2>4 DEF Iterators
  <2> HIDE DEF it2
  <2>8. it3 \in Iterators
    BY <2>1, <2>6, IterExcept
  <2>9. it3.tree = it2.tree /\ it3.stack = it2.stack /\ it3.loop = it2.loop /\ it3.config = it2.config
        /\ it3.random = it2.random /\ it3.file = it2.file /\ it3.num = it2.num
    BY <2>6 DEF Iterators
  <2> HIDE DEF it3
  <2>10. iter' # None
    BY <2>3, <2>8, PlayTreeAssumption
  <2> QED
    BY <2>2, <2>3, <2>5, <2>7, <2>9, <2>10 DEF k
<1>9. OnWay(iter', tree, f, h, b)
  BY <1>7, <1>8 DEF OnWay
<1>10. call'.op = "none" /\ answer' = "entry"
  BY DEF StepEntry, Return, NoCall
<1>11. Found(iter', tree, f, b, at)
  BY <1>2, <1>7, <1>8 DEF Found
<1>12. tree' = tree
  <2> DEFINE x == tree.played
  <2>1. tree' = [tree EXCEPT !.played = x]
    BY <1>2, <1>5 DEF MarkPlayed
  <2>2. tree \in GivenTrees
    BY <1>3 DEF Fixed, Tree
  <2> QED
    BY <2>1, <2>2 DEF GivenTrees
<1> QED
  BY <1>3, <1>9, <1>10, <1>11, <1>12 DEF Moved

\* Nothing of the list is invalid, and it is not shuffled.
LEMMA StepInvalidMoves ==
  ASSUME NEW level \in Layers, IInv(level), NEW U, NEW f, InOrder(level, U, f), StepInvalid \/ StepRound
  PROVE  FALSE
<1>1. Stepping /\ call.op # "none" /\ Here # None
  BY DEF StepInvalid, StepRound, Stepping
<1>2. iter \in Iterators /\ Fixed(tree, level, U, f)
  BY <1>1, MovesFrom
<1>3. PICK g, a : OnWay(iter, tree, f, g, a) /\ Steps(iter, tree, f, a, at, call)
  BY <1>1, MovesFrom
<1>4. ~Random
  <2>1. call.d \in {0, 1}
    BY <1>3 DEF Steps
  <2> QED
    BY <1>2, <1>3, <2>1, SteppingFrom
<1>5. CASE StepInvalid
  <2>1. PICK m \in Targets : ~IsValid(tree, m)
    BY <1>5 DEF StepInvalid
  <2>2. m \in U
    BY <1>1, <1>2, <1>3, Lands
  <2> QED
    BY <1>2, <2>1, <2>2 DEF Fixed
<1>6. CASE StepRound
  BY <1>4, <1>6 DEF StepRound
<1> QED
  BY <1>5, <1>6

LEMMA StepLoopMoves ==
  ASSUME NEW level \in Layers, IInv(level), NEW U, NEW f, InOrder(level, U, f), StepLoop
  PROVE  Moved(f) /\ pc \in {"first", "next"}
<1>1. Stepping /\ call.op # "none" /\ Here # None /\ tree' = tree /\ Targets = {} /\ LoopsAgain
  BY DEF StepLoop, Stepping
<1>2. iter \in Iterators /\ Fixed(tree, level, U, f) /\ pc \in {"first", "next"}
  BY <1>1, MovesFrom
<1>3. PICK g, a : OnWay(iter, tree, f, g, a) /\ Steps(iter, tree, f, a, at, call)
  BY <1>1, MovesFrom
<1> DEFINE n == Len(iter.stack)   L == Append(iter.stack, iter.loop)   s == tree.kids[g[n - 1]]
           l == IF iter.loop > 0 THEN iter.loop - 1 ELSE iter.loop   M == Append(iter.stack, l)
<1>4. /\ Rest = 1 /\ ~Random /\ Still(tree, f[Root], at, a[n])
      /\ n = 0 => Parent(tree, Here) = None
      /\ n # 0 => /\ Parent(tree, Here) = g[n - 1] /\ g[n - 1] # None
                  /\ Siblings(tree, Here) = s /\ IndexOf(s, g[n]) = Len(s)
  BY <1>1, <1>2, <1>3, Past
<1>5. /\ n \in Nat /\ iter.stack \in Seq(Int) /\ iter.loop \in Int /\ iter.config
      /\ Turns(tree, f, g, n, L, a) /\ L[n + 1] = iter.loop /\ \A j \in 1 .. n : L[j] = iter.stack[j]
  BY <1>2, <1>3, OnWayIs
<1>6. n # 0 /\ tree.loop[g[n - 1]] # 0 /\ iter.loop # 0
  <2>1. Loops(Parent(tree, Here)) # 0 /\ iter.loop # 0
    BY <1>1, <1>4 DEF LoopsAgain
  <2>2. Loops(None) = 0
    BY DEF Loops
  <2>3. n # 0
    BY <1>4, <2>1, <2>2
  <2> QED
    BY <1>4, <2>1, <2>3 DEF Loops
<1>7. M[n + 1] = l /\ \A j \in 1 .. n - 1 : M[j + 1] = L[j + 1]
  <2>1. l \in Int
    BY <1>5
  <2> HIDE DEF l
  <2>2. M[n + 1] = l /\ \A j \in 1 .. n : M[j] = iter.stack[j]
    BY <1>5, <2>1
  <2>3. \A j \in 1 .. n - 1 : j + 1 \in 1 .. n
    BY <1>5
  <2> HIDE DEF M, L, n
  <2> QED
    BY <1>5, <2>2, <2>3
<1> HIDE DEF n, L, M, s
<1>8. PICK h, b : /\ Turns(tree, f, h, n, M, b) /\ h[n] = Head(tree.kids[g[n - 1]])
                  /\ \/ f[h[n]] \o b[n] = a[n]
                     \/ tree.loop[Root] < 0 /\ a[n] = << >> /\ f[h[n]] \o b[n] = f[Root]
  <2>1. /\ Turns(tree, f, g, n, L, a) /\ n # 0 /\ IndexOf(tree.kids[g[n - 1]], g[n]) = Len(tree.kids[g[n - 1]])
        /\ L[n + 1] # 0 /\ tree.loop[g[n - 1]] # 0 /\ \A j \in 1 .. n - 1 : M[j + 1] = L[j + 1]
    BY <1>4, <1>5, <1>6, <1>7 DEF s
  <2>2. M[n + 1] = IF L[n + 1] > 0 THEN L[n + 1] - 1 ELSE L[n + 1]
    BY <1>5, <1>7
  <2>3. Renews(tree, f, g, n, M, a)
    BY <1>2, <2>1, <2>2, TurnsLoop
  <2> QED
    BY <2>3 DEF Renews
<1>9. Still(tree, f[Root], at, f[h[n]] \o b[n])
  <2>1. CASE f[h[n]] \o b[n] = a[n]
    BY <1>4, <2>1
  <2>2. CASE tree.loop[Root] < 0 /\ a[n] = << >> /\ f[h[n]] \o b[n] = f[Root]
    <3>1. f[Root] \in Seq(Nodes)
      BY <1>2, PlayTreeAssumption DEF Fixed, Orders
    <3>2. at = Len(f[Root])
      BY <1>4, <2>2, <3>1, StillDone
    <3> QED
      BY <2>2, <3>2 DEF Still
  <2> QED
    BY <1>8, <2>1, <2>2
<1>10. h[n] \in Nodes
  BY <1>5, <1>8, TurnsAre
<1>11. /\ iter'.tree = h[n] /\ iter'.stack = iter.stack /\ iter'.loop = l /\ iter'.config /\ ~iter'.random
       /\ iter' # None
  <2> DEFINE m == h[n]   it1 == [Settled EXCEPT !.tree = m]   it2 == [it1 EXCEPT !.loop = l]
  <2>1. Settled \in Iterators
        /\ Settled.stack = iter.stack /\ Settled.loop = iter.loop /\ Settled.config /\ ~Settled.random
    BY <1>2, <1>4, <1>5, SettledIs, SettledMore
  <2>2. iter' = [Settled EXCEPT !.tree = m, !.loop = l]
    <3>1. Rest > 0
      BY <1>4
    <3>2. iter' = [Settled EXCEPT !.tree = Head(Siblings(tree, Here)),
                                  !.loop = IF Settled.loop > 0 THEN Settled.loop - 1 ELSE Settled.loop]
      BY <3>1 DEF StepLoop
    <3>3. Head(Siblings(tree, Here)) = m
      BY <1>4, <1>6, <1>8 DEF s
    <3> QED
      BY <2>1, <3>2, <3>3
  <2>3. l \in Int /\ m \in Nodes
    BY <1>5, <1>10
  <2> HIDE DEF l, m
  <2>4. iter' = it2
    BY <2>2
  <2>5. it1 \in Iterators
    BY <2>1, <2>3, IterExcept
  <2>6. it1.tree = m /\ it1.stack = Settled.stack /\ it1.config = Settled.config /\ it1.random = Settled.random
    BY <2>1 DEF Iterators
  <2> HIDE DEF it1
  <2>7. it2 \in Iterators
    BY <2>3, <2>5, IterExcept
  <2>8. it2.tree = it1.tree /\ it2.stack = it1.stack /\ it2.config = it1.config /\ it2.random = it1.random
        /\ it2.loop = l
    BY <2>5 DEF Iterators
  <2> HIDE DEF it2
  <2>9. iter' # None
    BY <2>4, <2>7, PlayTreeAssumption
  <2> QED
    BY <2>1, <2>4, <2>6, <2>8, <2>9 DEF m
<1>12. OnWay(iter', tree, f, h, b)
  BY <1>8, <1>11 DEF OnWay, n, M
<1>13. call'.op = "step" /\ call'.d = 0 /\ ~call'.nodes
  <2>1. ~call.nodes
    BY <1>3 DEF Steps
  <2> QED
    BY <2>1 DEF StepLoop, GoOn, Call
<1>14. Steps(iter', tree, f, b, at, call')
  BY <1>9, <1>11, <1>13 DEF Steps, n
<1> QED
  BY <1>1, <1>2, <1>12, <1>13, <1>14 DEF Moved

LEMMA StepUpMoves ==
  ASSUME NEW level \in Layers, IInv(level), NEW U, NEW f, InOrder(level, U, f), StepUp
  PROVE  Moved(f) /\ pc \in {"first", "next"}
<1>1. Stepping /\ call.op # "none" /\ Here # None /\ tree' = tree /\ Targets = {} /\ ~LoopsAgain /\ iter' = Settled
  BY DEF StepUp, Stepping
<1>2. iter \in Iterators /\ Fixed(tree, level, U, f) /\ pc \in {"first", "next"}
  BY <1>1, MovesFrom
<1>3. PICK g, a : OnWay(iter, tree, f, g, a) /\ Steps(iter, tree, f, a, at, call)
  BY <1>1, MovesFrom
<1> DEFINE n == Len(iter.stack)   L == Append(iter.stack, iter.loop)   s == tree.kids[g[n - 1]]
<1>4. /\ Rest = 1 /\ ~Random /\ Still(tree, f[Root], at, a[n])
      /\ n = 0 => Parent(tree, Here) = None
      /\ n # 0 => /\ Parent(tree, Here) = g[n - 1] /\ g[n - 1] # None
                  /\ Siblings(tree, Here) = s /\ IndexOf(s, g[n]) = Len(s)
  BY <1>1, <1>2, <1>3, Past
<1>5. n \in Nat /\ Turns(tree, f, g, n, L, a) /\ L[n + 1] = iter.loop /\ iter.config /\ iter.tree = g[n]
  BY <1>2, <1>3, OnWayIs
<1>6. /\ iter'.tree = iter.tree /\ iter'.stack = iter.stack /\ iter'.loop = iter.loop /\ iter'.config
      /\ ~iter'.random /\ iter' # None
  <2>1. iter' \in Iterators
    BY <1>1, <1>2, SettledIs
  <2> QED
    BY <1>1, <1>2, <1>4, <1>5, <2>1, SettledIs, SettledMore, PlayTreeAssumption
<1>7. OnWay(iter', tree, f, g, a)
  BY <1>5, <1>6 DEF OnWay
<1>8. Still(tree, f[Root], at, IF n = 0 THEN << >> ELSE a[n - 1])
  <2>1. CASE n = 0
    <3>1. a[n] = << >>
      BY <1>5, <2>1, TurnsAre
    <3> QED
      BY <1>4, <2>1, <3>1
  <2>2. CASE n # 0
    <3>1. L[n + 1] = 0 \/ tree.loop[g[n - 1]] = 0
      <4>1. Loops(Parent(tree, Here)) = tree.loop[g[n - 1]]
        BY <1>4, <2>2 DEF Loops
      <4> QED
        BY <1>1, <1>4, <1>5, <4>1 DEF LoopsAgain
    <3>2. IndexOf(tree.kids[g[n - 1]], g[n]) = Len(tree.kids[g[n - 1]])
      BY <1>4, <2>2
    <3>3. Turns(tree, f, g, n, L, a)
      BY <1>5
    <3> HIDE DEF n, L, s
    <3>4. a[n] = a[n - 1]
      BY <1>2, <2>2, <3>1, <3>2, <3>3, TurnsEnd
    <3> QED
      BY <1>4, <2>2, <3>4
  <2> QED
    BY <2>1, <2>2
<1>9. call'.op = "up" /\ call'.d = 1 /\ ~call'.nodes
  <2>1. ~call.nodes
    BY <1>3 DEF Steps
  <2> QED
    BY <1>4, <2>1 DEF StepUp, GoOn, Call
<1>10. Steps(iter', tree, f, a, at, call')
  BY <1>6, <1>8, <1>9 DEF Steps
<1> QED
  BY <1>1, <1>2, <1>7, <1>9, <1>10 DEF Moved

LEMMA UpFrom ==
  ASSUME NEW level \in Layers, IInv(level), NEW U, NEW f, InOrder(level, U, f), call.op = "up"
  PROVE  Here # None
<1>1. ~NotBegun /\ ~Done(f) /\ iter \in Iterators
  BY CallIs DEF NotBegun, Done
<1>2. PICK g, a : OnWay(iter, tree, f, g, a)
  BY <1>1 DEF InOrder, Going
<1>3. iter.tree \in Nodes
  BY <1>1, <1>2, OnWayIs
<1> QED
  BY <1>3, PlayTreeAssumption DEF Here

\* The parent of the node it stands on is the group its stack says.
LEMMA UpTo ==
  ASSUME NEW level, NEW U, NEW f, Fixed(tree, level, U, f), iter \in Iterators, NEW g, NEW a,
         OnWay(iter, tree, f, g, a)
  PROVE  Parent(tree, Here) = IF Len(iter.stack) = 0 THEN None ELSE g[Len(iter.stack) - 1]
<1> DEFINE n == Len(iter.stack)
<1>1. n \in Nat /\ Turns(tree, f, g, n, Append(iter.stack, iter.loop), a) /\ Here = g[n]
  BY OnWayIs DEF Here
<1>2. Way(tree.kids, g, n) /\ g[0] = Root
  BY <1>1, TurnsAre
<1>3. Around(tree, g, n)
  <2> HIDE DEF n
  <2>1. level \in Layers /\ Tree(tree, level) /\ Single(tree)
    BY DEF Fixed
  <2> QED
    BY <1>2, <2>1, WayParent
<1>4. n # 0 => n \in 1 .. n
  BY <1>1
<1> QED
  BY <1>1, <1>2, <1>3, <1>4 DEF Around

LEMMA UpEndsMoves ==
  ASSUME NEW level \in Layers, IInv(level), NEW U, NEW f, InOrder(level, U, f), UpEnds
  PROVE  Moved(f) /\ pc \in {"first", "next"}
<1>1. call.op = "up" /\ tree' = tree /\ iter' = [iter EXCEPT !.file = -1] /\ Parent(tree, Here) = None
      /\ call'.op = "none" /\ answer' = "end"
  BY DEF UpEnds, Return, NoCall
<1>2. Here # None
  BY <1>1, UpFrom
<1>3. iter \in Iterators /\ Fixed(tree, level, U, f) /\ pc \in {"first", "next"}
  BY <1>1, <1>2, MovesFrom
<1>4. PICK g, a : OnWay(iter, tree, f, g, a) /\ Steps(iter, tree, f, a, at, call)
  BY <1>1, <1>2, MovesFrom
<1> DEFINE n == Len(iter.stack)
<1>5. n \in Nat /\ Turns(tree, f, g, n, Append(iter.stack, iter.loop), a) /\ iter.config /\ ~iter.random
      /\ iter.tree = g[n]
  BY <1>3, <1>4, OnWayIs
<1>6. n = 0
  <2>1. Parent(tree, Here) = IF n = 0 THEN None ELSE g[n - 1]
    BY <1>3, <1>4, UpTo
  <2>2. ASSUME n # 0 PROVE FALSE
    <3>1. g[n - 1] \in Nodes
      <4> HIDE DEF n
      <4> QED
        BY <1>3, <1>5, <2>2, TurnsHere
    <3> QED
      BY <1>1, <2>1, <2>2, <3>1, PlayTreeAssumption
  <2> QED
    BY <2>2
<1>7. at = Len(f[Root])
  <2>1. Still(tree, f[Root], at, << >>)
    BY <1>1, <1>4, <1>6 DEF Steps
  <2>2. f[Root] \in Seq(Nodes)
    BY <1>3, PlayTreeAssumption DEF Fixed, Orders
  <2> QED
    BY <2>1, <2>2, StillDone
<1>8. /\ iter'.tree = iter.tree /\ iter'.stack = iter.stack /\ iter'.loop = iter.loop /\ iter'.config
      /\ ~iter'.random /\ iter' # None
  <2> DEFINE m == -1
  <2>1. m \in Int /\ iter' = [iter EXCEPT !.file = m]
    BY <1>1
  <2> HIDE DEF m
  <2>2. iter' \in Iterators
    BY <1>3, <2>1, IterExcept
  <2> QED
    BY <1>3, <1>5, <2>1, <2>2, PlayTreeAssumption DEF Iterators
<1>9. OnWay(iter', tree, f, g, a)
  BY <1>5, <1>8 DEF OnWay
<1> QED
  BY <1>1, <1>3, <1>7, <1>9 DEF Moved

LEMMA LastIs ==
  ASSUME NEW s \in Seq(Int), Len(s) # 0
  PROVE  /\ Front(s) \in Seq(Int) /\ Len(Front(s)) = Len(s) - 1 /\ Last(s) \in Int
         /\ Append(Front(s), Last(s)) = s
<1> DEFINE r == Front(s)   l == Last(s)
<1>1. r \in Seq(Int) /\ Len(r) = Len(s) - 1 /\ (\A i \in 1 .. Len(s) - 1 : r[i] = s[i]) /\ Len(s) \in Nat
  <2> DEFINE k == Len(s) - 1
  <2>1. k \in Nat /\ k <= Len(s) /\ r = SubSeq(s, 1, k)
    BY DEF Front
  <2> HIDE DEF k
  <2>2. SubSeq(s, 1, k) \in Seq(Int) /\ Len(SubSeq(s, 1, k)) = k
    BY <2>1
  <2>3. \A i \in 1 .. k : SubSeq(s, 1, k)[i] = s[i]
    BY <2>1
  <2> HIDE DEF r
  <2> QED
    BY <2>1, <2>2, <2>3 DEF k
<1>2. l = s[Len(s)] /\ l \in Int
  BY DEF Last
<1> HIDE DEF r, l
<1>3. Append(r, l) \in Seq(Int) /\ Len(Append(r, l)) = Len(s)
      /\ \A i \in 1 .. Len(s) : Append(r, l)[i] = s[i]
  BY <1>1, <1>2
<1>4. Append(r, l) = s
  <2> DEFINE q == Append(r, l)
  <2>1. q \in Seq(Int) /\ Len(q) = Len(s) /\ \A i \in 1 .. Len(s) : q[i] = s[i]
    BY <1>3
  <2> HIDE DEF q
  <2>2. q = [i \in 1 .. Len(s) |-> q[i]] /\ s = [i \in 1 .. Len(s) |-> s[i]]
    BY <2>1
  <2> QED
    BY <2>1, <2>2 DEF q
<1> QED
  BY <1>1, <1>2, <1>4 DEF r, l

LEMMA UpGoesMoves ==
  ASSUME NEW level \in Layers, IInv(level), NEW U, NEW f, InOrder(level, U, f), UpGoes
  PROVE  Moved(f) /\ pc \in {"first", "next"}
<1> DEFINE p == Parent(tree, Here)   l == Last(iter.stack)   r == Front(iter.stack)   e == -1
           n == Len(iter.stack)   L == Append(iter.stack, iter.loop)
<1>1. call.op = "up" /\ p # None /\ iter' = [iter EXCEPT !.file = e, !.tree = p, !.loop = l, !.stack = r]
      /\ tree' = [tree EXCEPT !.played = IF iter.config /\ iter.random THEN @ \cup {p} ELSE @]
  BY DEF UpGoes
<1>2. Here # None
  BY <1>1, UpFrom
<1>3. iter \in Iterators /\ Fixed(tree, level, U, f) /\ pc \in {"first", "next"}
  BY <1>1, <1>2, MovesFrom
<1>4. PICK g, a : OnWay(iter, tree, f, g, a) /\ Steps(iter, tree, f, a, at, call)
  BY <1>1, <1>2, MovesFrom
<1>5. /\ n \in Nat /\ Turns(tree, f, g, n, L, a) /\ iter.config /\ ~iter.random /\ iter.stack \in Seq(Int)
      /\ \A j \in 1 .. n : L[j] = iter.stack[j]
  BY <1>3, <1>4, OnWayIs
<1>6. n # 0 /\ p = g[n - 1]
  BY <1>1, <1>3, <1>4, UpTo
<1>7. n - 1 \in 0 .. n /\ p \in Nodes /\ n - 1 \in Nat
  <2> HIDE DEF n, L
  <2> QED
    BY <1>3, <1>5, <1>6, TurnsHere
<1>8. r \in Seq(Int) /\ Len(r) = n - 1 /\ l \in Int /\ Append(r, l) = iter.stack
  BY <1>5, <1>6, LastIs
<1>9. Turns(tree, f, g, n - 1, iter.stack, a)
  <2> DEFINE m == n - 1   S == iter.stack
  <2>1. \A j \in 1 .. m : S[j + 1] = L[j + 1]
    <3>1. \A j \in 1 .. m : j + 1 \in 1 .. n
      BY <1>5
    <3> HIDE DEF m
    <3> QED
      BY <1>5, <3>1
  <2>2. m \in 0 .. n /\ Turns(tree, f, g, n, L, a)
    BY <1>5, <1>7
  <2> HIDE DEF m, S, n, L
  <2>3. Turns(tree, f, g, m, S, a)
    BY <2>1, <2>2, TurnsUp
  <2> QED
    BY <2>3 DEF m, S
<1>10. /\ iter'.tree = p /\ iter'.stack = r /\ iter'.loop = l /\ iter'.config /\ ~iter'.random /\ iter' # None
  <2> DEFINE it1 == [iter EXCEPT !.file = e]   it2 == [it1 EXCEPT !.tree = p]   it3 == [it2 EXCEPT !.loop = l]
             it4 == [it3 EXCEPT !.stack = r]
  <2>1. e \in Int
    OBVIOUS
  <2> HIDE DEF e, p, l, r
  <2>2. iter' = it4
    BY <1>1
  <2>3. it1 \in Iterators
    BY <1>3, <2>1, IterExcept
  <2>4. it1.config = iter.config /\ it1.random = iter.random
    BY <1>3 DEF Iterators
  <2> HIDE DEF it1
  <2>5. it2 \in Iterators
    BY <1>7, <2>3, IterExcept
  <2>6. it2.config = it1.config /\ it2.random = it1.random /\ it2.tree = p
    BY <2>3 DEF Iterators
  <2> HIDE DEF it2
  <2>7. it3 \in Iterators
    BY <1>8, <2>5, IterExcept
  <2>8. it3.config = it2.config /\ it3.random = it2.random /\ it3.tree = it2.tree /\ it3.loop = l
    BY <2>5 DEF Iterators
  <2> HIDE DEF it3
  <2>9. it4 \in Iterators
    BY <1>8, <2>7, IterExcept
  <2>10. it4.config = it3.config /\ it4.random = it3.random /\ it4.tree = it3.tree /\ it4.loop = it3.loop
         /\ it4.stack = r
    BY <2>7 DEF Iterators
  <2> HIDE DEF it4
  <2>11. iter' # None
    BY <2>2, <2>9, PlayTreeAssumption
  <2> QED
    BY <1>5, <2>2, <2>4, <2>6, <2>8, <2>10, <2>11
<1>11. OnWay(iter', tree, f, g, a)
  BY <1>6, <1>8, <1>9, <1>10 DEF OnWay
<1>12. call'.op = "step" /\ call'.d = 1 /\ ~call'.nodes /\ Still(tree, f[Root], at, a[n - 1])
  <2>1. ~call.nodes /\ call.d = 1 /\ Still(tree, f[Root], at, IF n = 0 THEN << >> ELSE a[n - 1])
    BY <1>1, <1>4 DEF Steps
  <2>2. call'.op = "step" /\ call'.d = call.d /\ call'.nodes = call.nodes
    BY DEF UpGoes, GoOn, Call
  <2> QED
    BY <1>6, <2>1, <2>2
<1>13. Steps(iter', tree, f, a, at, call')
  BY <1>8, <1>10, <1>12 DEF Steps
<1>14. tree' = tree
  <2> DEFINE x == tree.played
  <2>1. tree' = [tree EXCEPT !.played = x]
    BY <1>1, <1>5
  <2>2. tree \in GivenTrees
    BY <1>3 DEF Fixed, Tree
  <2> QED
    BY <2>1, <2>2 DEF GivenTrees
<1> QED
  BY <1>3, <1>11, <1>12, <1>13, <1>14 DEF Moved

LEMMA DownStepMoves ==
  ASSUME NEW level \in Layers, IInv(level), NEW U, NEW f, InOrder(level, U, f), DownStep
  PROVE  Moved(f) /\ pc \in {"first", "next"}
<1> DEFINE n == Len(iter.stack)   L == Append(iter.stack, iter.loop)   e == -1
           l == tree.loop[iter.tree] - 1   M == Append(L, l)   c == Head(tree.kids[iter.tree])
<1>1. call.op = "down" /\ tree' = tree /\ call'.op = "step" /\ call'.d = 0 /\ call'.nodes = call.nodes
  BY DEF DownStep, GoOn, Call
<1>2. iter.tree \in Nodes /\ tree.kids[iter.tree] # << >> /\ Here # None
  BY <1>1, PlayTreeAssumption DEF IInv, CallInv, Here
<1>3. iter \in Iterators /\ Fixed(tree, level, U, f) /\ pc \in {"first", "next"}
  BY <1>1, <1>2, MovesFrom
<1>4. PICK g, a : OnWay(iter, tree, f, g, a) /\ Steps(iter, tree, f, a, at, call)
  BY <1>1, <1>2, MovesFrom
<1>5. /\ n \in Nat /\ Turns(tree, f, g, n, L, a) /\ iter.config /\ ~iter.random /\ iter.stack \in Seq(Int)
      /\ iter.loop \in Int /\ iter.tree = g[n]
  BY <1>3, <1>4, OnWayIs
<1>6. iter' = [iter EXCEPT !.file = e, !.stack = L, !.loop = l, !.tree = c]
  <2>1. call.d >= 0
    BY <1>4 DEF Steps
  <2> QED
    BY <2>1 DEF DownStep, Here
<1>7. L \in Seq(Int) /\ Len(L) = n + 1 /\ l \in Int /\ c \in Nodes
  <2>1. L \in Seq(Int) /\ Len(L) = n + 1
    BY <1>5
  <2>2. tree.loop[iter.tree] \in Int /\ tree.kids[iter.tree] \in Seq(Nodes)
    BY <1>2, <1>3, FixedIs
  <2> QED
    BY <1>2, <2>1, <2>2
<1>8. M[n + 2] = l /\ \A j \in 1 .. n : M[j + 1] = L[j + 1]
  <2>1. \A j \in 1 .. n : j + 1 \in 1 .. n + 1
    BY <1>5
  <2> HIDE DEF L, l, n
  <2>2. M[n + 2] = l /\ \A j \in 1 .. n + 1 : M[j] = L[j]
    BY <1>5, <1>7
  <2> HIDE DEF M
  <2> QED
    BY <2>1, <2>2
<1>9. Descends(tree, f, g, n, M, a)
  <2>1. Turns(tree, f, g, n, L, a) /\ tree.kids[g[n]] # << >> /\ M[n + 2] = tree.loop[g[n]] - 1
        /\ \A j \in 1 .. n : M[j + 1] = L[j + 1]
    BY <1>2, <1>5, <1>8
  <2> HIDE DEF n, L, M
  <2> QED
    BY <1>3, <2>1, TurnsDown
<1>10. PICK h, b : /\ Turns(tree, f, h, n + 1, M, b) /\ h[n + 1] = c
                   /\ f[h[n + 1]] \o b[n + 1] = f[iter.tree] \o a[n]
  BY <1>5, <1>9 DEF Descends
<1>11. /\ iter'.tree = c /\ iter'.stack = L /\ iter'.loop = l /\ iter'.config /\ ~iter'.random /\ iter' # None
  <2> DEFINE it1 == [iter EXCEPT !.file = e]   it2 == [it1 EXCEPT !.stack = L]   it3 == [it2 EXCEPT !.loop = l]
             it4 == [it3 EXCEPT !.tree = c]
  <2>1. e \in Int
    OBVIOUS
  <2> HIDE DEF e, L, l, c
  <2>2. iter' = it4
    BY <1>6
  <2>3. it1 \in Iterators
    BY <1>3, <2>1, IterExcept
  <2>4. it1.config = iter.config /\ it1.random = iter.random
    BY <1>3 DEF Iterators
  <2> HIDE DEF it1
  <2>5. it2 \in Iterators
    BY <1>7, <2>3, IterExcept
  <2>6. it2.config = it1.config /\ it2.random = it1.random /\ it2.stack = L
    BY <2>3 DEF Iterators
  <2> HIDE DEF it2
  <2>7. it3 \in Iterators
    BY <1>7, <2>5, IterExcept
  <2>8. it3.config = it2.config /\ it3.random = it2.random /\ it3.stack = it2.stack /\ it3.loop = l
    BY <2>5 DEF Iterators
  <2> HIDE DEF it3
  <2>9. it4 \in Iterators
    BY <1>7, <2>7, IterExcept
  <2>10. it4.config = it3.config /\ it4.random = it3.random /\ it4.stack = it3.stack /\ it4.loop = it3.loop
         /\ it4.tree = c
    BY <2>7 DEF Iterators
  <2> HIDE DEF it4
  <2>11. iter' # None
    BY <2>2, <2>9, PlayTreeAssumption
  <2> QED
    BY <1>5, <2>2, <2>4, <2>6, <2>8, <2>10, <2>11
<1>12. OnWay(iter', tree, f, h, b)
  BY <1>7, <1>10, <1>11 DEF OnWay
<1>13. ~call.nodes /\ Still(tree, f[Root], at, f[iter.tree] \o a[n])
  BY <1>1, <1>4 DEF Steps
<1>14. Steps(iter', tree, f, b, at, call')
  <2>1. f[iter'.tree] \o b[Len(iter'.stack)] = f[iter.tree] \o a[n]
    BY <1>7, <1>10, <1>11
  <2> QED
    BY <1>1, <1>13, <2>1 DEF Steps
<1> QED
  BY <1>1, <1>3, <1>12, <1>14 DEF Moved

LEMMA IterateInOrder ==
  ASSUME NEW level \in Layers, IInv(level), NEW U, NEW f, InOrder(level, U, f), Iterate
  PROVE  InOrder(level, U, f)'
<1>1. Moved(f) /\ pc \in {"first", "next"}
  BY StepRootMoves, StepNodeMoves, StepEntryMoves, StepInvalidMoves, StepLoopMoves, StepUpMoves, UpEndsMoves,
     UpGoesMoves, DownStepMoves DEF Iterate
<1>2. UNCHANGED <<pc, step, at>>
  BY DEF Iterate, StepRoot, StepNode, StepEntry, StepInvalid, StepRound, StepLoop, StepUp, UpEnds, UpGoes,
         DownStep, Walking, history
<1> QED
  BY <1>1, <1>2, MovedKeeps

LEMMA LeaveByStepInOrder ==
  ASSUME NEW level \in Layers, IInv(level), NEW U, NEW f, InOrder(level, U, f), LeaveByStep
  PROVE  InOrder(level, U, f)'
<1>1. pc = "leave" /\ pc' = "next" /\ call' = [op |-> "step", d |-> 1, nodes |-> FALSE]
      /\ UNCHANGED <<tree, iter, step, at>>
  BY DEF LeaveByStep, Call, InOrder, world, history
<1>2. PICK g, a : OnWay(iter, tree, f, g, a) /\ Stage(f, a)
  BY <1>1 DEF InOrder, NotBegun, Done, Going
<1>3. Still(tree, f[Root], at, a[Len(iter.stack)])
  BY <1>1, <1>2 DEF Stage
<1>4. Steps(iter, tree, f, a, at, call')
  BY <1>1, <1>3 DEF Steps
<1>5. OnWay(iter, tree, f, g, a)'
  BY <1>1, <1>2
<1>6. Stage(f, a)'
  BY <1>1, <1>4 DEF Stage
<1>7. Going(f)'
  BY <1>5, <1>6 DEF Going
<1>8. Fixed(tree, level, U, f)' /\ (Order = f[Root])' /\ (step = 1)'
  BY <1>1, OrderStays DEF InOrder
<1> QED
  BY <1>7, <1>8 DEF InOrder

\* A command, or a list that is one file of the list, would have to come first.
LEMMA LeaveElse ==
  ASSUME NEW level \in Layers, NEW U, NEW f, InOrder(level, U, f)
  PROVE  ~LeaveByUp /\ ~LeaveBySource /\ ~LeaveStopped /\ ~AgainReturned /\ ~ListReturned /\ ~ListUpReturned
         /\ ~TryReturned /\ ~UnwindReturned /\ ~HeadReturned
<1>1. pc \in {"first", "next", "file", "play", "leave", "idle", "over"} /\ (pc = "leave" => eof = 1)
  <2>1. CASE Going(f)
    BY <2>1 DEF Going, Stage
  <2>2. CASE NotBegun \/ Done(f)
    BY <2>2 DEF NotBegun, Done
  <2> QED
    BY <2>1, <2>2 DEF InOrder
<1>2. pc = "leave" => eof \notin {3, -3} /\ eof \notin {2, -2} /\ eof # 4
  BY <1>1
<1> QED
  BY <1>1, <1>2, Zenon DEF LeaveByUp, LeaveBySource, LeaveStopped, AgainReturned, ListReturned, ListUpReturned, TryReturned,
              UnwindReturned, HeadReturned, Returned

LEMMA NextReturnedInOrder ==
  ASSUME NEW level \in Layers, IInv(level), NEW U, NEW f, InOrder(level, U, f), NextReturned
  PROVE  InOrder(level, U, f)'
<1>1. pc \in {"first", "next"} /\ call.op = "none" /\ pc' = "file" /\ step' = 1
      /\ iter' = (IF answer = "entry" THEN iter ELSE None) /\ UNCHANGED <<tree, call, at>>
  BY DEF NextReturned, KeepIfEntry, Returned, history
<1>2. PICK g, a : OnWay(iter, tree, f, g, a) /\ Stage(f, a)
  BY <1>1 DEF InOrder, NotBegun, Done, Going
<1>3. Fixed(tree, level, U, f)' /\ (Order = f[Root])' /\ (step = 1)'
  BY <1>1, OrderStays DEF InOrder
<1>4. CASE answer = "entry"
  <2>1. iter' = iter /\ Found(iter, tree, f, a, at)
    BY <1>1, <1>2, <1>4 DEF Stage
  <2>2. OnWay(iter, tree, f, g, a)' /\ Stage(f, a)'
    BY <1>1, <1>2, <2>1 DEF Stage
  <2>3. Going(f)'
    BY <2>2 DEF Going
  <2> QED
    BY <1>3, <2>3 DEF InOrder
<1>5. CASE answer # "entry"
  <2>1. at = Len(f[Root]) /\ iter' = None
    BY <1>1, <1>2, <1>5 DEF Stage
  <2>2. Done(f)'
    BY <1>1, <2>1 DEF Done
  <2> QED
    BY <1>3, <2>2 DEF InOrder
<1> QED
  BY <1>4, <1>5

LEMMA FileInOrder ==
  ASSUME NEW level \in Layers, IInv(level), NEW U, NEW f, InOrder(level, U, f), pc = "file", iter # None
  PROVE  /\ iter \in Iterators /\ iter.tree \in Nodes /\ Files[iter.tree] > 0 /\ ~Refused /\ call.op = "none"
         /\ \E g, a : OnWay(iter, tree, f, g, a) /\ Found(iter, tree, f, a, at)
<1>1. iter \in Iterators
  BY PlaceIs
<1>2. PICK g, a : OnWay(iter, tree, f, g, a) /\ Stage(f, a)
  BY DEF InOrder, NotBegun, Done, Going
<1>3. Found(iter, tree, f, a, at) /\ call.op = "none"
  BY <1>2 DEF Stage
<1>4. iter.tree \in Nodes
  BY <1>1, <1>2, OnWayIs
<1>5. Files[iter.tree] \in Nat /\ Files[iter.tree] > 0 /\ iter.num = Files[iter.tree] /\ iter.file = -1
  BY <1>3, <1>4, PlayTreeAssumption DEF Found
<1>6. ~Refused
  BY <1>5 DEF Refused
<1> QED
  BY <1>1, <1>2, <1>3, <1>4, <1>5, <1>6

LEMMA GetFileInOrder ==
  ASSUME NEW level \in Layers, IInv(level), IInv(level)', NEW U, NEW f, InOrder(level, U, f), ~touched, GetFile
  PROVE  InOrder(level, U, f)'
<1>1. pc = "file" /\ iter # None /\ pc' = "play" /\ iter' = [iter EXCEPT !.file = NextFile] /\ Hear
      /\ UNCHANGED <<tree, call, step>>
  BY DEF GetFile
<1>2. iter \in Iterators /\ iter.tree \in Nodes /\ Files[iter.tree] > 0 /\ call.op = "none"
  BY <1>1, FileInOrder
<1>3. PICK g, a : OnWay(iter, tree, f, g, a) /\ Found(iter, tree, f, a, at)
  BY <1>1, FileInOrder
<1>4. Fixed(tree, level, U, f) /\ Order = f[Root]
  BY DEF InOrder
<1>5. Fixed(tree, level, U, f)' /\ (Order = f[Root])' /\ (step = 1)'
  BY <1>1, OrderStays DEF InOrder
<1> DEFINE n == Len(iter.stack)   O == f[Root]   m == iter.tree   r == a[n]
<1>6. at' = IF at = Len(O) /\ tree.loop[Root] < 0 THEN 1 ELSE at + 1
  <2>1. iter.file = -1
    BY <1>3 DEF Found
  <2> QED
    BY <1>1, <1>4, <2>1 DEF Hear
<1>7. O \in Seq(Nodes) /\ r \in Seq(Nodes) /\ f[m] = <<m>>
  <2>1. f \in [Nodes -> Seq(Nodes)] /\ f[m] = <<m>>
    BY <1>2, <1>4 DEF Fixed, Orders
  <2>2. r \in Seq(Nodes)
    BY <1>2, <1>3, OnWayIs
  <2> QED
    BY <2>1, <2>2, PlayTreeAssumption
<1>8. Still(tree, O, at, <<m>> \o r)
  BY <1>3, <1>7 DEF Found
<1>9. at' \in DOMAIN O /\ O[at'] = m /\ Still(tree, O, at', r)
  <2>1. m \in Nodes
    BY <1>2
  <2> HIDE DEF m, O, r
  <2>2. Hears(tree, O, at, m, r)
    BY <1>7, <1>8, <2>1, StillNext
  <2> QED
    BY <1>6, <2>2 DEF Hears
<1>10. /\ iter'.tree = m /\ iter'.stack = iter.stack /\ iter'.loop = iter.loop /\ iter'.config = iter.config
       /\ iter'.random = iter.random /\ iter' # None
  <2>1. iter' # None
    BY <1>1 DEF IInv, CallInv
  <2> DEFINE x == NextFile
  <2>2. iter' = [iter EXCEPT !.file = x]
    BY <1>1
  <2> HIDE DEF x
  <2> QED
    BY <1>2, <2>1, <2>2 DEF Iterators
<1>11. OnWay(iter, tree, f, g, a)'
  <2>1. OnWay(iter', tree, f, g, a)
    BY <1>3, <1>10 DEF OnWay
  <2> QED
    BY <1>1, <2>1
<1>12. Stage(f, a)'
  <2>1. Still(tree', f[Root], at', a[Len(iter'.stack)]) /\ f[Root][at'] = iter'.tree /\ at' \in DOMAIN f[Root]
    BY <1>1, <1>9, <1>10
  <2> QED
    BY <1>1, <1>2, <2>1 DEF Stage
<1>13. Going(f)'
  BY <1>11, <1>12 DEF Going
<1> QED
  BY <1>5, <1>13 DEF InOrder

LEMMA FileEndsInOrder ==
  ASSUME NEW level \in Layers, IInv(level), NEW U, NEW f, InOrder(level, U, f),
         NoMoreEntries \/ FileEnds \/ ChangeOption
  PROVE  InOrder(level, U, f)'
<1>1. UNCHANGED <<tree, iter, call, step, at>>
  BY DEF NoMoreEntries, FileEnds, ChangeOption, Leave, world, history
<1>2. Fixed(tree, level, U, f)' /\ (Order = f[Root])' /\ (step = 1)'
  BY <1>1, OrderStays DEF InOrder
<1>3. CASE NoMoreEntries
  <2>1. pc = "file" /\ iter = None /\ pc' \in {"idle", "over"}
    BY <1>3 DEF NoMoreEntries
  <2>2. Done(f)
    BY <2>1 DEF InOrder, NotBegun, Going, OnWay
  <2>3. Done(f)'
    BY <1>1, <2>1, <2>2 DEF Done
  <2> QED
    BY <1>2, <2>3 DEF InOrder
<1>4. CASE FileEnds
  <2>1. pc = "play" /\ pc' = "leave" /\ eof' = 1
    BY <1>4 DEF FileEnds, Playing, Leave
  <2>2. PICK g, a : OnWay(iter, tree, f, g, a) /\ Stage(f, a)
    BY <2>1 DEF InOrder, NotBegun, Done, Going
  <2>3. OnWay(iter, tree, f, g, a)' /\ Stage(f, a)'
    BY <1>1, <2>1, <2>2 DEF Stage
  <2>4. Going(f)'
    BY <2>3 DEF Going
  <2> QED
    BY <1>2, <2>4 DEF InOrder
<1>5. CASE ChangeOption
  <2>1. UNCHANGED <<pc, answer, eof>>
    BY <1>5 DEF ChangeOption
  <2>2. CASE NotBegun
    <3>1. NotBegun'
      BY <1>1, <2>1, <2>2 DEF NotBegun
    <3> QED
      BY <1>2, <3>1 DEF InOrder
  <2>3. CASE Done(f)
    <3>1. Done(f)'
      BY <1>1, <2>1, <2>3 DEF Done
    <3> QED
      BY <1>2, <3>1 DEF InOrder
  <2>4. CASE Going(f)
    <3>1. PICK g, a : OnWay(iter, tree, f, g, a) /\ Stage(f, a)
      BY <2>4 DEF Going
    <3>2. OnWay(iter, tree, f, g, a)' /\ Stage(f, a)'
      BY <1>1, <2>1, <3>1 DEF Stage
    <3>3. Going(f)'
      BY <3>2 DEF Going
    <3> QED
      BY <1>2, <3>3 DEF InOrder
  <2> QED
    BY <2>2, <2>3, <2>4 DEF InOrder
<1> QED
  BY <1>3, <1>4, <1>5

\* Main, as long as nothing has been touched.
LEMMA MainInOrder ==
  ASSUME NEW level \in Layers, IInv(level), IInv(level)', NEW U, NEW f, InOrder(level, U, f), ~touched, ~touched',
         Main \/ Command
  PROVE  InOrder(level, U, f)'
<1>1. ~OpenList /\ ~StepBy /\ ~UpStep /\ ~AltSource /\ ~LoadBehind /\ ~LoadInstead /\ ~Stop /\ ~LoadIdle
  BY DEF OpenList, StepBy, UpStep, AltSource, LoadBehind, LoadInstead, Stop, LoadIdle, Touch
<1>2. ~NoMoreFiles
  BY FileInOrder DEF NoMoreFiles
<1> QED
  BY <1>1, <1>2, LeaveByStepInOrder, LeaveElse, NextReturnedInOrder, GetFileInOrder, FileEndsInOrder
     DEF Main, Command

LEMMA TouchedStays ==
  ASSUME [Next]_vars, touched
  PROVE  touched'
<1>1. CASE Iterate
  BY <1>1 DEF Iterate, StepRoot, StepNode, StepEntry, StepInvalid, StepRound, StepLoop, StepUp, UpEnds, UpGoes,
              DownStep, Walking, history
<1>2. CASE Main
  BY <1>2 DEF Main, LeaveByStep, LeaveByUp, LeaveBySource, LeaveStopped, NextReturned, AgainReturned, GetFile,
              NoMoreFiles, NoMoreEntries, FileEnds, OpenList, ListReturned, ListUpReturned, TryReturned,
              UnwindReturned, HeadReturned, history, Touch
<1>3. CASE Command
  BY <1>3 DEF Command, StepBy, UpStep, AltSource, LoadBehind, LoadInstead, Stop, LoadIdle, ChangeOption, Touch
<1> QED
  BY <1>1, <1>2, <1>3 DEF Next, vars

LEMMA NextInOrder ==
  ASSUME NEW level \in Layers, IInv(level), IInv(level)', NEW U, NEW f, ~touched => InOrder(level, U, f),
         [Next]_vars
  PROVE  (~touched => InOrder(level, U, f))'
<1> SUFFICES ASSUME ~touched' PROVE InOrder(level, U, f)'
  OBVIOUS
<1>1. ~touched /\ InOrder(level, U, f)
  BY TouchedStays
<1>2. CASE Iterate
  BY <1>1, <1>2, IterateInOrder
<1>3. CASE Main \/ Command
  BY <1>1, <1>3, MainInOrder
<1>4. CASE UNCHANGED vars
  <2>1. UNCHANGED <<tree, iter, call, answer, pc, eof, step, at>>
    BY <1>4 DEF vars
  <2>2. Fixed(tree, level, U, f)' /\ (Order = f[Root])' /\ (step = 1)'
    BY <1>1, <2>1, OrderStays DEF InOrder
  <2>3. CASE NotBegun
    <3>1. NotBegun'
      BY <2>1, <2>3 DEF NotBegun
    <3> QED
      BY <2>2, <3>1 DEF InOrder
  <2>4. CASE Done(f)
    <3>1. Done(f)'
      BY <2>1, <2>4 DEF Done
    <3> QED
      BY <2>2, <3>1 DEF InOrder
  <2>5. CASE Going(f)
    <3>1. PICK g, a : OnWay(iter, tree, f, g, a) /\ Stage(f, a)
      BY <2>5 DEF Going
    <3>2. OnWay(iter, tree, f, g, a)' /\ Stage(f, a)'
      BY <2>1, <3>1 DEF Stage
    <3>3. Going(f)'
      BY <3>2 DEF Going
    <3> QED
      BY <2>2, <3>3 DEF InOrder
  <2> QED
    BY <1>1, <2>3, <2>4, <2>5 DEF InOrder
<1> QED
  BY <1>2, <1>3, <1>4 DEF Next

LEMMA InOrderMeans ==
  ASSUME NEW level \in Layers, NEW U, NEW f, ~touched => InOrder(level, U, f)
  PROVE  PlaysAsListed
<1> SUFFICES ASSUME ~touched PROVE PlaysAsListed
  BY DEF PlaysAsListed
<1>1. InOrder(level, U, f) /\ Order = f[Root] /\ Root \notin tree.rnd
  BY DEF InOrder, Fixed
<1>2. ASSUME pc = "play" PROVE at \in DOMAIN Order /\ Here = Order[at]
  <2>1. PICK a : Stage(f, a)
    BY <1>1, <1>2 DEF InOrder, NotBegun, Done, Going
  <2> QED
    BY <1>1, <1>2, <2>1 DEF Stage, Here
<1>3. ASSUME pc \in {"idle", "over"} PROVE at = Len(Order)
  <2>1. ~NotBegun /\ ~Going(f)
    BY <1>3 DEF NotBegun, Going, Stage
  <2> QED
    BY <1>1, <2>1 DEF InOrder, Done
<1> QED
  BY <1>1, <1>2, <1>3 DEF PlaysAsListed

\* A list that is not shuffled, whose groups end.
Listing(t) ==
  /\ t.rnd = {}
  /\ \E U : Proper(t, U) /\ \A n \in U \ {Root} : t.loop[n] >= 0

LEMMA BeginsAt ==
  ASSUME NEW level \in Layers, Tree(tree, level), Init, Stacked(config)
  PROVE  IInv(level)
<1>1. Standing(NewIter, level) /\ NewIter.config /\ Opened(config, NewIter) /\ NewIter # None
  BY NewIterIs
<1>2. iter = NewIter /\ kept = None /\ pc = "first" /\ call.op = "step" /\ eof = 1 /\ step = 1
  BY DEF Init, NoCall
<1>3. IterInv(level)
  BY <1>1, <1>2 DEF IterInv
<1>4. ConfigInv
  BY <1>1, <1>2 DEF ConfigInv
<1>5. CallInv
  BY <1>1, <1>2 DEF CallInv, Asking
<1> QED
  BY <1>3, <1>4, <1>5 DEF IInv

LEMMA BeginsBounded ==
  ASSUME Init
  PROVE  \E deep \in Nat : \E level \in Layers : Bounded(level, deep) /\ IInv(level)
<1>1. /\ tree \in GivenTrees
      /\ \E deep \in 0 .. Cardinality(Nodes) : \E level \in [Nodes -> 0 .. deep] : Layered(tree, level)
  BY PlayTreeAssumption DEF Init
<1>2. PICK deep \in 0 .. Cardinality(Nodes) : \E level \in [Nodes -> 0 .. deep] : Layered(tree, level)
  BY <1>1
<1>3. PICK level \in [Nodes -> 0 .. deep] : Layered(tree, level)
  BY <1>2
<1>4. deep \in Nat /\ Bounded(level, deep) /\ level \in Layers /\ Tree(tree, level)
  <2>1. deep \in Nat
    BY FS_CardinalityType, PlayTreeAssumption
  <2> QED
    BY <1>1, <1>3, <2>1 DEF Bounded, Layers, Tree
<1>5. IInv(level)
  <2>1. Stacked(config)
    BY InvInit, PlaceIs DEF Inv
  <2> QED
    BY <1>4, <2>1, BeginsAt
<1> QED
  BY <1>4, <1>5

LEMMA InOrderInit ==
  ASSUME Init, Listing(tree)
  PROVE  \E level \in Layers : IInv(level) /\ \E U, f : InOrder(level, U, f)
<1>1. Single(tree)
  BY PlayTreeAssumption DEF Init
<1>4. PICK deep \in Nat, level \in Layers : Bounded(level, deep) /\ IInv(level)
  BY BeginsBounded
<1>5. Tree(tree, level)
  BY <1>4 DEF IInv
<1>6. PICK U : Proper(tree, U) /\ \A n \in U \ {Root} : tree.loop[n] >= 0
  BY DEF Listing
<1>7. PICK f : Orders(tree, f) /\ Order = f[Root]
  BY <1>4, <1>5, OrderIs
<1>8. \A n \in U : IsValid(tree, n)
  BY <1>4, <1>5, <1>6, AllValid
<1>9. Fixed(tree, level, U, f)
  BY <1>1, <1>4, <1>5, <1>6, <1>7, <1>8 DEF Fixed, Listing
<1>10. NotBegun /\ step = 1
  BY DEF Init, NotBegun, NoCall
<1>11. InOrder(level, U, f)
  BY <1>7, <1>9, <1>10 DEF InOrder
<1> QED
  BY <1>4, <1>11

(* For every list that is not shuffled, however its groups are nested and however
   often they loop: as long as nobody interferes, the files play in the order the
   list gives, none left out and none twice, an endless list from the beginning
   again, and playing ends where the list does (playtree.c:447-763, mplayer.c:4118-4180). *)
THEOREM PlaysInOrder == Spec /\ Listing(tree) => []PlaysAsListed
<1> DEFINE Both == \E level \in Layers : IInv(level) /\ \E U, f : ~touched => InOrder(level, U, f)
<1>1. Init /\ Listing(tree) => Both
  <2> SUFFICES ASSUME Init, Listing(tree) PROVE Both
    OBVIOUS
  <2>1. PICK level \in Layers : IInv(level) /\ \E U, f : InOrder(level, U, f)
    BY InOrderInit
  <2> QED
    BY <2>1
<1>2. Both /\ [Next]_vars => Both'
  <2> SUFFICES ASSUME NEW level \in Layers, IInv(level), NEW U, NEW f, ~touched => InOrder(level, U, f), [Next]_vars
               PROVE  Both'
    OBVIOUS
  <2>1. IInv(level)'
    BY NextKeepsIt
  <2>2. (~touched => InOrder(level, U, f))'
    BY <2>1, NextInOrder
  <2> QED
    BY <2>1, <2>2
<1>3. Both => PlaysAsListed
  BY InOrderMeans
<1> HIDE DEF Both
<1> QED
  BY <1>1, <1>2, <1>3, PTL DEF Spec

-----------------------------------------------------------------------------
(* A shuffled list. *)

LEMMA Singles ==
  ASSUME NEW T, NEW s \in Pieces(T), \A i \in 1 .. Len(s) : Len(s[i]) = 1
  PROVE  Len(FlattenSeq(s)) = Len(s)
<1> DEFINE n == Len(s)
           For(m) == m <= n => Len(Onward(s, n + 1 - m)) = m
           P == {m \in Nat : For(m)}
<1>1. n \in Nat /\ \A i \in 1 .. n : s[i] \in Seq(T)
  BY PiecesAre
<1>2. 0 \in P
  <2> HIDE DEF n
  <2>1. n + 1 - 0 = n + 1 /\ n + 1 \in 1 .. n + 1
    BY <1>1
  <2>2. Onward(s, n + 1) = << >>
    BY <2>1, OnwardIs DEF n
  <2> QED
    BY <2>1, <2>2
<1>3. ASSUME NEW m \in Nat, m \in P PROVE m + 1 \in P
  <2> SUFFICES ASSUME m + 1 <= n PROVE Len(Onward(s, n + 1 - (m + 1))) = m + 1
    OBVIOUS
  <2> DEFINE i == n - m
  <2>1. i \in 1 .. n /\ i \in 1 .. n + 1 /\ i + 1 \in 1 .. n + 1 /\ n + 1 - (m + 1) = i /\ n + 1 - m = i + 1 /\ i <= n
    BY <1>1
  <2>2. Len(Onward(s, i + 1)) = m
    <3>1. For(m) /\ m <= n
      BY <1>1, <1>3
    <3> QED
      BY <2>1, <3>1
  <2> HIDE DEF i, n
  <2>3. s[i] \in Seq(T) /\ Len(s[i]) = 1
    BY <1>1, <2>1 DEF n
  <2>4. Onward(s, i) = s[i] \o Onward(s, i + 1)
    BY <2>1, OnwardIs DEF n
  <2>5. Onward(s, i + 1) \in Seq(T)
    BY <2>1, OnwardIs DEF n
  <2> DEFINE y == Onward(s, i + 1)   x == s[i]
  <2>6. x \in Seq(T) /\ y \in Seq(T) /\ Len(x) = 1 /\ Len(y) = m
    BY <2>2, <2>3, <2>5
  <2>7. Len(x \o y) = m + 1
    <3> HIDE DEF x, y
    <3>1. Len(x \o y) = Len(x) + Len(y)
      BY <2>6, ConcatProperties
    <3> QED
      BY <2>6, <3>1
  <2> QED
    BY <2>1, <2>4, <2>7
<1> HIDE DEF P
<1>4. n \in P
  BY <1>1, <1>2, <1>3, Induction
<1>5. Len(Onward(s, 1)) = n
  BY <1>1, <1>4 DEF P
<1> DEFINE j == n + 1
<1>6. j \in 1 .. Len(s) + 1
  BY <1>1
<1> HIDE DEF j
<1>7. Onward(s, 1) = FlattenSeq(s)
  BY <1>6, OnwardIs
<1> QED
  BY <1>5, <1>7

Songs(t) == Range(t.kids[Root])

\* A list to shuffle: files in one group that does not count how often it loops.
Deck(t) ==
  /\ Single(t) /\ t.rnd = {Root} /\ t.loop[Root] <= 0
  /\ t.kids[Root] # << >> /\ Proper(t, {Root} \cup Songs(t))
  /\ \A n \in Songs(t) : t.kids[n] = << >>

\* Where the nodes of such a list are.
Dealt(t) ==
  /\ Parent(t, Root) = None /\ Siblings(t, Root) = <<Root>>
  /\ IsValid(t, Root) /\ Files[Root] = 0 /\ Root \notin Songs(t)
  /\ t.kids[Root] \in Seq(Nodes) /\ t.kids[Root] # << >> /\ Head(t.kids[Root]) \in Songs(t)
  /\ Songs(t) \subseteq Nodes /\ IsFiniteSet(Songs(t)) /\ Songs(t) # {}
  /\ \A k \in Songs(t) : /\ Parent(t, k) = Root /\ Siblings(t, k) = t.kids[Root]
                         /\ IsValid(t, k) /\ Files[k] \in Nat /\ Files[k] > 0 /\ t.kids[k] = << >>

LEMMA DeckIs ==
  ASSUME NEW level, NEW deep, Bounded(level, deep), NEW t, Tree(t, level), Deck(t)
  PROVE  Dealt(t)
<1>1. level \in Layers
  BY DEF Bounded, Layers
<1>2. Root \in Nodes /\ t.kids[Root] \in Seq(Nodes) /\ level[Root] = 0
  BY <1>1, TreeFields
<1>3. t.kids[Root] # << >> /\ Head(t.kids[Root]) \in Songs(t)
  BY <1>2, EndsAre DEF Deck, Songs
<1>4. \A k \in Songs(t) : k \in Nodes /\ level[k] = 1
  BY <1>1, <1>2, TreeFields DEF Songs
<1>5. Root \notin Songs(t)
  BY <1>2, <1>4
<1>6. Parent(t, Root) = None
  <2> SUFFICES ASSUME Parent(t, Root) # None PROVE FALSE
    OBVIOUS
  <2>1. Parent(t, Root) \in Nodes /\ level[Root] = level[Parent(t, Root)] + 1
    BY <1>1, ParentIs
  <2>2. level[Parent(t, Root)] \in Nat
    BY <1>1, <2>1 DEF Layers
  <2> QED
    BY <1>2, <2>1, <2>2
<1>7. ASSUME NEW k \in Songs(t)
      PROVE  /\ Parent(t, k) = Root /\ Siblings(t, k) = t.kids[Root]
             /\ IsValid(t, k) /\ Files[k] \in Nat /\ Files[k] > 0 /\ t.kids[k] = << >>
  <2>1. Parent(t, k) # None
    BY <1>2, ParentNone DEF Songs
  <2>2. Parent(t, k) \in Nodes /\ k \in Range(t.kids[Parent(t, k)])
    BY <1>1, <2>1, ParentIs
  <2>3. Parent(t, k) = Root
    BY <1>2, <2>2 DEF Deck, Single, Songs
  <2>4. Siblings(t, k) = t.kids[Root]
    BY <2>1, <2>3 DEF Siblings
  <2>5. IsValid(t, k)
    BY AllValid DEF Deck
  <2>6. t.kids[k] = << >> /\ Files[k] > 0
    BY DEF Deck, Proper
  <2>7. Files[k] \in Nat
    BY <1>4, PlayTreeAssumption
  <2> QED
    BY <2>3, <2>4, <2>5, <2>6, <2>7
<1>8. IsValid(t, Root)
  BY AllValid DEF Deck
<1>9. Files[Root] = 0
  <2>1. ~(Files[Root] > 0)
    BY <1>3 DEF Deck, Proper
  <2>2. Files[Root] \in Nat
    BY PlayTreeAssumption
  <2> QED
    BY <2>1, <2>2
<1>10. IsFiniteSet(Songs(t)) /\ Songs(t) \subseteq Nodes
  <2>1. Songs(t) \subseteq Nodes
    BY <1>4
  <2> QED
    BY <2>1, FS_Subset, PlayTreeAssumption
<1>11. Siblings(t, Root) = <<Root>>
  BY <1>6 DEF Siblings
<1> QED
  BY <1>2, <1>3, <1>5, <1>6, <1>7, <1>8, <1>9, <1>10, <1>11 DEF Dealt

\* A list of n songs plays n of them.
LEMMA SongsCounted ==
  ASSUME NEW level, NEW deep, Bounded(level, deep), Tree(tree, level), Deck(tree)
  PROVE  Len(Order) = Cardinality(Songs(tree))
<1> DEFINE s == tree.kids[Root]
<1>1. Dealt(tree)
  BY DeckIs
<1>2. s \in Seq(Nodes) /\ Len(s) \in Nat /\ DOMAIN s = 1 .. Len(s) /\ Root \in Nodes
  BY <1>1, PlayTreeAssumption DEF Dealt
<1>3. PICK f : Orders(tree, f) /\ Order = f[Root]
  BY OrderIs
<1> DEFINE e == Each(tree.kids, f, Root)
<1>4. e \in Pieces(Nodes) /\ Len(e) = Len(s) /\ \A i \in 1 .. Len(s) : e[i] = f[s[i]]
  <2>1. tree.kids \in [Nodes -> Seq(Nodes)]
    <3>1. level \in Layers
      BY DEF Bounded, Layers
    <3> QED
      BY <3>1, TreeFields
  <2>2. f \in [Nodes -> Seq(Nodes)]
    BY <1>3 DEF Orders
  <2>3. s = tree.kids[Root] /\ Root \in Nodes
    BY <1>2
  <2> QED
    BY <2>1, <2>2, <2>3, EachPieces
<1>5. \A i \in 1 .. Len(e) : Len(e[i]) = 1
  <2> SUFFICES ASSUME NEW i \in 1 .. Len(s) PROVE Len(f[s[i]]) = 1
    BY <1>4
  <2>1. s[i] \in Songs(tree) /\ s[i] \in Nodes
    BY <1>2 DEF Songs, Range
  <2>2. Files[s[i]] > 0
    BY <1>1, <2>1 DEF Dealt
  <2>3. f[s[i]] = <<s[i]>>
    BY <1>3, <2>1, <2>2 DEF Orders
  <2> QED
    BY <2>3
<1>6. Len(FlattenSeq(e)) = Len(s)
  <2> HIDE DEF e, s
  <2> QED
    BY <1>4, <1>5, Singles
<1>7. Order = FlattenSeq(e)
  <2> DEFINE x == FlattenSeq(e)
  <2>1. Order = Again(x, 1)
    <3>1. Files[Root] = 0 /\ ~(Files[Root] > 0)
      BY <1>1 DEF Dealt
    <3>2. (IF tree.loop[Root] > 1 THEN tree.loop[Root] ELSE 1) = 1
      <4>1. tree.loop[Root] <= 0 /\ tree.loop[Root] \in Int
        <5>1. level \in Layers
          BY DEF Bounded, Layers
        <5> QED
          BY <1>2, <5>1, TreeFields DEF Deck
      <4> QED
        BY <4>1
    <3>3. f[Root] = Again(Once(tree, f, Root), IF tree.loop[Root] > 1 THEN tree.loop[Root] ELSE 1)
      BY <1>2, <1>3, <3>1 DEF Orders
    <3> QED
      BY <1>3, <3>2, <3>3 DEF Once
  <2>2. x \in Seq(Nodes)
    <3> HIDE DEF e
    <3> QED
      BY <1>4, FlattenType
  <2> HIDE DEF x
  <2> DEFINE i == 1   j == i - 1
  <2>3. i \in Int /\ i > 0 /\ j \in Int /\ j <= 0
    OBVIOUS
  <2>4. Order = Again(x, i)
    BY <2>1
  <2> HIDE DEF i
  <2>5. Again(x, i) = x \o Again(x, j)
    BY <2>2, <2>3, AgainIs
  <2> HIDE DEF j
  <2>6. Again(x, j) = << >>
    BY <2>2, <2>3, AgainIs
  <2>7. x \o << >> = x
    BY <2>2, ConcatEmptySeq
  <2> QED
    BY <2>4, <2>5, <2>6, <2>7 DEF x
<1>8. Cardinality(Songs(tree)) = Len(s)
  <2>1. \A i, j \in DOMAIN s : s[i] = s[j] => i = j
    BY DEF Deck, Proper
  <2> DEFINE D == 1 .. Len(s)   R == Songs(tree)
  <2>2. s \in Bijection(D, R)
    <3>1. s \in [D -> R] /\ R = {s[i] : i \in D}
      <4> HIDE DEF s
      <4>1. R = {s[i] : i \in D}
        BY <1>2 DEF Songs, Range, s
      <4>2. s = [i \in D |-> s[i]]
        BY <1>2
      <4> QED
        BY <4>1, <4>2
    <3> HIDE DEF R
    <3> QED
      BY <1>2, <2>1, <3>1 DEF Bijection, Injection, Surjection, IsInjective
  <2>3. IsFiniteSet(D) /\ Cardinality(D) = Len(s)
    BY <1>2, FS_Interval
  <2> HIDE DEF D, R, s
  <2>4. ExistsBijection(D, R)
    BY <2>2 DEF ExistsBijection
  <2>5. Cardinality(R) = Cardinality(D)
    BY <2>3, <2>4, FS_Bijection
  <2> QED
    BY <2>3, <2>5 DEF R
<1> QED
  BY <1>6, <1>7, <1>8

\* The songs that were played in this round.
Gone == Songs(tree) \cap tree.played

\* What has been heard is what is marked played, but for the songs S that are
\* marked and not heard yet, or the list begins again.
Round(S) ==
  \/ heard = Gone \ S
  \/ tree.loop[Root] < 0 /\ heard = Songs(tree) /\ Gone = S

\* Above the songs, among them, at one that is to play, at one that plays, and at
\* the end.
Above ==
  /\ pc = "first" /\ call.op \in {"step", "down"} /\ call.d = 0 /\ ~call.nodes
  /\ iter # None /\ iter.tree \in {None, Root} /\ (call.op = "down" => iter.tree = Root)
  /\ heard = {} /\ Gone = {}
Choosing ==
  /\ pc \in {"first", "next"} /\ call.op = "step" /\ ~call.nodes
  /\ iter # None /\ iter.tree \in Songs(tree) /\ Round({})
Chosen ==
  /\ \/ pc \in {"first", "next"} /\ answer = "entry"
     \/ pc = "file"
  /\ call.op = "none" /\ iter # None
  /\ iter.tree \in Gone /\ iter.file = -1 /\ iter.num = Files[iter.tree] /\ Round({iter.tree})
Sounding ==
  /\ pc \in {"play", "leave"} /\ call.op = "none" /\ (pc = "leave" => eof = 1)
  /\ iter # None /\ iter.tree \in Songs(tree) /\ heard = Gone
Silent ==
  /\ \/ pc \in {"first", "next"} /\ answer # "entry"
     \/ pc \in {"file", "idle", "over"} /\ iter = None
  /\ call.op = "none" /\ heard = Songs(tree)

\* Until a command interferes, a shuffled list plays round after round.
Shuffles ==
  /\ Deck(tree) /\ step = 1 /\ heard \subseteq Songs(tree) /\ at = Cardinality(heard)
  /\ Above \/ Choosing \/ Chosen \/ Sounding \/ Silent

LEMMA RoundGoes ==
  ASSUME tree' = tree, heard' = heard
  PROVE  /\ Songs(tree)' = Songs(tree) /\ Gone' = Gone /\ \A S : Round(S)' <=> Round(S)
BY DEF Songs, Gone, Round

\* Where a step can lead.
LEMMA Lead ==
  ASSUME NEW level, NEW deep, Bounded(level, deep), IInv(level), Shuffles, Stepping
  PROVE  /\ Dealt(tree) /\ iter \in Iterators /\ iter.config /\ pc \in {"first", "next"} /\ kept = None
         /\ ~call.nodes
         /\ \/ Above /\ Here = Root /\ ~Random /\ Targets = {Root} /\ Rest = 0
            \/ Choosing /\ Here \in Songs(tree) /\ Random /\ Targets = Songs(tree) \ Gone
<1>1. level \in Layers /\ call.op = "step" /\ Here # None
  BY DEF Bounded, Layers, Stepping
<1>2. iter \in Iterators /\ Tree(tree, level) /\ (iter.config <=> kept = None)
  BY <1>1, CallIs
<1>3. Dealt(tree) /\ tree.rnd = {Root}
  BY <1>2, DeckIs DEF Shuffles, Deck
<1>4. Above \/ Choosing
  BY <1>1 DEF Shuffles, Chosen, Sounding, Silent
<1>5. pc \in {"first", "next"} /\ ~call.nodes
  BY <1>4 DEF Above, Choosing
<1>6. kept = None
  BY <1>5 DEF IInv, CallInv
<1>7. CASE Above
  <2>1. Here = Root /\ call.d = 0
    BY <1>1, <1>7 DEF Above, Here
  <2>2. Parent(tree, Root) = None /\ Siblings(tree, Root) = <<Root>>
    BY <1>3 DEF Dealt
  <2>3. ~Random
    BY <1>3, <2>1, <2>2, PlayTreeAssumption DEF Random
  <2>4. Place = 1
    <3>1. IndexOf(<<Root>>, Root) = 1
      BY DEF IndexOf
    <3> QED
      BY <2>1, <2>2, <3>1 DEF Place
  <2>5. Targets = {Root}
    BY <2>1, <2>2, <2>3, <2>4 DEF Targets
  <2>6. Rest = 0
    BY <2>1, <2>3 DEF Rest
  <2> QED
    BY <1>2, <1>3, <1>5, <1>6, <1>7, <2>1, <2>3, <2>5, <2>6
<1>8. CASE Choosing
  <2>1. Here \in Songs(tree)
    BY <1>8 DEF Choosing, Here
  <2>2. Parent(tree, Here) = Root /\ Siblings(tree, Here) = tree.kids[Root]
    BY <1>3, <2>1 DEF Dealt
  <2>3. Random
    BY <1>3, <2>2 DEF Random
  <2>4. Targets = Songs(tree) \ Gone
    BY <2>2, <2>3 DEF Targets, Unplayed, Songs, Gone
  <2> QED
    BY <1>2, <1>3, <1>5, <1>6, <1>8, <2>1, <2>3, <2>4
<1> QED
  BY <1>4, <1>7, <1>8

LEMMA ShuffleRoot ==
  ASSUME NEW level, NEW deep, Bounded(level, deep), IInv(level), Shuffles, StepRoot
  PROVE  Shuffles'
<1>1. call.op = "step" /\ iter.tree = None /\ iter' = [iter EXCEPT !.tree = Root] /\ tree' = tree
      /\ call' = [op |-> "step", d |-> 0, nodes |-> call.nodes] /\ UNCHANGED <<pc, step, at, heard>>
  BY DEF StepRoot, Here, GoOn, Call, Walking, history
<1>2. level \in Layers
  BY DEF Bounded, Layers
<1>3. iter \in Iterators /\ Tree(tree, level)
  BY <1>1, <1>2, CallIs
<1>4. Dealt(tree)
  BY <1>3, DeckIs DEF Shuffles
<1>5. Above
  <2>1. None \notin Songs(tree)
    BY <1>4, PlayTreeAssumption DEF Dealt
  <2> QED
    BY <1>1, <2>1 DEF Shuffles, Choosing, Chosen, Sounding, Silent
<1>6. iter' \in Iterators /\ iter' # None /\ iter'.tree = Root
  <2>1. iter' \in Iterators /\ iter'.tree = Root
    BY <1>1, <1>3, IterExcept, PlayTreeAssumption DEF Iterators
  <2> QED
    BY <2>1, IterFields
<1>7. Above'
  BY <1>1, <1>5, <1>6, RoundGoes DEF Above
<1> QED
  BY <1>1, <1>7, RoundGoes DEF Shuffles

LEMMA ShuffleNode ==
  ASSUME NEW level, NEW deep, Bounded(level, deep), IInv(level), Shuffles, StepNode
  PROVE  Shuffles'
<1>1. Stepping /\ tree' = tree /\ UNCHANGED <<pc, step, at, heard>>
  BY DEF StepNode, Walking, history
<1>2. Dealt(tree) /\ iter \in Iterators /\ ~call.nodes
  BY <1>1, Lead
<1>3. PICK n \in Targets : HasValidChild(n) /\ iter' = [Settled EXCEPT !.tree = n]
  BY DEF StepNode
<1>4. Above /\ n = Root /\ Rest = 0
  <2>1. n \notin Songs(tree)
    BY <1>2, <1>3 DEF HasValidChild, Dealt
  <2> QED
    BY <1>1, <1>3, <2>1, Lead
<1>5. call' = [op |-> "down", d |-> 0, nodes |-> FALSE]
  BY <1>2, <1>4 DEF StepNode, GoOn, Call
<1>6. iter' # None /\ iter'.tree = Root
  <2>1. Settled \in Iterators
    BY <1>2, SettledIs
  <2> HIDE DEF Settled
  <2>2. iter' \in Iterators /\ iter'.tree = Root
    BY <1>3, <1>4, <2>1, IterExcept, PlayTreeAssumption DEF Iterators
  <2> QED
    BY <2>2, IterFields
<1>7. Above'
  BY <1>1, <1>4, <1>5, <1>6, RoundGoes DEF Above
<1> QED
  BY <1>1, <1>7, RoundGoes DEF Shuffles

LEMMA ShuffleDown ==
  ASSUME NEW level, NEW deep, Bounded(level, deep), IInv(level), Shuffles, DownStep
  PROVE  Shuffles'
<1>1. call.op = "down" /\ tree' = tree /\ UNCHANGED <<pc, step, at, heard>>
      /\ call' = [op |-> "step", d |-> 0, nodes |-> call.nodes]
  BY DEF DownStep, GoOn, Call, Walking, history
<1>2. level \in Layers
  BY DEF Bounded, Layers
<1>3. iter \in Iterators /\ Tree(tree, level) /\ Dealt(tree)
  BY <1>1, <1>2, CallIs, DeckIs DEF Shuffles
<1>4. Above
  BY <1>1 DEF Shuffles, Choosing, Chosen, Sounding, Silent
<1>5. iter.tree = Root /\ call.d = 0 /\ pc = "first" /\ ~call.nodes /\ heard = {} /\ Gone = {}
  BY <1>1, <1>4 DEF Above
<1>6. iter' # None /\ iter'.tree = Head(tree.kids[Root])
  <2> DEFINE s == Append(iter.stack, iter.loop)   l == tree.loop[Here] - 1   e == -1
             k == IF call.d >= 0 THEN Head(tree.kids[Here]) ELSE Last(tree.kids[Here])
             it1 == [iter EXCEPT !.file = e]   it2 == [it1 EXCEPT !.stack = s]
             it3 == [it2 EXCEPT !.loop = l]   it4 == [it3 EXCEPT !.tree = k]
  <2>1. iter' = [iter EXCEPT !.file = e, !.stack = s, !.loop = l, !.tree = k]
    BY DEF DownStep
  <2>2. k = Head(tree.kids[Root]) /\ k \in Nodes
    BY <1>3, <1>5 DEF Here, Dealt
  <2>3. s \in Seq(Int) /\ l \in Int /\ e \in Int
    <3>1. iter.stack \in Seq(Int) /\ iter.loop \in Int
      BY <1>3, IterFields
    <3>2. tree.loop[Root] \in Int
      BY <1>2, <1>3, TreeFields
    <3> QED
      BY <1>5, <3>1, <3>2 DEF Here
  <2> HIDE DEF s, l, e, k
  <2>4. iter' = it4
    BY <2>1
  <2>5. it1 \in Iterators
    BY <1>3, <2>3, IterExcept
  <2> HIDE DEF it1
  <2>6. it2 \in Iterators
    BY <2>3, <2>5, IterExcept
  <2> HIDE DEF it2
  <2>7. it3 \in Iterators
    BY <2>3, <2>6, IterExcept
  <2> HIDE DEF it3
  <2>8. it4 \in Iterators /\ it4.tree = k
    BY <2>2, <2>7, IterExcept DEF Iterators
  <2> QED
    BY <2>2, <2>4, <2>8, IterFields
<1>7. iter'.tree \in Songs(tree)
  BY <1>3, <1>6 DEF Dealt
<1>8. Round({})
  BY <1>5 DEF Round
<1>9. Choosing'
  BY <1>1, <1>5, <1>6, <1>7, <1>8, RoundGoes DEF Choosing
<1> QED
  BY <1>1, <1>9, RoundGoes DEF Shuffles

\* A tree with other marks.
LEMMA DeckKeeps ==
  ASSUME NEW t, Deck(t), NEW u, u.kids = t.kids, u.rnd = t.rnd, u.loop = t.loop
  PROVE  Deck(u) /\ Songs(u) = Songs(t)
BY DEF Deck, Songs, Single, Proper

LEMMA ShuffleEntry ==
  ASSUME NEW level, NEW deep, Bounded(level, deep), IInv(level), Shuffles, StepEntry
  PROVE  Shuffles'
<1>1. Stepping /\ UNCHANGED <<pc, step, at, heard>> /\ call' = NoCall /\ answer' = "entry"
  BY DEF StepEntry, Return, Walking, history
<1>2. Dealt(tree) /\ iter \in Iterators /\ pc \in {"first", "next"} /\ iter.config
  BY <1>1, Lead
<1> DEFINE It(n) == [Settled EXCEPT !.tree = n, !.num = Files[n], !.pushed = @ \/ iter.config]
<1>3. PICK n \in Targets : Files[n] > 0 /\ iter' = It(n) /\ MarkPlayed(n)
  BY DEF StepEntry
<1>4. Choosing /\ n \in Songs(tree) \ Gone /\ Random
  <2>1. n # Root
    BY <1>2, <1>3 DEF Dealt
  <2> QED
    BY <1>1, <1>3, <2>1, Lead
<1>5. n \in Nodes /\ Files[n] \in Nat
  BY <1>2, <1>4 DEF Dealt
<1>6. iter' # None /\ iter'.tree = n /\ iter'.num = Files[n] /\ iter'.file = -1
  <2> DEFINE p == Settled.pushed \/ iter.config   x == Files[n]
             it1 == [Settled EXCEPT !.tree = n]   it2 == [it1 EXCEPT !.num = x]   it3 == [it2 EXCEPT !.pushed = p]
  <2>1. Settled \in Iterators /\ Settled.file = -1
    BY <1>2, SettledIs
  <2>2. p \in BOOLEAN /\ x \in Nat
    BY <1>5
  <2>3. iter' = [Settled EXCEPT !.tree = n, !.num = x, !.pushed = p]
    BY <1>3
  <2> HIDE DEF Settled, p, x
  <2>4. iter' = it3
    BY <2>3
  <2>5. it1 \in Iterators /\ it1.file = -1 /\ it1.tree = n
    BY <1>5, <2>1, IterExcept DEF Iterators
  <2> HIDE DEF it1
  <2>6. it2 \in Iterators /\ it2.file = -1 /\ it2.tree = n /\ it2.num = x
    BY <2>2, <2>5, IterExcept DEF Iterators
  <2> HIDE DEF it2
  <2>7. it3 \in Iterators /\ it3.file = -1 /\ it3.tree = n /\ it3.num = x
    BY <2>2, <2>6, IterExcept DEF Iterators
  <2> HIDE DEF it3
  <2> QED
    BY <2>4, <2>7, IterFields DEF x
<1>7. tree' = [tree EXCEPT !.played = tree.played \cup {n}]
  BY <1>2, <1>3, <1>4 DEF MarkPlayed
<1>8. tree'.kids = tree.kids /\ tree'.rnd = tree.rnd /\ tree'.loop = tree.loop /\ tree'.played = tree.played \cup {n}
  <2>1. tree \in GivenTrees
    BY DEF IInv, Tree
  <2> QED
    BY <1>7, <2>1 DEF GivenTrees
<1>9. Deck(tree') /\ Songs(tree') = Songs(tree)
  BY <1>8, DeckKeeps DEF Shuffles
<1>10. Gone' = Gone \cup {n} /\ n \notin Gone
  BY <1>4, <1>8, <1>9 DEF Gone
<1>11. Round({n})'
  <2>1. Songs(tree)' = Songs(tree) /\ heard' = heard /\ tree'.loop = tree.loop
    BY <1>1, <1>8, <1>9
  <2>2. Round({})
    BY <1>4 DEF Choosing
  <2>3. CASE heard = Gone \ {}
    BY <1>10, <2>1, <2>3 DEF Round
  <2>4. CASE tree.loop[Root] < 0 /\ heard = Songs(tree) /\ Gone = {}
    BY <1>10, <2>1, <2>4 DEF Round
  <2> QED
    BY <2>2, <2>3, <2>4 DEF Round
<1>12. Chosen'
  BY <1>1, <1>2, <1>6, <1>10, <1>11 DEF Chosen, NoCall
<1> QED
  BY <1>1, <1>9, <1>12 DEF Shuffles

LEMMA ShuffleRound ==
  ASSUME NEW level, NEW deep, Bounded(level, deep), IInv(level), Shuffles, StepRound
  PROVE  Shuffles'
<1>1. Stepping /\ Targets = {} /\ iter' = Settled /\ UNCHANGED <<pc, step, at, heard>>
  BY DEF StepRound, Walking, history
<1>2. Dealt(tree) /\ iter \in Iterators /\ pc \in {"first", "next"} /\ ~call.nodes
  BY <1>1, Lead
<1>3. Choosing /\ Here \in Songs(tree) /\ Gone = Songs(tree)
  <2>1. Choosing /\ Here \in Songs(tree) /\ Targets = Songs(tree) \ Gone
    BY <1>1, Lead
  <2> QED
    BY <1>1, <2>1 DEF Gone
<1>4. heard = Songs(tree)
  <2>1. Gone # {}
    BY <1>2, <1>3 DEF Dealt
  <2> QED
    BY <1>3, <2>1 DEF Choosing, Round
<1>5. iter' # None /\ iter'.tree = Here
  BY <1>1, <1>2, SettledIs, IterFields DEF Here
<1>6. CASE tree.loop[Root] = 0
  <2>1. tree' = tree /\ call' = NoCall /\ answer' = "end"
    BY <1>6 DEF StepRound, Return
  <2>2. Silent'
    BY <1>1, <1>2, <1>4, <2>1 DEF Silent, NoCall
  <2> QED
    BY <1>1, <2>1, <2>2 DEF Shuffles
<1>7. CASE tree.loop[Root] # 0
  <2>1. tree.loop[Root] < 0 /\ tree.loop[Root] \in Int /\ tree \in GivenTrees
    <3>1. tree \in GivenTrees /\ tree.loop[Root] <= 0
      BY DEF IInv, Tree, Shuffles, Deck
    <3>2. tree.loop[Root] \in Int
      BY <3>1, PlayTreeAssumption DEF GivenTrees
    <3> QED
      BY <1>7, <3>1, <3>2
  <2>2. tree' = [tree EXCEPT !.played = {}, !.loop[Root] = IF @ > 0 THEN @ - 1 ELSE @]
    BY <1>7 DEF StepRound
  <2>3. call' = [op |-> "step", d |-> 0, nodes |-> FALSE]
    BY <1>2, <1>7 DEF StepRound, GoOn, Call
  <2>4. tree'.kids = tree.kids /\ tree'.rnd = tree.rnd /\ tree'.loop = tree.loop /\ tree'.played = {}
    <3> DEFINE x == IF tree.loop[Root] > 0 THEN tree.loop[Root] - 1 ELSE tree.loop[Root]
    <3>1. x = tree.loop[Root]
      BY <2>1
    <3>2. tree' = [tree EXCEPT !.played = {}, !.loop[Root] = x]
      BY <2>2
    <3> HIDE DEF x
    <3>3. tree.loop \in [Nodes -> Int]
      BY <2>1 DEF GivenTrees
    <3>4. tree'.kids = tree.kids /\ tree'.rnd = tree.rnd /\ tree'.played = {}
          /\ tree'.loop = [tree.loop EXCEPT ![Root] = x]
      BY <2>1, <3>2 DEF GivenTrees
    <3> QED
      BY <3>1, <3>3, <3>4
  <2>5. Deck(tree') /\ Songs(tree') = Songs(tree)
    BY <2>4, DeckKeeps DEF Shuffles
  <2>6. Gone' = {}
    BY <2>4 DEF Gone
  <2>7. Round({})'
    BY <1>1, <1>4, <2>1, <2>4, <2>5, <2>6 DEF Round
  <2>8. Choosing'
    BY <1>1, <1>2, <1>3, <1>5, <2>3, <2>5, <2>7 DEF Choosing
  <2> QED
    BY <1>1, <2>5, <2>8 DEF Shuffles
<1> QED
  BY <1>6, <1>7

\* The other steps need a group in the list, or an end of one.
LEMMA ShuffleElse ==
  ASSUME NEW level, NEW deep, Bounded(level, deep), IInv(level), Shuffles
  PROVE  ~StepInvalid /\ ~StepLoop /\ ~StepUp /\ ~UpEnds /\ ~UpGoes
<1>1. call.op # "up"
  BY DEF Shuffles, Above, Choosing, Chosen, Sounding, Silent
<1>2. Stepping /\ Targets = {} => Random
  BY Lead
<1>3. ASSUME Stepping, NEW n \in Targets PROVE IsValid(tree, n)
  <2>1. Dealt(tree) /\ (n = Root \/ n \in Songs(tree))
    BY <1>3, Lead
  <2> QED
    BY <2>1 DEF Dealt
<1> QED
  BY <1>1, <1>2, <1>3 DEF StepInvalid, StepLoop, StepUp, UpEnds, UpGoes

LEMMA IterateShuffles ==
  ASSUME NEW level, NEW deep, Bounded(level, deep), IInv(level), Shuffles, Iterate
  PROVE  Shuffles'
BY ShuffleRoot, ShuffleNode, ShuffleEntry, ShuffleRound, ShuffleDown, ShuffleElse DEF Iterate

LEMMA HearShuffled ==
  ASSUME NEW level, NEW deep, Bounded(level, deep), IInv(level), IInv(level)', Shuffles, ~touched, GetFile
  PROVE  Shuffles'
<1>1. pc = "file" /\ iter # None /\ pc' = "play" /\ iter' = [iter EXCEPT !.file = NextFile] /\ Hear
      /\ UNCHANGED <<tree, call, step>>
  BY DEF GetFile
<1>2. level \in Layers
  BY DEF Bounded, Layers
<1>3. iter \in Iterators /\ Tree(tree, level)
  BY <1>1, <1>2, PlaceIs
<1>4. Chosen /\ Deck(tree) /\ step = 1 /\ heard \subseteq Songs(tree) /\ at = Cardinality(heard)
  BY <1>1 DEF Shuffles, Above, Choosing, Sounding, Silent
<1>5. Dealt(tree) /\ Len(Order) = Cardinality(Songs(tree))
  BY <1>3, <1>4, DeckIs, SongsCounted
<1> DEFINE m == iter.tree   K == Songs(tree)   c == Cardinality(heard)   d == Cardinality(K)
<1>6. m \in Gone /\ m \in K /\ Gone \subseteq K /\ call.op = "none" /\ iter.file = -1 /\ Round({m})
  BY <1>4 DEF Chosen, Gone
<1>7. /\ at' = IF c = d /\ tree.loop[Root] < 0 THEN 1 ELSE c + 1
      /\ heard' = IF c = d THEN {m} ELSE heard \cup {m}
  BY <1>1, <1>4, <1>5, <1>6 DEF Hear, Here
<1>8. IsFiniteSet(heard) /\ IsFiniteSet(K) /\ c \in Nat /\ d \in Nat /\ (c = d => heard = K)
  <2>1. IsFiniteSet(K)
    BY <1>5 DEF Dealt
  <2> HIDE DEF K
  <2>2. heard \in SUBSET K
    BY <1>4 DEF K
  <2> QED
    BY <2>1, <2>2, FS_Subset, FS_CardinalityType
<1>9. heard' = Gone /\ at' = Cardinality(heard')
  <2>1. CASE heard = Gone \ {m}
    <3>1. m \notin heard /\ heard # K /\ c # d
      BY <1>6, <1>8, <2>1
    <3>2. heard' = heard \cup {m} /\ at' = c + 1
      BY <1>7, <3>1
    <3>3. Cardinality(heard \cup {m}) = c + 1
      BY <1>8, <3>1, FS_AddElement
    <3> QED
      BY <1>6, <2>1, <3>2, <3>3
  <2>2. CASE tree.loop[Root] < 0 /\ heard = K /\ Gone = {m}
    <3>1. heard' = {m} /\ at' = 1
      BY <1>7, <2>2
    <3>2. Cardinality({m}) = 1
      BY FS_Singleton
    <3> QED
      BY <2>2, <3>1, <3>2
  <2> QED
    BY <1>6, <2>1, <2>2 DEF Round
<1>10. iter' # None /\ iter'.tree = m
  <2>1. iter' # None
    BY <1>1 DEF IInv, CallInv
  <2> DEFINE x == NextFile
  <2>2. iter' = [iter EXCEPT !.file = x]
    BY <1>1
  <2> HIDE DEF x
  <2> QED
    BY <1>3, <2>1, <2>2 DEF Iterators
<1>11. Sounding'
  BY <1>1, <1>6, <1>9, <1>10 DEF Sounding, Gone, Songs
<1>12. heard' \subseteq Songs(tree)'
  BY <1>1, <1>6, <1>9
<1> QED
  BY <1>1, <1>4, <1>9, <1>11, <1>12 DEF Shuffles

LEMMA NextShuffled ==
  ASSUME NEW level, NEW deep, Bounded(level, deep), IInv(level), Shuffles, ~touched, NextReturned
  PROVE  Shuffles'
<1>1. pc \in {"first", "next"} /\ call.op = "none" /\ pc' = "file" /\ step' = 1
      /\ iter' = (IF answer = "entry" THEN iter ELSE None) /\ UNCHANGED <<tree, call, at, heard>>
  BY DEF NextReturned, KeepIfEntry, Returned, history
<1>2. (Chosen /\ answer = "entry") \/ (Silent /\ answer # "entry")
  BY <1>1 DEF Shuffles, Above, Choosing, Chosen, Sounding, Silent
<1>3. CASE Chosen /\ answer = "entry"
  <2>1. Chosen'
    BY <1>1, <1>3, RoundGoes DEF Chosen
  <2> QED
    BY <1>1, <2>1, RoundGoes DEF Shuffles
<1>4. CASE Silent /\ answer # "entry"
  <2>1. Silent'
    BY <1>1, <1>4, RoundGoes DEF Silent
  <2> QED
    BY <1>1, <2>1, RoundGoes DEF Shuffles
<1> QED
  BY <1>2, <1>3, <1>4

LEMMA LeaveShuffled ==
  ASSUME Shuffles, LeaveByStep
  PROVE  Shuffles'
<1>1. pc = "leave" /\ pc' = "next" /\ call' = [op |-> "step", d |-> step, nodes |-> FALSE]
      /\ UNCHANGED <<tree, iter, step, at, heard>>
  BY DEF LeaveByStep, Call, world, history
<1>2. Sounding
  BY <1>1 DEF Shuffles, Above, Choosing, Chosen, Silent
<1>3. Round({})
  BY <1>2 DEF Sounding, Round
<1>4. Choosing'
  BY <1>1, <1>2, <1>3, RoundGoes DEF Sounding, Choosing
<1> QED
  BY <1>1, <1>4, RoundGoes DEF Shuffles

LEMMA EndsShuffled ==
  ASSUME Shuffles, FileEnds \/ NoMoreEntries \/ ChangeOption \/ UNCHANGED vars
  PROVE  Shuffles'
<1>1. UNCHANGED <<tree, iter, call, answer, step, at, heard>>
  BY DEF FileEnds, NoMoreEntries, ChangeOption, Leave, world, history, vars
<1>2. CASE FileEnds
  <2>1. pc = "play" /\ pc' = "leave" /\ eof' = 1
    BY <1>2 DEF FileEnds, Playing, Leave
  <2>2. Sounding
    BY <2>1 DEF Shuffles, Above, Choosing, Chosen, Silent
  <2>3. Sounding'
    BY <1>1, <2>1, <2>2, RoundGoes DEF Sounding
  <2> QED
    BY <1>1, <2>3, RoundGoes DEF Shuffles
<1>3. CASE NoMoreEntries
  <2>1. pc = "file" /\ iter = None /\ pc' \in {"idle", "over"}
    BY <1>3 DEF NoMoreEntries
  <2>2. Silent
    BY <2>1 DEF Shuffles, Above, Choosing, Chosen, Sounding
  <2>3. Silent'
    BY <1>1, <2>1, <2>2, RoundGoes DEF Silent
  <2> QED
    BY <1>1, <2>3, RoundGoes DEF Shuffles
<1>4. CASE ChangeOption \/ UNCHANGED vars
  <2>1. UNCHANGED <<pc, eof>>
    BY <1>4 DEF ChangeOption, vars
  <2>2. /\ Above => Above'
        /\ Choosing => Choosing'
        /\ Chosen => Chosen'
        /\ Sounding => Sounding'
        /\ Silent => Silent'
    BY <1>1, <2>1, RoundGoes DEF Above, Choosing, Chosen, Sounding, Silent
  <2> QED
    BY <1>1, <2>2, RoundGoes DEF Shuffles
<1> QED
  BY <1>2, <1>3, <1>4

\* A command, or a list that is one file of the list, would have to come first.
LEMMA MainElse ==
  ASSUME NEW level, NEW deep, Bounded(level, deep), IInv(level), Shuffles, ~touched'
  PROVE  /\ ~LeaveByUp /\ ~LeaveBySource /\ ~LeaveStopped /\ ~AgainReturned /\ ~NoMoreFiles /\ ~OpenList
         /\ ~ListReturned /\ ~ListUpReturned /\ ~TryReturned /\ ~UnwindReturned /\ ~HeadReturned
         /\ ~StepBy /\ ~UpStep /\ ~AltSource /\ ~LoadBehind /\ ~LoadInstead /\ ~Stop /\ ~LoadIdle
<1>1. ~OpenList /\ ~StepBy /\ ~UpStep /\ ~AltSource /\ ~LoadBehind /\ ~LoadInstead /\ ~Stop /\ ~LoadIdle
  BY DEF OpenList, StepBy, UpStep, AltSource, LoadBehind, LoadInstead, Stop, LoadIdle, Touch
<1>2. pc \in {"first", "next", "file", "play", "leave", "idle", "over"} /\ (pc = "leave" => eof = 1)
  BY DEF Shuffles, Above, Choosing, Chosen, Sounding, Silent
<1>3. pc = "leave" => eof \notin {3, -3} /\ eof \notin {2, -2} /\ eof # 4
  BY <1>2
<1>4. ASSUME pc = "file", iter # None PROVE ~Refused
  <2>1. Chosen
    BY <1>4 DEF Shuffles, Above, Choosing, Sounding, Silent
  <2>2. level \in Layers
    BY DEF Bounded, Layers
  <2>3. Dealt(tree)
    BY <2>2, PlaceIs, DeckIs DEF Shuffles
  <2>4. iter.file = -1 /\ iter.num \in Nat /\ iter.num > 0
    BY <2>1, <2>3 DEF Chosen, Gone, Dealt
  <2> QED
    BY <2>4 DEF Refused
<1> QED
  BY <1>1, <1>2, <1>3, <1>4, Zenon DEF LeaveByUp, LeaveBySource, LeaveStopped, AgainReturned, NoMoreFiles, ListReturned,
     ListUpReturned, TryReturned, UnwindReturned, HeadReturned, Returned

LEMMA NextShuffles ==
  ASSUME NEW level, NEW deep, Bounded(level, deep), IInv(level), IInv(level)', ~touched => Shuffles, [Next]_vars
  PROVE  (~touched => Shuffles)'
<1> SUFFICES ASSUME ~touched' PROVE Shuffles'
  OBVIOUS
<1>1. ~touched /\ Shuffles
  BY TouchedStays
<1>2. CASE Iterate
  BY <1>1, <1>2, IterateShuffles
<1>3. CASE Main \/ Command
  BY <1>1, <1>3, MainElse, NextShuffled, LeaveShuffled, EndsShuffled, HearShuffled DEF Main, Command
<1>4. CASE UNCHANGED vars
  BY <1>1, <1>4, EndsShuffled
<1> QED
  BY <1>2, <1>3, <1>4 DEF Next

LEMMA ShufflesMeans ==
  ASSUME NEW level, NEW deep, Bounded(level, deep), IInv(level), ~touched => Shuffles
  PROVE  PlaysAsListed
<1> SUFFICES ASSUME ~touched PROVE PlaysAsListed
  BY DEF PlaysAsListed
<1>1. Shuffles /\ Root \in tree.rnd /\ at = Cardinality(heard)
  BY DEF Shuffles, Deck
<1>2. ASSUME pc \in {"idle", "over"} PROVE at = Len(Order)
  <2>1. Silent
    BY <1>1, <1>2 DEF Shuffles, Above, Choosing, Chosen, Sounding
  <2>2. Tree(tree, level) /\ Deck(tree)
    BY <1>1 DEF IInv, Shuffles
  <2> QED
    BY <1>1, <2>1, <2>2, SongsCounted DEF Silent
<1> QED
  BY <1>1, <1>2 DEF PlaysAsListed

\* A shuffled list from which nothing has been played.
Shuffling(t) == Deck(t) /\ Songs(t) \cap t.played = {}

LEMMA ShufflesInit ==
  ASSUME Init, Shuffling(tree)
  PROVE  Shuffles
<1>1. /\ iter = NewIter /\ call = [op |-> "step", d |-> 0, nodes |-> FALSE] /\ pc = "first" /\ step = 1
      /\ at = 0 /\ heard = {}
  BY DEF Init, NoCall
<1>2. NewIter # None /\ NewIter.tree = None
  <2>1. << >> \in Seq(Int) /\ 0 \in Nat
    OBVIOUS
  <2>2. NewIter \in Iterators
    BY <2>1 DEF NewIter, Iterators
  <2> QED
    BY <2>2, IterFields DEF NewIter
<1>3. Above
  BY <1>1, <1>2 DEF Above, Gone, Shuffling
<1> QED
  BY <1>1, <1>3, FS_EmptySet DEF Shuffles, Shuffling

(* For every shuffled list of files, of any length: as long as nobody interferes, each
   round plays every file once, in whichever order the random numbers have it, and the
   next begins only when all have played; an endless list goes round after round, any other
   ends after one (playtree.c:506-546, 580-604, 653). *)
THEOREM PlaysInRounds == Spec /\ Shuffling(tree) => []PlaysAsListed
<1> DEFINE Both == \E deep \in Nat : \E level : Bounded(level, deep) /\ IInv(level) /\ (~touched => Shuffles)
<1>1. Init /\ Shuffling(tree) => Both
  <2> SUFFICES ASSUME Init, Shuffling(tree) PROVE Both
    OBVIOUS
  <2>1. PICK deep \in Nat, level \in Layers : Bounded(level, deep) /\ IInv(level)
    BY BeginsBounded
  <2> QED
    BY <2>1, ShufflesInit
<1>2. Both /\ [Next]_vars => Both'
  <2> SUFFICES ASSUME NEW deep \in Nat, NEW level, Bounded(level, deep), IInv(level), ~touched => Shuffles, [Next]_vars
               PROVE  Both'
    OBVIOUS
  <2>1. IInv(level)'
    <3>1. level \in Layers
      BY DEF Bounded, Layers
    <3> QED
      BY <3>1, NextKeepsIt
  <2>2. (~touched => Shuffles)'
    BY <2>1, NextShuffles
  <2> QED
    BY <2>1, <2>2
<1>3. Both => PlaysAsListed
  BY ShufflesMeans
<1> HIDE DEF Both
<1> QED
  BY <1>1, <1>2, <1>3, PTL DEF Spec
=============================================================================
