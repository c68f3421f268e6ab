----------------------------- MODULE ConfigStack -----------------------------
(***************************************************************************)
(* Option values in scopes (m_config.c).  Each option of the player has a  *)
(* variable and a stack of save slots; m_config_push opens a level,        *)
(* m_config_pop closes it.  An option that names a variable some earlier   *)
(* option has already is an alias: it keeps the slot that was on top when  *)
(* it was registered, at level 1.                                          *)
(*                                                                         *)
(* Operators on a value of the type m_config_t, for PlayTree to use.       *)
(***************************************************************************)
EXTENDS Integers, Sequences, SequencesExt

CONSTANTS
  Vars,      \* the variables options point to
  Saved,     \* those whose options are neither M_OPT_GLOBAL nor M_OPT_NOSAVE
  Options,   \* names of options
  Variable,  \* the variable of each
  Aliases,   \* the options with M_CFG_OPT_ALIAS
  Values     \* what variables hold

ASSUME ConfigAssumption ==
  /\ Saved \subseteq Vars /\ Aliases \subseteq Options
  /\ Variable \in [Options -> Vars]

Slots == [lvl : Nat, data : Values]

Configs == [lvl : Nat \ {0}, slots : [Vars -> Seq(Slots)], value : [Vars -> Values]]

(* After registration, and the options that hold for every file: slot 1 has
   the default, slot 2 is level 1. *)
NewConfig(env) ==
  [lvl   |-> 1,
   slots |-> [v \in Vars |-> <<[lvl |-> 0, data |-> env[v]], [lvl |-> 1, data |-> env[v]]>>],
   value |-> env]

(* m_config_push: the variables may have changed since they were set, so the
   top slots are brought up to date first. *)
Stale(slots, x) == slots                                           \* mutant
Updated(slots, x) == [slots EXCEPT ![Len(slots)].data = x]

PushConfig(c) ==
  [c EXCEPT !.lvl = @ + 1,
            !.slots = [v \in Vars |->
               IF v \in Saved
                 THEN Append(Updated(@[v], c.value[v]), [lvl |-> c.lvl + 1, data |-> c.value[v]])
                 ELSE @[v]]]

(* m_config_pop: slots of this level go from the top, and where one went the
   variable takes the value of the slot below. *)
Below(slots, lvl) == SubSeq(slots, 1, Max({0} \cup {i \in DOMAIN slots : slots[i].lvl < lvl}))

PopConfig(c) ==
  LET slots == [v \in Vars |-> IF v \in Saved THEN Below(c.slots[v], c.lvl) ELSE c.slots[v]]
  IN  [lvl   |-> c.lvl - 1,
       slots |-> slots,
       value |-> [v \in Vars |-> IF slots[v] # c.slots[v] THEN Last(slots[v]).data
                                                          ELSE c.value[v]]]

(* m_config_set_option: the value goes into the slot the option knows, and from
   there into the variable. *)
SlotOf(c, o) == IF o \in Aliases THEN 2 ELSE Len(c.slots[Variable[o]])

Sets(c, o, v, k) == Variable[o] = v /\ SlotOf(c, o) = k

(* A list of options with their values, set one after the other: a slot, and a
   variable, is left with what the last one of it said. *)
LastOf(params, which, x) == IF which = {} THEN x ELSE params[Max(which)][2]

SetSlot(c, params, v, k) ==
  [c.slots[v][k] EXCEPT !.data =
     LastOf(params, {i \in DOMAIN params : Sets(c, params[i][1], v, k)}, @)]

SetValue(c, params, v) ==
  LastOf(params, {i \in DOMAIN params : Variable[params[i][1]] = v}, c.value[v])

SetOptions(c, params) ==
  [c EXCEPT !.slots = [v \in Vars |-> [k \in DOMAIN c.slots[v] |-> SetSlot(c, params, v, k)]],
            !.value = [v \in Vars |-> SetValue(c, params, v)]]

(* The option is changed through its variable, while a file plays. *)
ChangeVar(c, v, x) == [c EXCEPT !.value[v] = x]

(* What the levels hold: the values saved below, and the variables on top.  A
   variable some alias sets is left out: an alias writes the slot of level 1
   whatever the level. *)
Scoped == Saved \ {Variable[o] : o \in Aliases}

Levels(c) ==
  [i \in 1 .. c.lvl |->
     [v \in Scoped |-> IF i = c.lvl THEN c.value[v] ELSE c.slots[v][i + 1].data]]
=============================================================================
