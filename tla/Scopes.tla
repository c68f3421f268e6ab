-------------------------------- MODULE Scopes --------------------------------
(***************************************************************************)
(* What m_config_push and m_config_pop promise (m_config.h): a push opens  *)
(* a new context, a pop restores the context before, whatever was set or   *)
(* changed in between.  A context may be filled as it is opened.           *)
(***************************************************************************)
EXTENDS Sequences, SequencesExt

CONSTANTS Vars, Values
VARIABLE levels

Env == [Vars -> Values]

Init == \E e \in Env : levels = <<e>>

Enter == \E e \in Env : levels' = Append(levels, e)

Change == \E e \in Env : levels' = Append(Front(levels), e)

Leave == Len(levels) > 1 /\ levels' = Front(levels)

Next == Enter \/ Change \/ Leave

Spec == Init /\ [][Next]_levels
=============================================================================
