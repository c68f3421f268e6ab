------------------------------ MODULE MCAhiDev ------------------------------
EXTENDS AhiDev

(* The player plays and pauses; everything at once, for fewer units. *)
Plays == [units |-> 9, resets |-> 0, pauses |-> 1, inits |-> 0,
          openFails |-> TRUE, slices |-> FALSE]
Races == [units |-> 3, resets |-> 1, pauses |-> 0, inits |-> 1,
          openFails |-> TRUE, slices |-> TRUE]

PlaysAndRaces == {Plays, Races}
PlaysOnly == {Plays}
=============================================================================
