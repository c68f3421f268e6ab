------------------------------ MODULE MCKeyFifo ------------------------------
(* Small instances of KeyFifo for TLC: a mouse button m with its double-click
   code, another button, and one more tap. *)
EXTENDS KeyFifo, TLC

CONSTANTS m, md
MouseDouble == m :> md
=============================================================================
