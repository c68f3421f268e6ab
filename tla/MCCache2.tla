------------------------------ MODULE MCCache2 ------------------------------
(* Small instances of Cache2 for TLC. *)
EXTENDS Cache2

NoPositions == {}
AnyInFile == 0 .. FileSize - 1
AnyAndBeyond == 0 .. FileSize + 1
TwoChapters == {0, FileSize - 1}
=============================================================================
