---------------------------- MODULE MCRtpReorder ----------------------------
(* Small instances of RtpReorder for TLC: a server that does not restart, or
   restarts with numbers far behind or far ahead. *)
EXTENDS RtpReorder

NoneBackOrAhead == {0, -50, 41}
=============================================================================
