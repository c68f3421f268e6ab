---------------------------- MODULE MediumReader ----------------------------
(***************************************************************************)
(* What cache_stream_fill_buffer and cache_stream_seek_long promise their  *)
(* caller, with no cache in sight: the bytes of the medium from the        *)
(* current position on, at most one sector per call, and fewer than a      *)
(* sector only when the medium has been read to its end or a read of it    *)
(* has failed.                                                             *)
(***************************************************************************)
EXTENDS Integers, Sequences

CONSTANTS SectorSize,
          MayFail     \* whether a read of the medium may fail

VARIABLES pos,    \* stream->pos
          out,    \* the bytes fetched in the current call
          ended   \* the end of the medium has been reached

vars == <<pos, out, ended>>

Init == pos = 0 /\ out = <<>> /\ ended \in BOOLEAN

(* One more run of consecutive bytes; a byte is its position. *)
Fetch ==
  /\ \E n \in 1 .. SectorSize - Len(out) :
       out' = out \o [i \in 1 .. n |-> pos + Len(out) + i - 1]
  /\ UNCHANGED <<pos, ended>>

(* The call returns. *)
Hand ==
  /\ Len(out) < SectorSize => ended \/ MayFail
  /\ pos' = pos + Len(out) /\ out' = <<>>
  /\ UNCHANGED ended

(* A seek, between calls. *)
Seek ==
  /\ out = <<>>
  /\ pos' \in Nat
  /\ UNCHANGED <<out, ended>>

(* The end is reached and stays reached: playback only moves forward. *)
End == ~ended /\ ended' /\ UNCHANGED <<pos, out>>

Next == Fetch \/ Hand \/ Seek \/ End

Spec == Init /\ [][Next]_vars

=============================================================================
