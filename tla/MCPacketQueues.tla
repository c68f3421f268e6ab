---------------------------- MODULE MCPacketQueues ----------------------------
(* Files for PacketQueues. *)
EXTENDS PacketQueues

A(n) == [to |-> {"audio"}, len |-> n]
V(n) == [to |-> {"video"}, len |-> n]
S(n) == [to |-> {"sub"}, len |-> n]
AV(n) == [to |-> {"audio", "video"}, len |-> n]
Other == [to |-> {}, len |-> 1]

Even     == <<V(2), A(2), S(1), V(1), A(1), S(0), V(2)>>
RawDV    == <<AV(2), AV(2), AV(2)>>
AudioGap == <<A(1), V(2), V(2), V(2), V(2), A(2)>>
VideoGap == <<V(1), A(1), A(2), A(1), A(2), V(2)>>
BothGaps == <<V(2), V(2), V(2), A(1), A(1), A(1), V(1), A(1)>>
Skipped  == <<A(1), V(0), V(0), V(0), V(0), A(2), V(2)>>
Large    == <<V(4), S(1), V(4), A(2), S(2), A(1)>>
NoAudio  == <<V(2), Other, S(2), V(1)>>
NoVideo  == <<A(2), S(2), Other, A(0), A(1)>>

MCFiles == {Even, RawDV, AudioGap, VideoGap, BothGaps, Skipped, Large, NoAudio, NoVideo}
=============================================================================
