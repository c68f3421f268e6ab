----------------------------- MODULE RtpReorder -----------------------------
(***************************************************************************)
(* The RTP reordering cache (stream/rtp.c).  read_rtp_from_server is the   *)
(* player's only entry: it receives packets until one can be handed out in *)
(* sequence, and keeps those that come early in a ring of Max slots, where *)
(* first is the slot of the next expected sequence number.                 *)
(*                                                                         *)
(* The server sends packets 0 .. Packets - 1, in order; the network loses, *)
(* duplicates and reorders them.  A packet is its number in that stream;   *)
(* its 16-bit sequence number is Seq16(p).  A server that restarts goes on   *)
(* with numbers that are elsewhere.                                        *)
(***************************************************************************)
EXTENDS Integers, Sequences, FiniteSets

CONSTANTS
  Max,        \* MAXRTPPACKETSIN
  Mod,        \* 2^16, the range of rh.b.sequence and of rtpbuf.seq
  Start,      \* the (random) sequence number of the first packet
  Packets,    \* bound: packets in the stream
  Restart,    \* the packet at which the server restarts, or Packets
  Jumps,      \* how far its numbers may jump then
  Spread,     \* bound: a packet overtakes fewer than Spread others
  MaxLost,    \* bound: packets the network loses
  MaxDups,    \* bound: packets that arrive a second time
  MaxErrors,  \* bound: receives that fail or return less than a header
  None        \* an empty slot

ASSUME RtpAssumption ==
  /\ Max \in Nat /\ Max > 3 /\ Mod \in Nat /\ Mod > 6 * Max /\ Start \in 0 .. Mod - 1
  /\ Packets \in Nat /\ Restart \in Nat /\ Jumps \subseteq Int /\ Jumps # {}
  /\ Spread \in Nat \ {0}
  /\ MaxLost \in Nat /\ MaxDups \in Nat /\ MaxErrors \in Nat
  /\ None \notin Nat

Slots == 0 .. Max - 1
Straight(i) == i + 1                                           \* mutant
Stream == 0 .. Packets - 1
NextSlot(i) == (i + 1) % Max

VARIABLES
  \* struct rtpbuffer; held[i] = None stands for len[i] = 0
  held, seq, first,
  isFirst,     \* the static is_first of rtp_cache
  pc, tries,   \* where read_rtp_from_server is, the i of rtp_get_next's loop
  out,         \* packets handed to the player
  jump,        \* how far the server's numbers jump
  gone,        \* packets that have arrived or are lost
  lost, dups, errors,
  dropped      \* packets rtp_cache refused, or wiped from the ring

ring    == <<held, seq, first, isFirst>>
network == <<jump, gone, lost, dups, errors>>
vars    == <<ring, pc, tries, out, network, dropped>>

Seq16(p) == (Start + p + IF p >= Restart THEN jump ELSE 0) % Mod

Init ==
  /\ jump \in Jumps
  /\ held = [i \in Slots |-> None] /\ seq = [i \in Slots |-> 0] /\ first = 0
  /\ isFirst = TRUE /\ pc = "idle" /\ tries = 0
  /\ out = <<>> /\ gone = {} /\ lost = {} /\ dups = 0 /\ errors = 0
  /\ dropped = {}

-----------------------------------------------------------------------------
(* The network and the socket. *)

Pending == Stream \ gone
(* Packets of the server's first life and of its second do not mix. *)
Before(p) == jump # 0 /\ p < Restart
InReach(p) ==
  /\ p \in Pending
  /\ \A q \in Pending : p < q + Spread /\ (Before(q) => Before(p))

Lose(p) ==
  /\ Cardinality(lost) < MaxLost /\ InReach(p)
  /\ gone' = gone \cup {p} /\ lost' = lost \cup {p}
  /\ UNCHANGED <<ring, pc, tries, out, jump, dups, errors, dropped>>

Arrive(p) ==
  \/ /\ InReach(p)
     /\ gone' = gone \cup {p} /\ UNCHANGED <<jump, lost, dups, errors>>
  \/ /\ dups < MaxDups /\ p \in gone \ lost
     /\ Before(p) => \A q \in gone : Before(q)
     /\ dups' = dups + 1 /\ UNCHANGED <<jump, gone, lost, errors>>

-----------------------------------------------------------------------------
(* The player asks for data; a call takes what the ring holds first. *)

Read ==
  /\ pc = "idle"
  /\ pc' = "get" /\ tries' = 0
  /\ UNCHANGED <<ring, out, network, dropped>>

(* rtp_get_next goes on receiving. *)
MaxTries == Max - 3
Receiving == pc = "get" /\ held[first] = None /\ tries < MaxTries

(* newseq, an int: the difference of two unsigned shorts. *)
NewSeq(p) == Seq16(p) - seq[first]

(* rtp_cache's four ranges of newseq. *)
Anything(p) == NewSeq(p) >= 0 \/ isFirst                       \* mutant
InSequence(p) == NewSeq(p) = 0 \/ isFirst
OverrunEarly(p) == ~InSequence(p) /\ NewSeq(p) > 1             \* mutant
Overrun(p)    == ~InSequence(p) /\ NewSeq(p) > Max
Underrun(p)   == ~InSequence(p) /\ NewSeq(p) < 0
Early(p)      == ~InSequence(p) /\ NewSeq(p) \in 1 .. Max

HandOut(p) == out' = Append(out, p) /\ pc' = "idle" /\ tries' = 0

(* The packet expected, or the first packet of all. *)
ReceiveNext(p) ==
  /\ Receiving /\ Arrive(p) /\ InSequence(p)
  /\ isFirst' = FALSE
  /\ first' = NextSlot(first)
  /\ seq' = [seq EXCEPT ![NextSlot(first)] = (Seq16(p) + 1) % Mod]
  /\ HandOut(p)
  /\ UNCHANGED <<held, dropped>>

(* rtp_cache_reset: the ring is emptied, the other slots keep their numbers. *)
KeptRing == held                                               \* mutant
Emptied == [i \in Slots |-> None]

Reset(p) ==
  /\ first' = 0
  /\ seq' = [seq EXCEPT ![0] = (Seq16(p) + 1) % Mod]
  /\ held' = Emptied
  /\ dropped' = dropped \cup ({held[i] : i \in Slots} \ {None})

(* Too far ahead: start anew with this packet. *)
ReceiveOverrun(p) ==
  /\ Receiving /\ Arrive(p) /\ Overrun(p)
  /\ Reset(p) /\ HandOut(p)
  /\ UNCHANGED isFirst

(* Behind: a stray or too old packet is refused ... *)
AnyOld(p) == TRUE                                              \* mutant
Stale(p) == (\E i \in Slots : seq[i] = Seq16(p)) \/ NewSeq(p) > -(3 * Max)

ReceiveStale(p) ==
  /\ Receiving /\ Arrive(p) /\ Underrun(p) /\ Stale(p)
  /\ tries' = tries + 1
  /\ dropped' = dropped \cup {p}
  /\ UNCHANGED <<ring, pc, out>>

(* ... one that is far behind restarts the ring. *)
ReceiveUnderrun(p) ==
  /\ Receiving /\ Arrive(p) /\ Underrun(p) /\ ~Stale(p)
  /\ Reset(p) /\ HandOut(p)
  /\ UNCHANGED isFirst

(* Early: kept in the slot its distance leads to. *)
SlotFor(p) == (NewSeq(p) + first) % Max

ReceiveEarly(p) ==
  /\ Receiving /\ Arrive(p) /\ Early(p)
  /\ held' = [held EXCEPT ![SlotFor(p)] = p]
  /\ seq' = [seq EXCEPT ![SlotFor(p)] = Seq16(p)]
  /\ tries' = tries + 1
  /\ UNCHANGED <<first, isFirst, pc, out, dropped>>

(* recv fails, or returns less than an RTP header: length 0. *)
ReceiveNothing ==
  /\ Receiving /\ errors < MaxErrors
  /\ errors' = errors + 1
  /\ tries' = tries + 1
  /\ UNCHANGED <<ring, pc, out, jump, gone, lost, dups, dropped>>

(* rtp_get_next gives up waiting: it skips the empty slots ("Lost packet") and
   hands out what it finds; nothing at all counts as an empty packet, and
   read_rtp_from_server calls it again. *)
Ahead(i) == (i - first) % Max
Found == IF \A i \in Slots : held[i] = None THEN first
         ELSE CHOOSE i \in Slots : held[i] # None /\
                \A j \in Slots : held[j] # None => Ahead(i) <= Ahead(j)

SeqKept(i) == [seq EXCEPT ![NextSlot(i)] = (seq[first] + 1) % Mod]  \* mutant
SeqAfter(i) == [seq EXCEPT ![NextSlot(i)] = (seq[i] + 1) % Mod]

TakeHeld ==
  /\ pc = "get" /\ ~Receiving
  /\ LET i == Found
     IN  /\ held' = [held EXCEPT ![i] = None]
         /\ first' = NextSlot(i)
         /\ seq' = SeqAfter(i)
         /\ IF held[i] # None
              THEN HandOut(held[i])
              ELSE tries' = 0 /\ UNCHANGED <<pc, out>>
  /\ UNCHANGED <<isFirst, network, dropped>>

-----------------------------------------------------------------------------
Receive(p) ==
  \/ ReceiveNext(p) \/ ReceiveOverrun(p) \/ ReceiveStale(p)
  \/ ReceiveUnderrun(p) \/ ReceiveEarly(p)

Step == TakeHeld \/ ReceiveNothing \/ \E p \in Stream : Receive(p)

Next == Read \/ Step \/ \E p \in Stream : Lose(p)

Spec == Init /\ [][Next]_vars

-----------------------------------------------------------------------------
(* Properties. *)

TypeOK ==
  /\ jump \in Jumps /\ held \in [Slots -> Stream \cup {None}] /\ seq \in [Slots -> 0 .. Mod - 1]
  /\ first \in Slots /\ isFirst \in BOOLEAN
  /\ pc \in {"idle", "get"} /\ tries \in 0 .. MaxTries
  /\ out \in Seq(Stream) /\ gone \subseteq Stream /\ dropped \subseteq gone
  /\ lost \subseteq gone /\ dups \in 0 .. MaxDups /\ errors \in 0 .. MaxErrors

Arrived == {out[i] : i \in 1 .. Len(out)} \cup ({held[i] : i \in Slots} \ {None})

(* "get rtp packets reordered" (rtp.c:38): the player sees the packets in the
   order they were sent, each at most once. *)
Ordered == \A i \in 1 .. Len(out) - 1 : out[i] < out[i + 1]

(* A packet the ring refuses is one the player already has, or older than the
   first it got: reordering and repeated packets alone lose nothing
   (rtp.c:35-38). *)
NothingDropped ==
  jump = 0 => \A p \in dropped : p \in Arrived \/ p < out[1]

(* "restart everything" (rtp.c:133): once the server has restarted, no packet
   it sends is taken for an old one, except one that a later one overtook. *)
Resumes ==
  jump # 0 => \A p \in dropped : p < Restart \/ p \in Arrived \/ \E k \in 1 .. Len(out) : out[k] > p

=============================================================================
