----------------------------- MODULE PacketQueues -----------------------------
(***************************************************************************)
(* The packets between a demuxer and the decoders (libmpdemux/demuxer.c),  *)
(* and the part of main's loop that empties them and decides when the file *)
(* is over (mplayer.c, mpcommon.c).                                        *)
(*                                                                         *)
(* A stream reads its own queue; when that is empty it lets the demuxer    *)
(* read on in the file, which fills the queues of the others as well.  So  *)
(* that a badly interleaved file does not fill the memory, a stream gives  *)
(* up after a while and says eof, which it takes back when a packet turns  *)
(* up after all.  One pass of a loop of the code is one action.            *)
(***************************************************************************)
EXTENDS Integers, FiniteSets, Sequences, SequencesExt, FiniteSetsExt

CONSTANTS
  Files,        \* what may play: sequences of packets [to, len].  A packet goes
                \* to no stream, to one, or, cloned, to audio and video
  FillLimit,    \* packets read in vain for a stream
  MaxPacks,     \* MAX_PACKS
  MaxBytes,     \* MAX_PACK_BYTES
  Small,        \* video packets up to this size do not count
  Wants,        \* how much decoders ask for
  Interleaves,  \* what d_sub->non_interleaved, negated, may be
  MaxJumps,     \* how often the user seeks or changes subtitles
  None

Streams == {"audio", "video", "sub"}

ASSUME PacketAssumption ==
  /\ {FillLimit, Small, MaxJumps} \subseteq Nat /\ {MaxPacks, MaxBytes} \subseteq Nat \ {0}
  /\ Wants \subseteq Nat \ {0} /\ Interleaves \subseteq BOOLEAN
  /\ \A f \in Files : f \in Seq([to : SUBSET Streams, len : Nat])
  /\ None \notin Nat

VARIABLES
  file, interleaved,
  next,      \* the demuxer's place in the file
  queue,     \* first .. last: the numbers of the packets
  current, buffer_pos, buffer_size, eof, fill_count,
  refcount,  \* of each packet of the file; 0 once it is freed
  call,      \* the function of demuxer.c to go on with
  answer,    \* what the last one returned
  pc,        \* where main is
  jumps,     \* seeks and changes so far
  from,      \* history: where in the file each stream began,
  taken      \* and how many bytes decoders have had of it since

ds == <<queue, current, buffer_pos, buffer_size, eof, fill_count>>
main == <<file, interleaved, pc, jumps>>
history == <<from, taken>>
vars == <<file, interleaved, next, queue, current, buffer_pos, buffer_size, eof,
          fill_count, refcount, call, answer, pc, jumps, from, taken>>

(*--------------------------------- Packets -------------------------------*)

Length(s) == Len(queue[s])                                           \* packs
BytesOf(i, start) == [b \in 1 .. file[i].len - start |-> <<i, start + b>>]
Concat(packets) == FlattenSeq([k \in 1 .. Len(packets) |-> BytesOf(packets[k], 0)])
Bytes(s) == Len(Concat(queue[s]))
Unread(s) == buffer_size[s] - buffer_pos[s]

(* new_demux_packet, and clone_demux_packet for every further stream. *)
OneForAll(to) == 1                                                 \* mutant
References(to) == Cardinality(to)

(* free_demux_packet, on each of a set of packets. *)
Released(packets) ==
  [i \in DOMAIN refcount |-> IF i \in packets THEN refcount[i] - 1 ELSE refcount[i]]

Held(s) == {current[s]} \ {None}

(* desc->fill_buffer: one packet of the file, added with ds_add_packet. *)
Demuxed ==
  LET p == file[next] IN
  /\ next' = next + 1
  /\ queue' = [s \in Streams |-> IF s \in p.to THEN Append(queue[s], next) ELSE queue[s]]
  /\ refcount' = [refcount EXCEPT ![next] = References(p.to)]

AtEnd == next > Len(file)

Full(s) == Length(s) >= MaxPacks \/ Bytes(s) >= MaxBytes
TooMany == Full("audio") \/ Full("video")

(*---------------------------------- Calls --------------------------------*)

NoCall == [op |-> "none", ds |-> "audio", left |-> 0, at |-> "look"]
At(where) == call' = [call EXCEPT !.at = where]
Return(r) == call' = NoCall /\ answer' = r
In(op, where) == call.op \in op /\ call.at = where

Deliver(s, n) ==
  /\ taken' = [taken EXCEPT ![s] = @ + n]
  /\ buffer_pos' = [buffer_pos EXCEPT ![s] = @ + n]

(* demux_read_data, while there is something in the buffer. *)
ReadData ==
  /\ In({"data"}, "look") /\ Unread(call.ds) # 0
  /\ LET n == Min({Unread(call.ds), call.left}) IN
     /\ Deliver(call.ds, n)
     /\ IF n = call.left THEN Return("data")
                         ELSE call' = [call EXCEPT !.left = @ - n] /\ UNCHANGED answer
  /\ UNCHANGED <<next, queue, current, buffer_size, eof, fill_count, refcount, from, main>>

(* ds_get_packet and ds_get_packet_sub with a packet read in part. *)
KeepPacket ==
  /\ In({"packet", "sub"}, "look") /\ Unread(call.ds) > 0
  /\ At("full")
  /\ UNCHANGED <<next, ds, refcount, answer, history, main>>

NoSubtitle ==
  /\ In({"sub"}, "look") /\ Unread(call.ds) <= 0 /\ Length(call.ds) = 0
  /\ Return("failed")
  /\ UNCHANGED <<next, ds, refcount, history, main>>

(* ds_fill_buffer lets go of the packet that was read. *)
FillBegins ==
  /\ In({"data", "packet", "sub"}, "look") /\ Unread(call.ds) <= 0
  /\ call.op = "sub" => Length(call.ds) # 0
  /\ refcount' = Released(Held(call.ds))
  /\ current' = [current EXCEPT ![call.ds] = None]
  /\ At("fill")
  /\ UNCHANGED <<next, queue, buffer_pos, buffer_size, eof, fill_count, answer, history, main>>

Filling == call.at = "fill"
Hopeless == fill_count[call.ds] > FillLimit \/ eof[call.ds] \/ TooMany

OldPosition(s) == buffer_pos[s]                                    \* mutant
NewPosition(s) == 0

TakePacket ==
  /\ Filling /\ Length(call.ds) # 0
  /\ LET s == call.ds
         i == Head(queue[s]) IN
     /\ queue' = [queue EXCEPT ![s] = Tail(@)]
     /\ current' = [current EXCEPT ![s] = i]
     /\ buffer_pos' = [buffer_pos EXCEPT ![s] = NewPosition(s)]
     /\ buffer_size' = [buffer_size EXCEPT ![s] = file[i].len]
     /\ eof' = [eof EXCEPT ![s] = FALSE]
     /\ fill_count' = [fill_count EXCEPT ![s] = 0]
  /\ At(IF call.op = "data" THEN "look" ELSE "full")
  /\ UNCHANGED <<next, refcount, answer, history, main>>

(* What a packet that went elsewhere counts. *)
Counts(p) ==
  (IF "audio" \in p.to THEN 1 ELSE 0) + (IF "video" \in p.to /\ p.len > Small THEN 1 ELSE 0)

FillReads ==
  /\ Filling /\ Length(call.ds) = 0 /\ ~Hopeless /\ ~AtEnd
  /\ Demuxed
  /\ fill_count' = [fill_count EXCEPT ![call.ds] = @ + Counts(file[next])]
  /\ UNCHANGED <<current, buffer_pos, buffer_size, eof, call, answer, history, main>>

KeptOpen(s) == eof                                                 \* mutant
Ended(s) == [eof EXCEPT ![s] = TRUE]

FillFails ==
  /\ Filling /\ Length(call.ds) = 0 /\ (Hopeless \/ AtEnd)
  /\ buffer_pos' = [buffer_pos EXCEPT ![call.ds] = 0]
  /\ buffer_size' = [buffer_size EXCEPT ![call.ds] = 0]
  /\ eof' = Ended(call.ds)
  /\ Return("failed")
  /\ UNCHANGED <<next, queue, current, fill_count, refcount, history, main>>

(* The rest of the packet, whole. *)
GivePacket ==
  /\ In({"packet", "sub"}, "full")
  /\ Deliver(call.ds, Unread(call.ds))
  /\ Return("data")
  /\ UNCHANGED <<next, queue, current, buffer_size, eof, fill_count, refcount, from, main>>

(* A subtitle whose time has not come stays where it is. *)
TooEarly ==
  /\ In({"sub"}, "full") /\ buffer_pos[call.ds] = 0
  /\ Return("failed")
  /\ UNCHANGED <<next, ds, refcount, history, main>>

(* ds_get_next_pts reads on for the next packet, with limits of its own. *)
PtsKnown(s) == Length(s) # 0 \/ (current[s] # None /\ buffer_pos[s] = 0)

PtsReads ==
  /\ In({"pts"}, "look") /\ ~PtsKnown(call.ds) /\ ~TooMany /\ ~AtEnd
  /\ Demuxed
  /\ UNCHANGED <<current, buffer_pos, buffer_size, eof, fill_count, call, answer, history, main>>

PtsReturns ==
  /\ In({"pts"}, "look")
  /\ IF PtsKnown(call.ds) THEN Return("data") ELSE (TooMany \/ AtEnd) /\ Return("failed")
  /\ UNCHANGED <<next, ds, refcount, history, main>>

CallStep == ReadData \/ KeepPacket \/ NoSubtitle \/ FillBegins \/ TakePacket \/ FillReads
            \/ FillFails \/ GivePacket \/ TooEarly \/ PtsReads \/ PtsReturns

(*---------------------------------- main ---------------------------------*)

Has(s) == \E i \in DOMAIN file : s \in file[i].to

Init ==
  /\ file \in Files /\ interleaved \in Interleaves
  /\ next = 1 /\ refcount = [i \in DOMAIN file |-> 0]
  /\ queue = [s \in Streams |-> << >>] /\ current = [s \in Streams |-> None]
  /\ buffer_pos = [s \in Streams |-> 0] /\ buffer_size = [s \in Streams |-> 0]
  /\ eof = [s \in Streams |-> FALSE] /\ fill_count = [s \in Streams |-> 0]
  /\ call = NoCall /\ answer = "none" /\ pc = "open" /\ jumps = 0
  /\ from = [s \in Streams |-> 1] /\ taken = [s \in Streams |-> 0]

Main(here) == pc = here /\ call.op = "none"
Begin(op, s, n) == call' = [op |-> op, ds |-> s, left |-> n, at |-> "look"] /\ answer' = "none"
Goes(there) == pc' = there /\ UNCHANGED <<file, interleaved, jumps>>
Reads == UNCHANGED <<next, ds, refcount, history>>

(* print_file_properties asks for the first times. *)
Open ==
  /\ Main("open")
  /\ IF Has("video") THEN Begin("pts", "video", 0) ELSE UNCHANGED <<call, answer>>
  /\ Goes("opened") /\ Reads

Opened ==
  /\ Main("opened")
  /\ IF Has("audio") THEN Begin("pts", "audio", 0) ELSE UNCHANGED <<call, answer>>
  /\ Goes("audio") /\ Reads

(* fill_audio_out_buffers: some decoders read bytes, others packets, until the
   device has enough. *)
ReadAudio ==
  /\ Main("audio") /\ Has("audio")
  /\ Begin("packet", "audio", 0) \/ \E n \in Wants : Begin("data", "audio", n)
  /\ Goes("sound") /\ Reads

Silent == answer = "failed" /\ eof["audio"]

AudioRead ==
  /\ Main("sound")
  /\ Goes(IF Silent /\ ~Has("video") THEN "over" ELSE "audio")
  /\ UNCHANGED <<call, answer>> /\ Reads

AudioDone ==
  /\ Main("audio")
  /\ Goes(IF Has("video") THEN "video" ELSE "subs")
  /\ UNCHANGED <<call, answer>> /\ Reads

(* update_video, unless a frame waits to be shown. *)
ReadVideo ==
  /\ Main("video")
  /\ Begin("packet", "video", 0)
  /\ Goes("shown") /\ Reads

FrameWaits ==
  /\ Main("video") /\ Goes("subs")
  /\ UNCHANGED <<call, answer>> /\ Reads

Regardless == TRUE                                                 \* mutant
AudioAtEnd == ~Has("audio") \/ eof["audio"]

VideoRead ==
  /\ Main("shown")
  /\ Goes(IF answer = "failed" /\ AudioAtEnd THEN "over" ELSE "subs")
  /\ UNCHANGED <<call, answer>> /\ Reads

(* update_subtitles *)
Subtitles ==
  /\ Main("subs")
  /\ IF interleaved THEN UNCHANGED <<call, answer>> ELSE Begin("pts", "sub", 0)
  /\ Goes("texts") /\ Reads

ReadSubtitle ==
  /\ Main("texts")
  /\ Begin("sub", "sub", 0)
  /\ Goes("text") /\ Reads

SubtitleRead ==
  /\ Main("text")
  /\ Goes(IF answer = "failed" THEN "audio" ELSE "subs")
  /\ UNCHANGED <<call, answer>> /\ Reads

(* ds_free_packs on some streams, which the file goes on with at place i. *)
Flush(ss, i) ==
  /\ queue' = [s \in Streams |-> IF s \in ss THEN << >> ELSE queue[s]]
  /\ current' = [s \in Streams |-> IF s \in ss THEN None ELSE current[s]]
  /\ buffer_pos' = [s \in Streams |-> IF s \in ss THEN buffer_size[s] ELSE buffer_pos[s]]
  /\ refcount' = [p \in DOMAIN refcount |->
                    refcount[p] - Cardinality({s \in ss : p \in Range(queue[s]) \cup Held(s)})]
  /\ from' = [s \in Streams |-> IF s \in ss THEN i ELSE from[s]]
  /\ taken' = [s \in Streams |-> IF s \in ss THEN 0 ELSE taken[s]]

Jump == Main("audio") /\ jumps < MaxJumps /\ jumps' = jumps + 1

(* demux_seek and demux_resync; desc->seek finds a place to go on. *)
Seek ==
  /\ Jump
  /\ \E i \in 1 .. Len(file) + 1 : next' = i /\ Flush(Streams, i)
  /\ eof' = [s \in Streams |-> FALSE]
  /\ fill_count' = [s \in Streams |-> IF s = "sub" THEN fill_count[s] ELSE -FillLimit]
  /\ UNCHANGED <<buffer_size, call, answer, file, interleaved, pc>>

(* Another subtitle stream: what was read of the old one goes. *)
SwitchSubtitles ==
  /\ Jump
  /\ Flush({"sub"}, next)
  /\ UNCHANGED <<next, buffer_size, eof, fill_count, call, answer, file, interleaved, pc>>

Player == Open \/ Opened \/ AudioRead \/ VideoRead \/ Subtitles \/ ReadSubtitle \/ SubtitleRead

Next == CallStep \/ Player \/ ReadAudio \/ AudioDone \/ ReadVideo \/ FrameWaits
        \/ Seek \/ SwitchSubtitles

(* The loop of main goes on; the device takes sound again and again, but not
   all at once, and frames that wait are shown. *)
Fairness == /\ WF_vars(CallStep) /\ WF_vars(Player)
            /\ SF_vars(ReadAudio) /\ SF_vars(AudioDone) /\ SF_vars(ReadVideo)

Spec == Init /\ [][Next]_vars /\ Fairness

(*------------------------------- Properties ------------------------------*)

(* A packet lives as long as somebody has it, cloned or not, and no longer; what
   is read of a buffer, and whose time is asked for, is of a packet that lives
   (clone_demux_packet and free_demux_packet in demuxer.h, whose counts
   ds_fill_buffer and ds_free_packs must keep). *)
Holders(i) == {s \in Streams : i \in Range(queue[s]) \cup Held(s)}
BuffersValid ==
  /\ \A i \in DOMAIN refcount : refcount[i] = Cardinality(Holders(i))
  /\ \A s \in Streams :
       /\ buffer_pos[s] \in 0 .. buffer_size[s]
       /\ Unread(s) > 0 => current[s] # None
       /\ call.ds = s /\ call.at = "full" => current[s] # None
       /\ \A i \in Held(s) : buffer_size[s] = file[i].len

(* Nothing of a stream is lost, doubled or out of order between the file and its
   decoder, whoever made the demuxer read on and however a packet was read in
   pieces: what decoders have had, what is buffered and what is queued are what
   the demuxer has read of the stream, byte for byte, since the last seek. *)
InFile(s, i, j) ==
  FlattenSeq([k \in 1 .. j - i |-> IF s \in file[i + k - 1].to THEN BytesOf(i + k - 1, 0)
                                                             ELSE << >>])
Buffered(s) == IF Unread(s) > 0 THEN BytesOf(current[s], buffer_pos[s]) ELSE << >>
WholeStream ==
  \A s \in Streams :
    LET all == InFile(s, from[s], next) IN
    /\ taken[s] <= Len(all)
    /\ SubSeq(all, taken[s] + 1, Len(all)) = Buffered(s) \o Concat(queue[s])

(* The file is not over while there is sound or picture left of it, though
   streams say eof too soon when they have to wait long: as long as audio itself
   need not wait longer than the limits allow (mplayer.c: "only stop playing
   when audio is at end as well"). *)
VideoBefore(i) == {v \in 1 .. i - 1 : "video" \in file[v].to}
Interleaved ==
  \A i \in DOMAIN file : "audio" \in file[i].to =>
    LET before == VideoBefore(i)
        since  == {v \in before : /\ file[v].len > Small
                                  /\ \A a \in v .. i - 1 : "audio" \notin file[a].to}
    IN  /\ Cardinality(since) <= FillLimit
        /\ Cardinality(before) < MaxPacks
        /\ Len(InFile("video", 1, i)) < MaxBytes

PlaysToTheEnd ==
  pc = "over" /\ Interleaved =>
    \A s \in {"audio", "video"} : Has(s) => taken[s] = Len(InFile(s, from[s], Len(file) + 1))

(* Every file comes to an end, also where streams wait for one another, the
   limits stop them, or the user goes back. *)
Ends == <>(pc = "over")
=============================================================================
