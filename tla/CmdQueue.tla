------------------------------ MODULE CmdQueue ------------------------------
(***************************************************************************)
(* The command queue of input/input.c between the player's main task and   *)
(* the ARexx task (amigaos/arexx.c), which posts a script's commands and,  *)
(* for a GET command, waits until the main task has run it and signals the *)
(* answer.                                                                 *)
(*                                                                         *)
(* The ARexx task has priority -20 and main has 0 (exec schedules strictly *)
(* by priority): ARexx runs only while main sleeps, so one action of main  *)
(* is all it does up to its next sleep.  main may wake up at any moment of *)
(* the ARexx task's work, also inside mp_input_queue_cmd, whose fields     *)
(* nothing protects; the model ends where that goes wrong (clashed).       *)
(*                                                                         *)
(* A command is who sent it, its number and its kind: "get" is answered    *)
(* with set_arexx_result, "pause" and "quit" are what they say, "keep" has *)
(* pausing = 4 (run without leaving the pause loop), "other" is the rest.  *)
(***************************************************************************)
EXTENDS Integers, Sequences, FiniteSets

CONSTANTS
  Size,        \* CMD_QUEUE_SIZE
  Blocks,      \* main runs operations that call mp_input_check_interrupt
  MaxArexx,    \* bound: commands of the script
  MaxKeys,     \* bound: commands of the user, from keys, menus or the mouse
  ArexxKinds,  \* kinds of the script's commands
  KeyKinds,    \* kinds of the user's commands
  None         \* no command

Kinds == {"get", "pause", "quit", "keep", "other"}

ASSUME QueueAssumption ==
  /\ Size \in Nat \ {0, 1} /\ Blocks \in BOOLEAN
  /\ MaxArexx \in Nat /\ MaxKeys \in Nat
  /\ ArexxKinds \subseteq Kinds \ {"keep"} /\ KeyKinds \subseteq Kinds \ {"get"}

Command == [from : {"arexx"}, n : 1 .. MaxArexx, kind : ArexxKinds]
           \cup [from : {"key"}, n : 1 .. MaxKeys, kind : KeyKinds]

ASSUME NoneAssumption == None \notin Command

VARIABLES
  q,        \* cmd_queue: its slots, start, end and length
  main,     \* what the main task does or sleeps in
  keys,     \* commands the user has given
  arexx,    \* what the ARexx task does or waits in
  cmd,      \* the command it posts or has posted last
  reg,      \* its register while it increments the length
  ctrl,     \* the signals set for it, of {"C", "D"}
  child,    \* SIGF_CHILD is set for main
  rc2,      \* arexx_rc2_variable: the GET it answers, or 0
  result,   \* the script's last GET and the answer it got
  ran,      \* numbers of the script's commands that were run, in order
  lost,     \* numbers of those that were removed or refused without that
  mixed,    \* main has peeked at one command and taken another
  clashed   \* main has changed what the ARexx task was changing

mainVars == <<main, keys>>
arexxVars == <<arexx, cmd, reg, result>>
signals == <<ctrl, child, rc2>>
history == <<ran, lost>>
noted == <<mixed, clashed>>
vars == <<q, mainVars, arexxVars, signals, history, noted>>

Init ==
  /\ q = [slot |-> [i \in 0 .. Size - 1 |-> None], start |-> 0, end |-> 0, length |-> 0]
  /\ main = "loop" /\ keys = 0
  /\ arexx = "wait" /\ cmd = None /\ reg = 0
  /\ ctrl = {} /\ child = FALSE /\ rc2 = 0
  /\ result = [asked |-> 0, got |-> 0]
  /\ ran = <<>> /\ lost = {} /\ mixed = FALSE /\ clashed = FALSE

-----------------------------------------------------------------------------
(* The queue. *)

NeverFull(r) == FALSE                                          \* mutant
Full(r) == r.length >= Size
Enqueue(r, c) ==
  IF Full(r) THEN r
  ELSE [r EXCEPT !.slot[r.end] = c, !.end = (r.end + 1) % Size, !.length = @ + 1]
First(r) == r.slot[r.start]
Shrink(r) == [r EXCEPT !.length = @ - 1]                       \* mutant
Dequeue(r) == [r EXCEPT !.length = @ - 1, !.start = (@ + 1) % Size]
Queued == {q.slot[(q.start + i) % Size] : i \in 0 .. q.length - 1}

\* mp_input_get_cmd: what it returns and what it makes of the queue.  A key's
\* command never was in the queue; a peek puts it at the end, or drops it.
Got(c, r) == [cmd |-> c, q |-> r]
AlwaysTaken(r, peek) == Got(First(r), Dequeue(r))              \* mutant
FromQueue(r, peek) == Got(First(r), IF peek THEN r ELSE Dequeue(r))
FromKey(r, key, peek) ==
  IF key = None \/ ~peek THEN Got(key, r)
  ELSE IF Full(r) THEN Got(None, r) ELSE Got(key, Enqueue(r, key))

\* Without a sleep, the queue is asked first; in read_events after one, the
\* keys are, and then the queue again.
GetNow(r, key, peek) ==
  IF r.length > 0 THEN FromQueue(r, peek) ELSE FromKey(r, key, peek)
GetAwake(r, key, peek) ==
  IF key # None \/ r.length = 0 THEN FromKey(r, key, peek) ELSE FromQueue(r, peek)

\* The next command of the user, when there is one.
UserCommand == {[from |-> "key", n |-> keys + 1, kind |-> k] : k \in KeyKinds}
Key == {None} \cup (IF keys < MaxKeys THEN UserCommand ELSE {})
KeyRead(key) == keys' = IF key = None THEN keys ELSE keys + 1

Posting == {"store", "end", "load", "length"}

\* main has put a command in while the ARexx task was putting one in, or has
\* taken one while it was incrementing the length.  The queue may then hand out
\* a command that has been freed; nothing is said of what follows.
Clash == arexx \in Posting /\ (q'.end # q.end \/ (arexx = "length" /\ q'.length # q.length))
Watch == clashed' = Clash

-----------------------------------------------------------------------------
(* The main task. *)

\* The number under which the history keeps a command.
Number(c) == IF c # None /\ c.from = "arexx" THEN {c.n} ELSE {}
Run(c) == ran' = IF Number(c) = {} THEN ran ELSE Append(ran, c.n)
Drop(c) == lost' = lost \cup Number(c)

\* run_command: a GET is answered, QUIT ends in StopArexx, PAUSE and whatever
\* a script posts while it takes the player to be paused (arexx_paused) pause.
Silent(c) == UNCHANGED signals                                 \* mutant
Answer(c) ==
  IF c.kind = "get" THEN rc2' = c.n /\ ctrl' = ctrl \cup {"D"} /\ UNCHANGED child
  ELSE IF c.kind = "quit" THEN ctrl' = ctrl \cup {"C"} /\ UNCHANGED <<rc2, child>>
  ELSE UNCHANGED signals
After(c, back) ==
  IF c.kind = "quit" THEN {"stopping"}
  ELSE IF c.kind = "pause" THEN {"paused"}
  ELSE {back} \cup (IF c.from = "arexx" THEN {"paused"} ELSE {})
Execute(c, back) ==
  /\ Answer(c)
  /\ main' \in After(c, back)
  /\ Run(c) /\ UNCHANGED lost

\* The main loop asks for a command without sleeping and runs it.
Poll ==
  /\ main = "loop" /\ ~clashed
  /\ \E key \in Key :
       LET g == GetNow(q, key, FALSE) IN
       /\ q.length > 0 => key = None
       /\ g.cmd # None
       /\ KeyRead(key) /\ q' = g.q
       /\ Execute(g.cmd, "loop")
  /\ Watch /\ UNCHANGED <<arexxVars, mixed>>

\* Menus and mouse moves queue a command without a key.
QueueOwn ==
  /\ main \in {"loop", "paused"} /\ ~clashed
  /\ \E c \in Key \ {None} : KeyRead(c) /\ q' = Enqueue(q, c)
  /\ Watch /\ UNCHANGED <<main, arexxVars, signals, history, mixed>>

\* The command at the head is taken after a peek that returned c.
Take(c, r) == q' = Dequeue(r) /\ mixed' = (mixed \/ c # First(r))
Leave(r) == q' = r /\ UNCHANGED mixed

\* mp_input_check_interrupt has peeked at c: an abort stays in the queue for
\* the main loop, anything else is removed by a second mp_input_get_cmd.
Checked(c, r) ==
  IF c.kind = "quit"
  THEN main' = "interrupted" /\ Leave(r) /\ UNCHANGED history
  ELSE main' = "loop" /\ Take(c, r) /\ Drop(First(r)) /\ UNCHANGED ran

\* A blocking operation of the stream calls it with a time to sleep.
Check ==
  /\ Blocks /\ main = "loop" /\ ~clashed
  /\ \/ q.length > 0 /\ Checked(First(q), q)
     \/ q.length = 0 /\ main' = "checking" /\ Leave(q) /\ UNCHANGED history
  /\ Watch /\ UNCHANGED <<keys, arexxVars, signals>>
CheckWake ==
  /\ main = "checking" /\ ~clashed
  /\ \E key \in Key :
       LET g == GetAwake(q, key, TRUE) IN
       /\ KeyRead(key)
       /\ IF g.cmd = None THEN main' = "loop" /\ Leave(q) /\ UNCHANGED history
          ELSE Checked(g.cmd, g.q)
  /\ Watch /\ UNCHANGED <<arexxVars, signals>>

\* libmpdemux_was_interrupted takes one command: only an abort means anything.
WasInterrupted ==
  /\ main = "interrupted" /\ ~clashed
  /\ q.length > 0
  /\ q' = Dequeue(q)
  /\ IF First(q).kind = "quit" THEN Execute(First(q), "loop")
     ELSE main' = "loop" /\ Drop(First(q)) /\ UNCHANGED <<ran, signals>>
  /\ Watch /\ UNCHANGED <<keys, arexxVars, mixed>>

\* pause_loop has peeked at c: one with pausing = 4 is taken and run; any other
\* ends the pause and stays for the main loop, but PAUSE is taken and freed.
Unpaused(c, r) ==
  IF c.kind = "keep" THEN Take(c, r) /\ Execute(First(r), "paused")
  ELSE /\ main' = "loop"
       /\ UNCHANGED signals
       /\ IF c.kind # "pause" THEN Leave(r) /\ UNCHANGED history
          ELSE /\ Take(c, r)
               /\ IF First(r).kind = "pause" THEN Run(First(r)) /\ UNCHANGED lost
                  ELSE Drop(First(r)) /\ UNCHANGED ran

PauseLook ==
  /\ main = "paused" /\ ~clashed
  /\ \/ q.length > 0 /\ Unpaused(First(q), q)
     \/ q.length = 0 /\ main' = "pause_sleep" /\ Leave(q) /\ UNCHANGED <<signals, history>>
  /\ Watch /\ UNCHANGED <<keys, arexxVars>>
PauseWake ==
  /\ main = "pause_sleep" /\ ~clashed
  /\ \E key \in Key :
       LET g == GetAwake(q, key, TRUE) IN
       /\ KeyRead(key)
       /\ IF g.cmd = None THEN main' = "paused" /\ Leave(q) /\ UNCHANGED <<signals, history>>
          ELSE Unpaused(g.cmd, g.q)
  /\ Watch /\ UNCHANGED arexxVars

\* StopArexx returns once the ARexx task has signalled its end.
Impatient == main = "stopping"                                 \* mutant
Ended == main = "stopping" /\ child
Stop ==
  /\ Ended /\ ~clashed
  /\ main' = "stopped" /\ child' = FALSE
  /\ UNCHANGED <<q, keys, arexxVars, ctrl, rc2, history, noted>>

-----------------------------------------------------------------------------
(* The ARexx task. *)

\* How many messages the script has sent.
Sent == IF cmd = None THEN 0 ELSE cmd.n

\* A message of the script: prepcommand and the length test of
\* mp_input_queue_cmd.  postcommand does not look at the result, so a GET that
\* is refused is waited for like any other.
Message(clear) ==
  /\ Sent < MaxArexx /\ ~clashed
  /\ \E k \in ArexxKinds : cmd' = [from |-> "arexx", n |-> Sent + 1, kind |-> k]
  /\ IF Full(q)
     THEN arexx' = (IF cmd'.kind = "get" THEN "answer" ELSE "handler") /\ Drop(cmd')
     ELSE arexx' = "store" /\ UNCHANGED lost
  /\ ctrl' = ctrl \ clear
  /\ UNCHANGED <<q, reg, result, mainVars, child, rc2, ran, noted>>

\* ArexxTask's Wait, which clears CTRL_D too.  By itself CTRL_D does not come
\* while it waits here: only the script's GETs are answered, and each is waited
\* for elsewhere (a GET typed in slave mode or bound to a key is left out).
Receive == arexx = "wait" /\ "C" \notin ctrl /\ Message({"D"})
Break ==
  /\ arexx = "wait" /\ "C" \in ctrl /\ ~clashed
  /\ ctrl' = {} /\ arexx' = "ended" /\ child' = TRUE
  /\ UNCHANGED <<q, mainVars, cmd, reg, result, rc2, history, noted>>

\* AM_HANDLEEVENT handles the messages that have come, then returns.
NextMessage == arexx = "handler" /\ Message({})
Return ==
  /\ arexx = "handler" /\ arexx' = "wait" /\ ~clashed
  /\ UNCHANGED <<q, mainVars, cmd, reg, result, signals, history, noted>>

\* The rest of mp_input_queue_cmd, one store at a time.
Post(at, next, r) ==
  /\ arexx = at /\ arexx' = next /\ q' = r /\ ~clashed
  /\ UNCHANGED <<mainVars, cmd, result, signals, history, noted>>
PostStore == Post("store", "end", [q EXCEPT !.slot[q.end] = cmd]) /\ UNCHANGED reg
PostEnd == Post("end", "load", [q EXCEPT !.end = (@ + 1) % Size]) /\ UNCHANGED reg
PostLoad == Post("load", "length", q) /\ reg' = q.length
PostLength ==
  /\ Post("length", IF cmd.kind = "get" THEN "answer" ELSE "handler",
          [q EXCEPT !.length = reg + 1])
  /\ reg' = 0

\* get_arexx_rc2 waits for the answer or the break, which it hands on to
\* ArexxTask by signalling itself.
Wake(cleared) ==
  /\ arexx = "answer" /\ ctrl # {} /\ ~clashed
  /\ ctrl' = ctrl \ cleared
  /\ rc2' = IF "C" \in ctrl THEN 0 ELSE rc2
  /\ result' = [asked |-> cmd.n, got |-> rc2']
  /\ arexx' = "handler"
  /\ UNCHANGED <<q, mainVars, cmd, reg, child, history, noted>>
BreakEaten == Wake({"C", "D"})                                 \* mutant
AnswerKept == Wake({})                                         \* mutant
TakeAnswer == Wake({"D"})

MainStep ==
  \/ Poll \/ QueueOwn \/ Check \/ CheckWake \/ WasInterrupted
  \/ PauseLook \/ PauseWake \/ Stop
ArexxStep ==
  \/ Receive \/ Break \/ NextMessage \/ Return
  \/ PostStore \/ PostEnd \/ PostLoad \/ PostLength \/ TakeAnswer
Next == MainStep \/ ArexxStep

Spec == Init /\ [][Next]_vars

\* The ARexx task goes on when main sleeps, except that the script need not
\* send anything more; main's sleeps end, and the main loop asks for commands
\* again and again.
ArexxGoesOn ==
  Break \/ Return \/ PostStore \/ PostEnd \/ PostLoad \/ PostLength \/ TakeAnswer
FairSpec ==
  /\ Spec
  /\ WF_vars(ArexxGoesOn)
  /\ WF_vars(CheckWake) /\ WF_vars(WasInterrupted)
  /\ WF_vars(PauseLook) /\ WF_vars(PauseWake) /\ WF_vars(Stop)
  /\ SF_vars(Poll)

-----------------------------------------------------------------------------
(* Properties.  All but the types are about a queue that has not been spoilt. *)

\* Type invariant.
TypeOK ==
  /\ q.slot \in [0 .. Size - 1 -> Command \cup {None}]
  /\ q.start \in 0 .. Size - 1 /\ q.end \in 0 .. Size - 1 /\ q.length \in 0 .. Size
  /\ main \in {"loop", "checking", "interrupted", "paused", "pause_sleep", "stopping", "stopped"}
  /\ keys \in 0 .. MaxKeys
  /\ arexx \in {"wait", "handler", "answer", "ended"} \cup Posting
  /\ cmd \in Command \cup {None} /\ reg \in 0 .. Size
  /\ ctrl \subseteq {"C", "D"} /\ child \in BOOLEAN /\ rc2 \in 0 .. MaxArexx
  /\ result \in [asked : 0 .. MaxArexx, got : 0 .. MaxArexx]
  /\ ran \in Seq(1 .. MaxArexx) /\ lost \subseteq 1 .. MaxArexx
  /\ mixed \in BOOLEAN /\ clashed \in BOOLEAN

\* mp_input_queue_cmd and mp_input_get_queued_cmd, unlocked and called by two
\* tasks: every command the script has posted is in the queue once, or was
\* run, or was dropped, and only one of these.  main may take commands while
\* one is posted, up to the load of the length; only a Clash does harm.
NothingVanishes ==
  ~clashed /\ arexx \notin Posting =>
    LET queued == UNION {Number(c) : c \in Queued}
        done == {ran[i] : i \in DOMAIN ran}
    IN /\ queued \cup done \cup lost = 1 .. Sent
       /\ queued \cap done = {} /\ queued \cap lost = {} /\ done \cap lost = {}
       /\ Cardinality(Queued) = q.length /\ None \notin Queued

\* The script's commands run in the order it sent them, none twice, through
\* peeks, interruptions and pauses.
InOrder == ~clashed => \A i, j \in DOMAIN ran : i < j => ran[i] < ran[j]

\* get_arexx_rc2 returns the answer to its own question, or 0 when the player
\* is on its way out.
AnswerIsOwn ==
  ~clashed /\ result.got # result.asked => result.got = 0 /\ main \in {"stopping", "stopped"}

\* A script that waits for an answer gets one, whether the player plays, is
\* paused or quits, unless its command was dropped.
GetReturns == arexx = "answer" ~> (arexx # "answer" \/ cmd.n \in lost \/ clashed)

\* StopArexx returns even if the task is waiting for an answer that main will
\* never give, and ArexxTask has then ended: its code is about to go.
StopReturns == main = "stopping" ~> (main = "stopped" \/ clashed)
EndedWhenStopped == ~clashed /\ main = "stopped" => arexx = "ended"

\* "remove the cmd from the queue" (input.c:1928), and likewise where the pause
\* ends (mplayer.c:2583, 2621): what is taken is what the peek returned.
RemovesPeeked == ~clashed => ~mixed
=============================================================================
