------------------------------- MODULE PlayTree -------------------------------
(***************************************************************************)
(* The play list (playtree.c) and the part of main and of the slave        *)
(* commands that walks it (mplayer.c, command.c): which file plays next,   *)
(* and with which options.                                                 *)
(*                                                                         *)
(* An iterator stands at a node of a tree of groups and entries, with a    *)
(* stack of loop counts and a level of the configuration for every group   *)
(* around the entry.  The functions of playtree.c call each other in tail  *)
(* position, also recursively: one call is one action, and `call' is the   *)
(* one to run now, `answer' what the last of them returned.                *)
(***************************************************************************)
EXTENDS ConfigStack, FiniteSets

CONSTANTS
  Nodes,     \* every play_tree_t there may be
  Root,      \* mpctx->playtree
  Files,     \* how many files each has: 0 makes it PLAY_TREE_ENTRY_NODE
  Lists,     \* entries whose file turns out to be a play list
  Contents,  \* the group each play list holds, None for an empty one
  Fresh,     \* what play_tree_new gives to LOADFILE
  Trees,     \* the trees the command line may give
  Default,   \* the options before the first file
  IdleMode,  \* -idle
  Asks,      \* the commands that come in
  MaxAsks,   \* and how many of them
  None

(* A tree as it is given: its nodes refer to each other as in a tree, that is,
   each is in one group at most, and has as many groups around it as its level
   says, a list's contents like the list, new nodes like those under the root. *)
GivenTrees ==
  [kids : [Nodes -> Seq(Nodes)], loop : [Nodes -> Int],
   params : [Nodes -> Seq(Options \X Values)], rnd : SUBSET Nodes, played : SUBSET Nodes]

Layered(t, level) ==
  /\ level[Root] = 0
  /\ \A n \in Nodes : \A k \in Range(t.kids[n]) : level[k] = level[n] + 1
  /\ \A l \in Lists : Contents[l] # None => level[Contents[l]] = level[l]
  /\ \A n \in Fresh : level[n] = 1

Single(t) == \A p, q \in Nodes : p # q => Range(t.kids[p]) \cap Range(t.kids[q]) = {}

(* play_tree_iter_t: the entry it stands on, the loops left for the group around
   it and for those around that, which file of the entry plays, and whether the
   entry has a level of the configuration open. *)
Iterators ==
  [tree : Nodes \cup {None}, loop : Int, file : Int, num : Nat, pushed : BOOLEAN,
   random : BOOLEAN, stack : Seq(Int), config : BOOLEAN]

ASSUME PlayTreeAssumption ==
  /\ Root \in Nodes /\ None \notin Nodes /\ None \notin Iterators /\ IsFiniteSet(Nodes)
  /\ Files \in [Nodes -> Nat] /\ Lists \subseteq Nodes \ {Root} /\ Fresh \subseteq Nodes
  /\ Contents \in [Lists -> Nodes \cup {None}]
  /\ Default \in [Vars -> Values]
  /\ "stop" \notin Nodes
  /\ \A t \in Trees :
       /\ t \in GivenTrees /\ Single(t)
       /\ \E deep \in 0 .. Cardinality(Nodes) : \E level \in [Nodes -> 0 .. deep] : Layered(t, level)

VARIABLES
  tree,      \* the nodes: kids, loop, params, the flags PLAY_TREE_RND and _PLAYED
  iter,      \* mpctx->playtree_iter, None when freed
  kept,      \* the same while a command runs its question on a copy
  config,    \* mconfig
  call,      \* the function of playtree.c to run
  answer,    \* what it returned
  pc,        \* where main is
  eof,       \* mpctx->eof
  step,      \* mpctx->play_tree_step
  arg,       \* what the command in progress brought
  asks,      \* commands so far
  at, heard, touched, changed, outside   \* history: see PlaysAsListed and EnvIsPath

world == <<tree, iter, kept, config>>
history == <<at, heard, touched, changed, outside>>
vars == <<tree, iter, kept, config, call, answer, pc, eof, step, arg, asks,
          at, heard, touched, changed, outside>>

(*------------------------------- The tree --------------------------------*)

Parent(t, n) == LET ps == {p \in Nodes : n \in Range(t.kids[p])}
                IN  IF ps = {} THEN None ELSE CHOOSE p \in ps : TRUE

Siblings(t, n) == IF Parent(t, n) = None THEN <<n>> ELSE t.kids[Parent(t, n)]

IndexOf(s, n) == CHOOSE i \in DOMAIN s : s[i] = n

(* play_tree_is_valid: a file, or a group with something valid in it. *)
IsValid(t, n) ==
  LET valid[m \in Nodes] == Files[m] > 0 \/ \E k \in Range(t.kids[m]) : valid[k]
  IN  valid[n]

(* play_tree_insert_entry, play_tree_append_entry, play_tree_set_child on a
   list of children, play_tree_remove. *)
InsertAfter(t, n, new) ==
  LET p == Parent(t, n) IN
  [t EXCEPT !.kids[p] = InsertAt(@, IndexOf(@, n) + 1, new)]

AppendTo(t, p, new) == [t EXCEPT !.kids[p] = Append(@, new)]

Removed(t, n) ==
  IF Parent(t, n) = None THEN t
  ELSE [t EXCEPT !.kids[Parent(t, n)] = RemoveAt(@, IndexOf(@, n))]

(* The groups around a node, outermost first, and the node. *)
Path(t, n) ==
  LET path[m \in Nodes] == IF Parent(t, m) = None THEN <<m>>
                           ELSE Append(path[Parent(t, m)], m)
  IN  path[n]

(*----------------------------- The iterator ------------------------------*)

NewIter == [tree |-> None, loop |-> 0, file |-> 0, num |-> 0, pushed |-> FALSE,
            random |-> FALSE, stack |-> << >>, config |-> TRUE]

NoCall == [op |-> "none", d |-> 0, nodes |-> FALSE]
Call(op, d, nodes) == call' = [op |-> op, d |-> d, nodes |-> nodes]
Return(r) == call' = NoCall /\ answer' = r
GoOn(op, d) == Call(op, d, call.nodes) /\ UNCHANGED answer

Here == iter.tree
Loops(n) == IF n = None THEN 0 ELSE tree.loop[n]

Walking == UNCHANGED <<kept, pc, eof, step, arg, asks, history>>

(* play_tree_iter_step begins by leaving the entry it stands on. *)
Random == Parent(tree, Here) \in tree.rnd

Settled == [iter EXCEPT !.pushed = @ /\ ~iter.config, !.random = Random, !.file = -1]

LeftOpen == config                                                 \* mutant
Left == IF iter.config /\ iter.pushed THEN PopConfig(config) ELSE config

(* The siblings the step may land on: one that was not played yet, or the one
   d places on. *)
Unplayed == Range(Siblings(tree, Here)) \ tree.played

Place == IndexOf(Siblings(tree, Here), Here) + call.d
Targets ==
  IF Random THEN Unplayed
  ELSE {Siblings(tree, Here)[i] : i \in {Place} \cap DOMAIN Siblings(tree, Here)}

(* The rest of d after the move, never 0 unless it was. *)
Rest ==
  LET n    == Len(Siblings(tree, Here))
      over == IF Place > n THEN Place - n - 1 ELSE IF Place < 1 THEN Place ELSE 0
  IN  IF Random \/ call.d = 0 THEN call.d
      ELSE IF over # 0 THEN over
      ELSE IF call.d > 0 THEN 1 ELSE -1

(* play_tree_iter_push_params *)
Pushed(c, n) == SetOptions(PushConfig(c), tree.params[n])

StepRoot ==
  /\ call.op = "step" /\ Here = None
  /\ iter' = [iter EXCEPT !.tree = Root]
  /\ GoOn("step", 0)
  /\ UNCHANGED <<tree, config>> /\ Walking

Stepping == call.op = "step" /\ Here # None

HasValidChild(n) == tree.kids[n] # << >> /\ IsValid(tree, Head(tree.kids[n]))

StepNode ==
  /\ Stepping
  /\ \E n \in Targets :
       /\ HasValidChild(n)
       /\ iter' = [Settled EXCEPT !.tree = n]
  /\ config' = Left
  /\ IF call.nodes THEN Return("node") ELSE GoOn("down", Rest)
  /\ UNCHANGED tree /\ Walking

MarkPlayed(n) == tree' = [tree EXCEPT !.played = IF iter.config /\ Random THEN @ \cup {n} ELSE @]

StepEntry ==
  /\ Stepping
  /\ \E n \in Targets :
       /\ Files[n] > 0
       /\ iter' = [Settled EXCEPT !.tree = n, !.num = Files[n], !.pushed = @ \/ iter.config]
       /\ config' = IF iter.config THEN Pushed(Left, n) ELSE config
       /\ MarkPlayed(n)
  /\ Return("entry")
  /\ Walking

(* A group with nothing in it: the call is repeated from the same place. *)
StepInvalid ==
  /\ Stepping
  /\ \E n \in Targets : ~IsValid(tree, n)
  /\ iter' = Settled /\ config' = Left
  /\ IF Rest = 0 THEN Return("error") ELSE GoOn("step", Rest)
  /\ UNCHANGED tree /\ Walking

(* Every sibling was played: the next round, or the end, whatever is around. *)
StepRoundKeeps ==                                                  \* mutant
  /\ Stepping /\ Targets = {} /\ Random
  /\ iter' = Settled /\ config' = Left
  /\ IF tree.loop[Root] = 0 THEN Return("end") ELSE GoOn("step", 0)
  /\ UNCHANGED tree /\ Walking

StepRound ==
  /\ Stepping /\ Targets = {} /\ Random
  /\ iter' = Settled /\ config' = Left
  /\ IF tree.loop[Root] = 0
       THEN Return("end") /\ UNCHANGED tree
       ELSE /\ GoOn("step", 0)
            /\ tree' = [tree EXCEPT !.played = {},
                                    !.loop[Root] = IF @ > 0 THEN @ - 1 ELSE @]
  /\ Walking

(* Past either end of a group that loops. *)
LoopsOnce ==                                                       \* mutant
  Loops(Parent(tree, Here)) # 0 /\ Rest > 0 /\ iter.loop > 0 /\ iter.loop # 1
LoopsAgain ==
  LET all == Loops(Parent(tree, Here)) IN
  /\ all # 0
  /\ \/ Rest > 0 /\ iter.loop # 0
     \/ Rest < 0 /\ (iter.loop < 0 \/ iter.loop < all)

StepLoop ==
  /\ Stepping /\ Targets = {} /\ ~Random /\ LoopsAgain
  /\ LET s == Siblings(tree, Here) IN
     iter' = [Settled EXCEPT
                !.tree = IF Rest > 0 THEN Head(s) ELSE Last(s),
                !.loop = IF Rest > 0 THEN (IF @ > 0 THEN @ - 1 ELSE @)
                         ELSE IF @ >= 0 THEN @ + 1 ELSE @]
  /\ config' = Left
  /\ GoOn("step", 0)
  /\ UNCHANGED tree /\ Walking

StepUp ==
  /\ Stepping /\ Targets = {} /\ ~Random /\ ~LoopsAgain
  /\ iter' = Settled /\ config' = Left
  /\ GoOn("up", Rest)
  /\ UNCHANGED tree /\ Walking

(* play_tree_iter_up_step *)
UpEnds ==
  /\ call.op = "up" /\ Parent(tree, Here) = None
  /\ iter' = [iter EXCEPT !.file = -1]
  /\ Return("end")
  /\ UNCHANGED <<tree, config>> /\ Walking

UpGoes ==
  /\ call.op = "up" /\ Parent(tree, Here) # None
  /\ LET p == Parent(tree, Here) IN
     /\ iter' = [iter EXCEPT !.file = -1, !.tree = p, !.loop = Last(iter.stack),
                             !.stack = Front(@)]
     /\ config' = IF iter.config THEN PopConfig(config) ELSE config
     /\ tree' = [tree EXCEPT !.played = IF iter.config /\ iter.random THEN @ \cup {p} ELSE @]
  /\ GoOn("step", call.d)
  /\ Walking

(* play_tree_iter_down_step *)
DownStep ==
  /\ call.op = "down"
  /\ iter' = [iter EXCEPT !.file = -1, !.stack = Append(@, iter.loop),
                          !.loop = tree.loop[Here] - 1,
                          !.tree = IF call.d >= 0 THEN Head(tree.kids[Here])
                                                  ELSE Last(tree.kids[Here])]
  /\ config' = IF iter.config THEN Pushed(config, Here) ELSE config
  /\ GoOn("step", 0)
  /\ UNCHANGED tree /\ Walking

Iterate == StepRoot \/ StepNode \/ StepEntry \/ StepInvalid \/ StepRound \/ StepLoop
           \/ StepUp \/ UpEnds \/ UpGoes \/ DownStep

(*---------------------------------- main ---------------------------------*)

Init ==
  /\ tree \in Trees
  /\ iter = NewIter /\ kept = None /\ config = NewConfig(Default)
  /\ call = [NoCall EXCEPT !.op = "step"] /\ answer = None
  /\ pc = "first" /\ eof = 1 /\ step = 1 /\ arg = None /\ asks = 0
  /\ at = 0 /\ heard = {} /\ touched = FALSE /\ changed = FALSE
  /\ outside = Default

Returned(where) == pc = where /\ call.op = "none"

(* Playing stops with a new value of eof, and main goes to goto_next_file. *)
Leave(e) == eof' = e /\ pc' = "leave"

LeaveByStep ==
  /\ pc = "leave" /\ eof \in {1, -1}
  /\ Call("step", step, FALSE) /\ pc' = "next"
  /\ UNCHANGED <<world, answer, eof, step, arg, asks, history>>

LeaveByUp ==
  /\ pc = "leave" /\ eof \in {3, -3}
  /\ Call("up", IF eof > 0 THEN 1 ELSE -1, FALSE) /\ pc' = "next"
  /\ UNCHANGED <<world, answer, eof, step, arg, asks, history>>

LeaveBySource ==
  /\ pc = "leave" /\ eof \in {2, -2}
  /\ eof' = (IF eof > 0 THEN 1 ELSE -1) /\ pc' = "file"
  /\ UNCHANGED <<world, call, answer, step, arg, asks, history>>

LeaveStopped ==
  /\ pc = "leave" /\ eof = 4
  /\ iter' = None /\ pc' = "file"
  /\ UNCHANGED <<tree, kept, config, call, answer, eof, step, arg, asks, history>>

KeepIfEntry == iter' = IF answer = "entry" THEN iter ELSE None

NextReturned ==
  /\ Returned("next") \/ Returned("first")
  /\ KeepIfEntry
  /\ eof' = 1 /\ step' = 1 /\ pc' = "file"
  /\ UNCHANGED <<tree, kept, config, call, answer, arg, asks, history>>

AgainReturned ==
  /\ Returned("again")
  /\ KeepIfEntry
  /\ pc' = "file"
  /\ UNCHANGED <<tree, kept, config, call, answer, eof, step, arg, asks, history>>

(* play_tree_iter_get_file *)
RefusedLate == iter.file > iter.num - 1 \/ iter.file < -1          \* mutant
Refused == iter.file >= iter.num - 1 \/ iter.file < -1

NextFile == IF eof > 0 THEN iter.file + 1
            ELSE IF iter.file <= 0 THEN iter.num - 1 ELSE iter.file - 1

Times(n) == IF tree.loop[n] > 1 THEN tree.loop[n] ELSE 1

(* What the tree says to play: groups in order, as often as they loop. *)
Order ==
  LET order[n \in Nodes] ==
        IF Files[n] > 0 THEN <<n>>
        ELSE LET once == FlattenSeq([i \in DOMAIN tree.kids[n] |-> order[tree.kids[n][i]]])
             IN  FlattenSeq([i \in 1 .. Times(n) |-> once])
  IN  order[Root]

Hear ==
  IF touched \/ iter.file # -1 THEN UNCHANGED <<at, heard>>
  ELSE /\ at' = IF at = Len(Order) /\ tree.loop[Root] < 0 THEN 1 ELSE at + 1
       /\ heard' = IF at = Len(Order) THEN {Here} ELSE heard \cup {Here}

Touch == touched' = TRUE /\ at' = 0 /\ heard' = {} /\ UNCHANGED outside

GetFile ==
  /\ pc = "file" /\ iter # None /\ ~Refused
  /\ iter' = [iter EXCEPT !.file = NextFile]
  /\ Hear
  /\ changed' = (changed /\ iter.file # -1)
  /\ pc' = "play" /\ eof' = 0
  /\ UNCHANGED <<tree, kept, config, call, answer, step, arg, asks, touched, outside>>

NoMoreFiles ==
  /\ pc = "file" /\ iter # None /\ Refused
  /\ Call("step", eof, FALSE) /\ pc' = "again"
  /\ UNCHANGED <<world, answer, eof, step, arg, asks, history>>

NoMoreEntries ==
  /\ pc = "file" /\ iter = None
  /\ pc' = (IF IdleMode THEN "idle" ELSE "over") /\ eof' = 0
  /\ UNCHANGED <<world, call, answer, step, arg, asks, history>>

Playing == pc = "play" /\ Here \notin Lists

FileEnds ==
  /\ Playing
  /\ Leave(1)
  /\ UNCHANGED <<world, call, answer, step, arg, asks, history>>

(* playtree_add_playlist: the file is a play list.  Its entries go behind it,
   with its options, and it goes. *)
OpenList ==
  /\ pc = "play" /\ Here \in Lists
  /\ LET new == Contents[Here] IN
     tree' = IF new = None THEN tree
             ELSE [InsertAfter(tree, Here, new) EXCEPT
                     !.params[new] = @ \o tree.params[Here]]
  /\ arg' = Here /\ Touch
  /\ Call("step", 1, FALSE) /\ pc' = "list"
  /\ UNCHANGED <<iter, kept, config, answer, eof, step, asks, changed>>

ListReturned ==
  /\ Returned("list")
  /\ IF answer # "entry"
       THEN Leave(1) /\ UNCHANGED <<tree, call>>
       ELSE IF Contents[arg] = None /\ Here = arg
       THEN Call("up", 1, FALSE) /\ pc' = "listup" /\ UNCHANGED <<tree, eof>>
       ELSE tree' = Removed(tree, arg) /\ Leave(2) /\ UNCHANGED call
  /\ UNCHANGED <<iter, kept, config, answer, step, arg, asks, history>>

ListUpReturned ==
  /\ Returned("listup")
  /\ IF answer # "entry" THEN Leave(1) /\ UNCHANGED tree
                         ELSE tree' = Removed(tree, arg) /\ Leave(2)
  /\ UNCHANGED <<iter, kept, config, call, answer, step, arg, asks, history>>

(*------------------------------- Commands --------------------------------*)

Asked(what) == what \in Asks /\ asks < MaxAsks /\ asks' = asks + 1

(* An unforced step is first tried on a copy without configuration, the tree
   itself shared. *)
Try(op, n, e, by) ==
  /\ kept' = iter /\ iter' = [iter EXCEPT !.config = FALSE]
  /\ arg' = [eof |-> e, step |-> by]
  /\ Call(op, n, FALSE) /\ pc' = "asked"
  /\ UNCHANGED <<eof, step>>

Forced(e, by) == Leave(e) /\ step' = by /\ UNCHANGED <<iter, kept, arg, call>>

StepBy ==
  /\ Playing /\ Asked("step") /\ Touch
  /\ \E n \in {-1, 1, 2} :
       LET e == IF n > 0 THEN 1 ELSE -1
       IN  Try("step", n, e, n) \/ Forced(e, n)
  /\ UNCHANGED <<tree, config, answer, changed>>

UpStep ==
  /\ Playing /\ Asked("up") /\ Touch
  /\ \E n \in {-1, 1} : Try("up", n, 3 * n, step) \/ Forced(3 * n, step)
  /\ UNCHANGED <<tree, config, answer, changed>>

TryReturned ==
  /\ Returned("asked")
  /\ iter' = kept /\ kept' = None /\ arg' = None
  /\ IF answer = "entry" THEN Leave(arg.eof) /\ step' = arg.step
                         ELSE pc' = "play" /\ UNCHANGED <<eof, step>>
  /\ UNCHANGED <<tree, config, call, answer, asks, history>>

(* The other files of the entry. *)
AltSource ==
  /\ Playing /\ Asked("src") /\ Touch
  /\ iter.num > 1
  /\ \/ iter.file < iter.num /\ Leave(2)
     \/ iter.file > 1 /\ Leave(-2)
  /\ UNCHANGED <<world, call, answer, step, arg, changed>>

(* What play_tree_new or a parser returns, to put under the root. *)
NewNodes == {n \in Fresh : Parent(tree, n) = None}
Clean(t, n) == [t EXCEPT !.params[n] = << >>, !.played = @ \ ({n} \cup Range(t.kids[n]))]

LoadBehind ==
  /\ Playing /\ Asked("append") /\ Touch
  /\ \E n \in NewNodes : tree' = AppendTo(Clean(tree, n), Root, n)
  /\ UNCHANGED <<iter, kept, config, call, answer, pc, eof, step, arg, changed>>

(* LOADFILE and LOADLIST that replace, and STOP, go back to the root first. *)
Unwind(a) ==
  /\ Call("up", 0, TRUE) /\ pc' = "unwind" /\ arg' = a
  /\ UNCHANGED <<world, answer, eof, step, changed>>

LoadInstead == Playing /\ Asked("load") /\ Touch /\ \E n \in NewNodes : Unwind(n)

Stop == Playing /\ Asked("stop") /\ Touch /\ Unwind("stop")

OnlyChild(n) == tree' = [Clean(tree, n) EXCEPT !.kids[Root] = <<n>>]

UnwindReturned ==
  /\ Returned("unwind")
  /\ \/ /\ answer # "end"
        /\ Call("up", 0, TRUE)
        /\ UNCHANGED <<tree, iter, pc, eof, arg>>
     \/ /\ answer = "end" /\ arg = "stop"
        /\ Leave(4)
        /\ UNCHANGED <<tree, iter, call, arg>>
     \/ /\ answer = "end" /\ arg # "stop"
        /\ OnlyChild(arg)
        /\ iter' = [iter EXCEPT !.tree = Root]      \* pt_iter_goto_head
        /\ Call("step", 0, FALSE) /\ pc' = "head"
        /\ UNCHANGED <<eof, arg>>
  /\ UNCHANGED <<kept, config, answer, step, asks, history>>

HeadReturned ==
  /\ Returned("head")
  /\ Leave(2)
  /\ UNCHANGED <<world, call, answer, step, arg, asks, history>>

(* The same in the idle loop, with a new iterator. *)
LoadIdle ==
  /\ pc = "idle" /\ Asked("load") /\ Touch
  /\ \E n \in NewNodes : OnlyChild(n)
  /\ iter' = NewIter
  /\ Call("step", 0, FALSE) /\ pc' = "first"
  /\ UNCHANGED <<kept, config, answer, eof, step, arg, changed>>

(* set_property, or a command for an option: its variable changes. *)
ChangeOption ==
  /\ pc \in {"play", "idle"} /\ Asked("change")
  /\ \E v \in Vars, x \in Values :
       /\ config' = ChangeVar(config, v, x)
       /\ outside' = IF pc = "idle" THEN [outside EXCEPT ![v] = x] ELSE outside
  /\ changed' = (pc = "play")
  /\ UNCHANGED <<tree, iter, kept, call, answer, pc, eof, step, arg, at, heard, touched>>

Main == LeaveByStep \/ LeaveByUp \/ LeaveBySource \/ LeaveStopped \/ NextReturned
        \/ AgainReturned \/ GetFile \/ NoMoreFiles \/ NoMoreEntries \/ FileEnds
        \/ OpenList \/ ListReturned \/ ListUpReturned \/ TryReturned
        \/ UnwindReturned \/ HeadReturned

Command == StepBy \/ UpStep \/ AltSource \/ LoadBehind \/ LoadInstead \/ Stop
           \/ LoadIdle \/ ChangeOption

Next == Iterate \/ Main \/ Command

Spec == Init /\ [][Next]_vars /\ WF_vars(Iterate)

(*------------------------------- Properties ------------------------------*)

(* The types of the state: there is an iterator whenever one of the functions of
   playtree.c runs, a second one exactly while a command asks its question on a
   copy, and main never sees a file number or an eof out of its range. *)
TypeOK ==
  /\ tree \in GivenTrees
  /\ iter = None \/ (iter \in Iterators /\ iter.file \in -1 .. iter.num - 1 \cup {0})
  /\ call.op # "none" => iter # None
  /\ kept # None <=> pc = "asked"
  /\ config \in Configs
  /\ eof \in -3 .. 4 /\ step \in {-1, 1, 2}

(* The files that play are in the list, and play with the options before the
   first file (and what was changed while nothing played), then those of the
   groups around the file, outermost first, and its own: whatever played before,
   however it was left, and whichever commands changed options on the way
   (play_tree_iter_push_params against m_config_pop in playtree.c). *)
EnvIsPath ==
  pc = "play" =>
    LET path == Path(tree, Here)
        env  == SetOptions(NewConfig(outside),
                           FlattenSeq([i \in DOMAIN path |-> tree.params[path[i]]])).value
    IN  /\ Head(path) = Root
        /\ Len(iter.stack) = Len(path) - 1
        /\ ~changed => \A v \in Scoped : config.value[v] = env[v]

(* As long as nobody interferes, the files play in the order of the list, groups
   as often as their -loop says, and none is left out or comes twice; a shuffled
   list plays each file once before any of them again (play_tree_iter_step with
   its ups and downs). *)
PlaysAsListed ==
  ~touched =>
    /\ pc = "play" => IF Root \in tree.rnd THEN Cardinality(heard) = at
                      ELSE at \in DOMAIN Order /\ Here = Order[at]
    /\ pc \in {"idle", "over"} => at = Len(Order)

(* Every way through the list opens and closes contexts of the configuration in
   pairs, and a context that is left gives back what was before (m_config.h: "Pop
   the current context restoring the previous context state."). *)
Outer == INSTANCE Scopes WITH Vars <- Scoped, levels <- Levels(config)
OptionsAreScoped == Outer!Spec

(* A step in the list comes to an answer: no arrangement of loops, groups and
   shuffles keeps playtree.c walking round, as long as no empty play list has
   left a group of the list with nothing in it. *)
Hollow == \E n \in Nodes : Head(Path(tree, n)) = Root /\ ~IsValid(tree, n)
Returns == (call.op # "none" /\ ~Hollow) ~> call.op = "none"
=============================================================================
