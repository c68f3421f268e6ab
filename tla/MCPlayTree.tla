----------------------------- MODULE MCPlayTree -----------------------------
(* Lists for PlayTree: the letters are nodes, "r" the root. *)
EXTENDS PlayTree

AllNodes == {"r", "g", "a", "b", "c", "l", "e", "h", "x", "y", "z"}
FileCounts == [n \in AllNodes |-> CASE n \in {"r", "g", "h"} -> 0 [] n = "a" -> 2 [] n = "c" -> 4
                               [] OTHER -> 1]
ListEntries == {"l", "e"}
ListContents == [n \in ListEntries |-> IF n = "l" THEN "h" ELSE None]
NewFiles == {"x"}

NoKids == [n \in AllNodes |-> IF n = "h" THEN <<"y", "z">> ELSE << >>]
NoLoop == [n \in AllNodes |-> 0]
NoParams == [n \in AllNodes |-> << >>]
Plain == [kids |-> NoKids, loop |-> NoLoop, params |-> NoParams, rnd |-> {}, played |-> {}]

(* { a -o 1  { -o 2 b c } -loop 2 } and so on *)
Nested == [Plain EXCEPT !.kids["r"] = <<"a", "g">>, !.kids["g"] = <<"b", "c">>,
                        !.loop["g"] = 2,
                        !.params["a"] = <<<<"o", 1>>>>,
                        !.params["g"] = <<<<"o", 2>>>>,
                        !.params["c"] = <<<<"o", 1>>, <<"nop", 1>>>>]
Endless == [Plain EXCEPT !.kids["r"] = <<"g", "a">>, !.kids["g"] = <<"b">>,
                         !.loop["r"] = -1, !.params["g"] = <<<<"o", 1>>>>]
Shuffled == [Plain EXCEPT !.kids["r"] = <<"a", "b", "c">>, !.rnd = {"r"},
                          !.params["b"] = <<<<"o", 1>>>>]
ShuffledEndless == [Shuffled EXCEPT !.loop["r"] = -1]
Listed == [Plain EXCEPT !.kids["r"] = <<"l", "a">>, !.loop["r"] = 2, !.params["l"] = <<<<"o", 1>>>>]
EmptyListed == [Plain EXCEPT !.kids["r"] = <<"e", "a">>, !.params["e"] = <<<<"o", 1>>>>]
OnlyEmpty == [Plain EXCEPT !.kids["r"] = <<"e">>, !.loop["r"] = -1]
EmptyLast == [Plain EXCEPT !.kids["r"] = <<"a", "e">>]
Emptied == [Plain EXCEPT !.kids["r"] = <<"g", "a">>, !.kids["g"] = <<"e">>,
                         !.loop["r"] = -1, !.loop["g"] = 2]

MCTrees == {Nested, Endless, Shuffled, ShuffledEndless, Listed, EmptyListed, EmptyLast,
            OnlyEmpty, Emptied}

OptionNames == {"o", "p", "nop"}
VariableOf == [o \in OptionNames |-> IF o = "nop" THEN "p" ELSE o]
Defaults == [v \in {"o", "p"} |-> 0]
=============================================================================
