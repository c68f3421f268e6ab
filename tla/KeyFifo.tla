------------------------------- MODULE KeyFifo -------------------------------
(***************************************************************************)
(* Key events on their way from the window to the command interpreter:     *)
(* the FIFO of mp_fifo.c, filled by mplayer_put_key when the window's      *)
(* messages are handled, and interpret_key and check_autorepeat of         *)
(* input/input.c, which read it once per turn of the main loop.  The FIFO  *)
(* is short (7 events by default) and drops what does not fit, so the      *)
(* reader's idea of which keys are down has to survive lost events.        *)
(*                                                                         *)
(* Buttons send a press and a release; Taps send a release only, as the    *)
(* terminal's and the window's ordinary keys do.  Mouse buttons (the       *)
(* domain of Double) have a second code for a double click, itself a tap,  *)
(* and do not repeat.  Which command a combination gives is abstracted to  *)
(* the combination itself; that a release of a combination's last keys     *)
(* gives none (last_key_down) is left out.                                 *)
(***************************************************************************)
EXTENDS Integers, Sequences

CONSTANTS
  Size,      \* key_fifo_size, an option from 2 to 65000
  MaxDown,   \* MP_MAX_KEY_DOWN
  Buttons,   \* keys that send a press and a release
  Taps,      \* keys that send a release only
  Double,    \* [mouse buttons -> Taps]: the code of a button's double click
  NoKey,     \* the code 0
  AllUp      \* previous_down_key after an event with MP_KEY_RELEASE_ALL

ASSUME FifoAssumption ==
  /\ Size \in Nat /\ Size >= 2
  /\ MaxDown \in Nat \ {0}
  /\ Buttons \cap Taps = {}
  /\ NoKey \notin Buttons \cup Taps \cup {AllUp}
  /\ AllUp \notin Buttons \cup Taps
  /\ DOMAIN Double \subseteq Buttons
  /\ \A b \in DOMAIN Double : Double[b] \in Taps

Keys == Buttons \cup Taps
Mouse == DOMAIN Double
DoubleCodes == {Double[b] : b \in Mouse}

VARIABLES
  queue,              \* key_fifo_data from key_fifo_read to key_fifo_write
  previous_down_key,  \* the key of the event stored last if it was a press
  pressed,            \* the buttons the user holds
  last_key,           \* the last two buttons pressed, latest first
  quick,              \* the two presses are less than doubleclick_time apart
  key_down,           \* the keys the reader takes to be down, in order
  ar_state,           \* autorepeat: -1 off, 0 waiting, 1 repeating
  ar_cmd              \* the combination being repeated, <<>> when none

fifoVars == <<queue, previous_down_key>>
userVars == <<pressed, last_key, quick>>
readerVars == <<key_down, ar_state, ar_cmd>>
vars == <<fifoVars, userVars, readerVars>>

\* An event: a key code, MP_KEY_DOWN and MP_KEY_RELEASE_ALL.
Event == [key : Keys \cup {NoKey}, down : BOOLEAN, all : BOOLEAN]
PressOf(k) == [key |-> k, down |-> TRUE, all |-> FALSE]
ReleaseOf(k) == [key |-> k, down |-> FALSE, all |-> FALSE]
AllReleased(k) == [key |-> k, down |-> FALSE, all |-> TRUE]

Init ==
  /\ queue = <<>> /\ previous_down_key = NoKey
  /\ pressed = {} /\ last_key = <<NoKey, NoKey>> /\ quick = FALSE
  /\ key_down = <<>> /\ ar_state = -1 /\ ar_cmd = <<>>

-----------------------------------------------------------------------------
(* Writing: mplayer_put_key_internal on a FIFO f = [q, prev]. *)

Room(f) == Size - Len(f.q)
NotReserved(f, e) == FALSE                                     \* mutant
\* Half of the room is for releases only.
Reserved(f, e) == e.down /\ Room(f) <= Size \div 2
RefusedUnlessFree(f, e) == Room(f) = 0 \/ Reserved(f, e)        \* mutant
NoLimit(f, e) == Reserved(f, e) \/ (Room(f) = 1 /\ f.prev = AllUp)  \* mutant
Refused(f, e) ==
  \/ Room(f) = 0
  \/ Reserved(f, e)
  \/ (Room(f) = 1 /\ f.prev = AllUp)
AsItIs(f, e) == e                                              \* mutant
\* The last free entry becomes "all keys up", with the key if it is the one
\* pressed just before.
Stored(f, e) ==
  IF Room(f) = 1 THEN AllReleased(IF e.key = f.prev THEN e.key ELSE NoKey) ELSE e
After(e) == IF e.down THEN e.key ELSE IF e.all THEN AllUp ELSE NoKey
Put(f, e) ==
  IF Refused(f, e) THEN f
  ELSE [q |-> Append(f.q, Stored(f, e)), prev |-> After(Stored(f, e))]

Fifo == [q |-> queue, prev |-> previous_down_key]
PutDouble(f, k, twice) ==
  IF twice /\ k \in Mouse THEN Put(f, ReleaseOf(Double[k])) ELSE f
SetFifo(f) == queue' = f.q /\ previous_down_key' = f.prev

\* mplayer_put_key with MP_KEY_DOWN: the user presses a button.
Press(k) ==
  /\ k \notin pressed
  /\ pressed' = pressed \cup {k}
  /\ last_key' = <<k, last_key[1]>>
  /\ quick' \in BOOLEAN
  /\ SetFifo(PutDouble(Put(Fifo, PressOf(k)), k, last_key'[2] = k /\ quick'))
  /\ UNCHANGED readerVars

\* mplayer_put_key without it: the user lets the button go.
Release(k) ==
  /\ k \in pressed
  /\ pressed' = pressed \ {k}
  /\ quick' \in {quick, FALSE}
  /\ SetFifo(PutDouble(Put(Fifo, ReleaseOf(k)), k, last_key = <<k, k>> /\ quick'))
  /\ UNCHANGED <<last_key, readerVars>>

\* mplayer_put_key for a key that sends no press.  Double-click codes of the
\* system are ignored: they are generated here.
Tap(k) ==
  /\ k \notin DoubleCodes
  /\ SetFifo(Put(Fifo, ReleaseOf(k)))
  /\ UNCHANGED <<userVars, readerVars>>

-----------------------------------------------------------------------------
(* Reading: mplayer_get_key and interpret_key. *)

IsDown(s, k) == \E i \in DOMAIN s : s[i] = k
Position(s, k) == CHOOSE i \in DOMAIN s : s[i] = k
Without(s, j) == [i \in 1 .. Len(s) - 1 |-> IF i < j THEN s[i] ELSE s[i + 1]]
\* MP_KEY_RELEASE_ALL clears key_down before the rest of the event is read.
Held == IF Head(queue).all THEN <<>> ELSE key_down

GetKey ==
  /\ queue # <<>>
  /\ queue' = Tail(queue)
  /\ UNCHANGED <<previous_down_key, userVars>>

ReadAllUp ==
  /\ GetKey
  /\ Head(queue).key = NoKey
  /\ key_down' = Held
  /\ UNCHANGED <<ar_state, ar_cmd>>

RepeatsOn ==                                                   \* mutant
  /\ GetKey
  /\ Head(queue).down
  /\ IF IsDown(key_down, Head(queue).key) THEN UNCHANGED readerVars
     ELSE /\ key_down' = Append(key_down, Head(queue).key)
          /\ ar_state' = IF ar_state = 1 THEN 1 ELSE 0
          /\ UNCHANGED ar_cmd
ReadPress ==
  /\ GetKey
  /\ Head(queue).down
  /\ IF Len(key_down) > MaxDown \/ IsDown(key_down, Head(queue).key)
     THEN UNCHANGED readerVars
     ELSE /\ key_down' = Append(key_down, Head(queue).key)
          /\ ar_state' = 0
          /\ UNCHANGED ar_cmd

\* A release of a key that is not down counts as press and release, if there
\* is room for one more key.
ReadRelease ==
  /\ GetKey
  /\ ~Head(queue).down /\ Head(queue).key # NoKey
  /\ IF ~IsDown(Held, Head(queue).key) /\ Len(Held) >= MaxDown
     THEN key_down' = Held /\ UNCHANGED <<ar_state, ar_cmd>>
     ELSE /\ key_down' = IF IsDown(Held, Head(queue).key)
                         THEN Without(Held, Position(Held, Head(queue).key))
                         ELSE Held
          /\ ar_state' = -1
          /\ ar_cmd' = <<>>

\* check_autorepeat, while the last key down is one that repeats.  The first
\* time, the combination's command is looked up; it may not be bound.
Repeats ==
  /\ key_down # <<>>
  /\ key_down[Len(key_down)] \notin Mouse \cup DoubleCodes
StartRepeat ==
  /\ ar_state = 0 /\ Repeats
  /\ \/ ar_cmd' = key_down /\ ar_state' = 1
     \/ ar_cmd' = <<>> /\ ar_state' = -1
  /\ UNCHANGED <<key_down, fifoVars, userVars>>

Next ==
  \/ \E k \in Buttons : Press(k) \/ Release(k)
  \/ \E k \in Taps : Tap(k)
  \/ ReadAllUp \/ ReadPress \/ ReadRelease \/ StartRepeat

Spec == Init /\ [][Next]_vars

-----------------------------------------------------------------------------
(* Properties. *)

\* Type invariant; the FIFO never holds more than key_fifo_size events, and
\* only releases carry MP_KEY_RELEASE_ALL.
TypeOK ==
  /\ queue \in Seq(Event) /\ Len(queue) <= Size
  /\ \A i \in DOMAIN queue : queue[i].all => ~queue[i].down
  /\ \A i \in DOMAIN queue : queue[i].down => queue[i].key \in Buttons
  /\ previous_down_key \in Buttons \cup {NoKey, AllUp}
  /\ pressed \subseteq Buttons
  /\ last_key \in (Buttons \cup {NoKey}) \X (Buttons \cup {NoKey})
  /\ quick \in BOOLEAN
  /\ key_down \in Seq(Keys)
  /\ ar_state \in {-1, 0, 1}
  /\ ar_cmd \in Seq(Keys)

\* The event makes the reader take k to be up.
Lifts(e, k) == e.all \/ (e.key = k /\ ~e.down)

\* "reserve some space for key release events to avoid stuck keys"
\* (mp_fifo.c:36): whatever is dropped, a button that the user does not hold
\* and the reader takes to be down, or will when it reads on, is lifted by an
\* event that is still to be read.
NoStuckKey ==
  \A k \in Buttons \ pressed :
    /\ IsDown(key_down, k) => \E j \in DOMAIN queue : Lifts(queue[j], k)
    /\ \A i \in DOMAIN queue :
         queue[i] = PressOf(k) => \E j \in DOMAIN queue : j > i /\ Lifts(queue[j], k)

\* "Make sure we do not reset key state because of a down event"
\* (mp_fifo.c:37): a press that finds the FIFO nearly full does not lift the
\* other keys.  Mouse buttons are excepted: the double click of a press that
\* was dropped may still take the last entry and reset.
PressResetsNothing ==
  [][\A k \in (pressed' \ pressed) \ Mouse :
       \A i \in DOMAIN queue' : queue'[i].all => i \in DOMAIN queue]_vars

\* "ensure we do not only create MP_KEY_RELEASE_ALL events" (mp_fifo.c:42): an
\* overfull FIFO read one event at a time still lets other keys through.
NoTwoResets ==
  \A i \in 2 .. Len(queue) : ~(queue[i - 1].all /\ queue[i].all)

\* No key is in key_down (input.c:590) twice: a second release would find only
\* one of the two.
NoKeyTwice == \A i, j \in DOMAIN key_down : key_down[i] = key_down[j] => i = j

\* What is repeated (check_autorepeat, input.c:1213) is a command, and the one
\* of the keys that are down, through presses, releases and resets read since.
RepeatIsCurrent ==
  ar_state = 1 => ar_cmd # <<>> /\ (key_down # <<>> => ar_cmd = key_down)

=============================================================================
