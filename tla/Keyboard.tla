------------------------------ MODULE Keyboard ------------------------------
(***************************************************************************)
(* How the keyboard driver of FuzzyOS reads scan codes (keyboard.c): the   *)
(* four modifier flags, and the four tables it chooses a character from.   *)
(* Console and Screen take a key for what this module makes of it.         *)
(***************************************************************************)
EXTENDS Naturals, Sequences, Folds, SequencesExt

CONSTANT MaxEvents    \* length of the checked sequences of key events

ASSUME MaxEventsAssumption == MaxEvents \in Nat

(* A scan code is a key and which way it goes.  Extended is 0xE0, the      *)
(* first of the two codes that the keys on the right and the arrow keys    *)
(* send; the driver has it for the press and the release of the right ctrl *)
(* and of the right alt.                                                   *)
Extended == <<"extended", "">>

NoModifiers == [control |-> FALSE, caps |-> FALSE, shift |-> FALSE, alt |-> FALSE]

(* Wrong on purpose: the second test of a flag comes first.                *)
SetReleaseFirst(flag, press, release) == press \/ (~release /\ flag)

Set(flag, press, release) == ~release /\ (press \/ flag)

Modified(f, code) ==
  LET press(keys)   == code \in keys \X {"down"}
      release(keys) == code \in keys \X {"up"}
      right         == code = Extended
  IN  [control |-> Set(f.control, press({"ctrl"}) \/ right, release({"ctrl"}) \/ right),
       caps    |-> f.caps # press({"caps"}),
       shift   |-> Set(f.shift, press({"lshift", "rshift"}), release({"lshift", "rshift"})),
       alt     |-> Set(f.alt, press({"alt"}) \/ right, release({"alt"}) \/ right)]

(* keyboard_map and its three companions, by the kind of the key.          *)
keyboard_map            == [letter |-> "lower", sign |-> "plain"]
keyboard_map_caps       == [letter |-> "upper", sign |-> "plain"]
keyboard_map_shift      == [letter |-> "upper", sign |-> "shifted"]
keyboard_map_shift_caps == [letter |-> "lower", sign |-> "shifted"]

Character(f, key) ==
  CASE f.shift /\ ~f.caps -> keyboard_map_shift[key]
    [] f.caps /\ ~f.shift -> keyboard_map_caps[key]
    [] f.shift /\ f.caps  -> keyboard_map_shift_caps[key]
    [] OTHER              -> keyboard_map[key]

-----------------------------------------------------------------------------
(* The keyboard itself: what a press or a release of a key sends.          *)
Keys == {"lctrl", "rctrl", "lalt", "ralt", "lshift", "rshift"}

Events == (Keys \X {"down", "up"}) \cup {<<"caps", "down">>, <<"arrow", "down">>}

Codes(e) ==
  CASE e[1] = "lctrl" -> <<<<"ctrl", e[2]>>>>
    [] e[1] = "rctrl" -> <<Extended, <<"ctrl", e[2]>>>>
    [] e[1] = "lalt"  -> <<<<"alt", e[2]>>>>
    [] e[1] = "ralt"  -> <<Extended, <<"alt", e[2]>>>>
    [] e[1] = "arrow" -> <<Extended, e>>
    [] OTHER          -> <<e>>

Held(events) ==
  FoldLeft(LAMBDA h, e : IF e[1] \notin Keys THEN h
                         ELSE IF e[2] = "down" THEN h \cup {e[1]} ELSE h \ {e[1]},
           {}, events)

(* Keys go up only when they are down; the two keys of a kind, and a ctrl  *)
(* or alt and a key with two codes, are not used at once: the driver knows *)
(* one flag for each kind, and clears ctrl and alt at every 0xE0.          *)
Pairs == {{"lctrl", "rctrl"}, {"lalt", "ralt"}, {"lshift", "rshift"}}

Usual(events) ==
  \A i \in 1 .. Len(events) :
    LET held == Held(SubSeq(events, 1, i - 1))
    IN  /\ events[i][2] = "up" <=> events[i][1] \in held
        /\ \A p \in Pairs : ~(p \subseteq held \cup {events[i][1]})
        /\ events[i][1] \in {"arrow", "rctrl", "ralt"}
             => held \cap ({"lctrl", "rctrl", "lalt", "ralt"} \ {events[i][1]}) = {}

Flags(events) == FoldLeft(LAMBDA f, e : FoldLeft(Modified, f, Codes(e)), NoModifiers, events)

CapsLocked(events) == Cardinality({i \in DOMAIN events : events[i][1] = "caps"}) % 2 = 1

UsualEvents == {events \in UNION {[1 .. n -> Events] : n \in 0 .. MaxEvents} : Usual(events)}

ModifiersFollowKeys(events) ==
  LET f == Flags(events)  held == Held(events)
  IN  /\ f.control <=> held \cap {"lctrl", "rctrl"} # {}
      /\ f.alt <=> held \cap {"lalt", "ralt"} # {}

CharactersFollowKeys(events) ==
  LET shifted == Held(events) \cap {"lshift", "rshift"} # {}
  IN  /\ Character(Flags(events), "letter") = IF shifted # CapsLocked(events) THEN "upper" ELSE "lower"
      /\ Character(Flags(events), "sign") = IF shifted THEN "shifted" ELSE "plain"
=============================================================================
