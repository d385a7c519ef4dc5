------------------------------ MODULE MCScreen ------------------------------
(***************************************************************************)
(* A small screen; and, in behaviours of their own that start with an      *)
(* input and leave the screen alone, the library and the keyboard tables.  *)
(***************************************************************************)
EXTENDS Screen, Keyboard

VARIABLE input    \* what the functions are applied to in this behaviour

Letter     == SPACE + 1
MCOutputs  == {<<Letter, NEWLINE>>}
MCPrompt   == <<Letter>>

Input(kind, of) == input = [kind |-> kind, of |-> of]

MCInit ==
  /\ Init
  /\ \/ Input("none", <<>>)
     \/ \E area \in Areas : Input("copy", area)
     \/ \E w \in Word : Input("word", <<w>>)
     \/ \E s \in Commands : Input("command", <<s>>)
     \/ \E s, r \in Strings, n \in 0 .. MaxString + 1 : Input("strings", <<s, r, n>>)
     \/ \E events \in UsualEvents : Input("keys", <<events>>)

MCNext ==
  \/ input.kind = "none" /\ Next /\ UNCHANGED input
  \/ input.kind # "none" /\ UNCHANGED <<vars, input>>

MCSpec == MCInit /\ [][MCNext]_<<vars, input>>

-----------------------------------------------------------------------------
(* memcpy is right for areas that do not overlap and for a destination     *)
(* below the source, which scroll_down relies on; memmove for all; memset  *)
(* for every alignment and remainder (lib.c:457, :540, :586).              *)
CopyCorrect ==
  input.kind = "copy" =>
    LET n == input.of[1]  dest == input.of[2]  src == input.of[3]
    IN  MemcpyCopies(n, dest, src) /\ MemmoveCopies(n, dest, src) /\ MemsetFills(n, dest)

(* Every word is printed as the number it is, the most negative one and 0  *)
(* included, with %#x in its full width, and each conversion takes its own *)
(* argument (lib.c:45, :389).                                              *)
NumbersPrinted ==
  input.kind = "word" => HexPrinted(input.of[1]) /\ DecimalPrinted(input.of[1])

(* A command line comes apart into its command and its arguments, whatever *)
(* spaces surround them, and getargs hands out exactly the arguments, if   *)
(* they fit; comparing up to n characters is comparing the prefixes        *)
(* (system_call.c:158, :432; lib.c:617, :654).                             *)
StringsCorrect ==
  /\ input.kind = "command" => CommandParsed(input.of[1])
  /\ input.kind = "strings" =>
       /\ StringsCompared(input.of[1], input.of[2], input.of[3])
       /\ ArgumentsDelivered(input.of[1], input.of[3])

(* After any usual sequence of presses and releases, of keys with one or   *)
(* with two scan codes, the flags say which keys are held, and a key gives *)
(* the character a typist expects (keyboard.c:129, :203).                  *)
Decoding ==
  input.kind = "keys" => ModifiersFollowKeys(input.of[1]) /\ CharactersFollowKeys(input.of[1])
=============================================================================
