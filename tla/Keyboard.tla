------------------------------ MODULE Keyboard ------------------------------
(***************************************************************************)
(* The keyboard handler of the MP3 kernel in front of the terminals: the   *)
(* scan codes of the keys, the modifier keys that are held down, and what  *)
(* the handler makes of a code, which is a key of module Terminal or none. *)
(*                                                                         *)
(* The handler runs with interrupts disabled.  The keyboard is external: a *)
(* key may be pressed and released at any time, and a release may be lost. *)
(***************************************************************************)
EXTENDS Terminal

CONSTANT ScanCodes   \* the codes that the keyboard sends, in 0 .. 255

VARIABLE flag        \* the modifier flags: held down, and for CAPS, on

\* The codes of the modifiers; a key's release is its code with the highest bit set.
PressCode == [l_shift |-> 42, r_shift |-> 54, ctrl |-> 29, alt |-> 56]
ReleaseCode(k) == PressCode[k] + 128
Modifiers == DOMAIN PressCode
CAPS_PRESS == 58
F1 == 59

ENTER == NL
BCKSPACE == "BCKSPACE"
EMP == NUL

SCANCODE_SET_SIZE == 58
LOWER == <<
  EMP, EMP, "1", "2", "3", "4", "5", "6", "7", "8", "9", "0", "-", "=", BCKSPACE, " ",
  "q", "w", "e", "r", "t", "y", "u", "i", "o", "p", "[", "]", ENTER, EMP,
  "a", "s", "d", "f", "g", "h", "j", "k", "l", ";", "quote", "backquote", EMP, "backslash",
  "z", "x", "c", "v", "b", "n", "m", ",", ".", "/", EMP, EMP, EMP, " ">>
HIGHER == <<
  EMP, EMP, "!", "@", "#", "$", "%", "^", "&", "*", "(", ")", "_", "+", BCKSPACE, " ",
  "Q", "W", "E", "R", "T", "Y", "U", "I", "O", "P", "{", "}", ENTER, EMP,
  "A", "S", "D", "F", "G", "H", "J", "K", "L", ":", "quotes", "~", EMP, "|",
  "Z", "X", "C", "V", "B", "N", "M", "<", ">", "?", EMP, EMP, EMP, " ">>

\* In the table, less the two codes that no key has.
InTable(code) == code \in 2 .. SCANCODE_SET_SIZE - 1

-----------------------------------------------------------------------------
KeyboardInit ==
  /\ Init
  /\ flag = [k \in Modifiers \cup {"caps"} |-> FALSE]

\* spe_key_check: CAPS changes its flag, another modifier sets or clears it.
IsSpecial(code) ==
  code = CAPS_PRESS \/ \E k \in Modifiers : code \in {PressCode[k], ReleaseCode(k)}

SpeKeyCheck(code) ==
  /\ IsSpecial(code)
  /\ flag' = [k \in DOMAIN flag |->
                IF k = "caps" THEN (IF code = CAPS_PRESS THEN ~flag[k] ELSE flag[k])
                ELSE code = PressCode[k] \/ (flag[k] /\ code # ReleaseCode(k))]

\* SHIFT chooses the upper character of a digit or a mark, SHIFT or CAPS but not both
\* that of a letter.
ShiftFlag == flag["l_shift"] \/ flag["r_shift"]
IsMark(code) == code <= 13 \/ code \in {26, 27, 39, 40, 41, 43, 51, 52, 53}
IsHigher(code) == IF IsMark(code) THEN ShiftFlag ELSE ShiftFlag # flag["caps"]
AsciiCode(code) == IF IsHigher(code) THEN HIGHER[code + 1] ELSE LOWER[code + 1]

\* The terminals are switched with ALT and a function key, or with CTRL and a digit.
SwitchesTo(code, t) ==
  IF flag["alt"] THEN code = F1 + t
  ELSE InTable(code) /\ flag["ctrl"] /\ code = 2 + t

Wipes(code) == InTable(code) /\ ~flag["alt"] /\ flag["ctrl"] /\ LOWER[code + 1] = "l"
Types(code) == InTable(code) /\ ~flag["alt"] /\ ~flag["ctrl"]

\* line_buf_in, whose characters are those of Terminal's keys.
LineBufIn(ascii) ==
  \/ ascii = ENTER /\ TypeEnter
  \/ ascii = BCKSPACE /\ TypeBackspace
  \/ ascii \notin {ENTER, BCKSPACE} /\ TypeChar(ascii)

\* A key that is none of these changes nothing.
KeyboardHandler(code) ==
  \/ SpeKeyCheck(code) /\ UNCHANGED vars
  \/ /\ ~IsSpecial(code)
     /\ \/ \E t \in Terms \cap 0 .. 2 : SwitchesTo(code, t) /\ SwitchVisibleTerminal(t)
        \/ Wipes(code) /\ ClearScreen
        \/ Types(code) /\ LineBufIn(AsciiCode(code))
     /\ UNCHANGED flag

KeyboardNext ==
  \/ (Scheduler \/ Program \/ Write) /\ UNCHANGED flag
  \/ \E code \in ScanCodes : KeyboardHandler(code)

KeyboardSpec == KeyboardInit /\ [][KeyboardNext]_<<vars, flag>> /\ Fairness

ASSUME ScanCodesAssumption ==
  /\ ScanCodes \subseteq 0 .. 255
  /\ \A code \in ScanCodes : InTable(code) /\ ~IsSpecial(code) =>
       {LOWER[code + 1], HIGHER[code + 1]} \ {ENTER, BCKSPACE} \subseteq Chars
=============================================================================
