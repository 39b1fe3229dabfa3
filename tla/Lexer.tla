-------------------------------- MODULE Lexer --------------------------------
(***************************************************************************)
(* The lexer of the PTaaS commands: the tables ACCEPTING and DELTA of      *)
(* demos/PTaaS/ptass_fuzz.py (demos/wifi-relay/ptass_fuzz.py is the same   *)
(* file).  A row of DELTA gives the next state of one state for each of    *)
(* the 256 bytes.  Only a few forms of rows occur, each an operator here;  *)
(* a row that is not listed byte by byte goes to FAIL.                     *)
(***************************************************************************)
EXTENDS Integers, Sequences

FAIL  == 1
BYTES == 0 .. 255

Blank  == {9, 32}
Return == {13}
Dot    == {46}
Comma  == {44}
Minus  == {45}
Digit  == 48 .. 57

Dead              == [c \in BYTES |-> FAIL]
Either(chars, st) == [c \in BYTES |-> IF c \in chars THEN st ELSE FAIL]
Signed(neg, nxt)  == [c \in BYTES |-> CASE c \in Minus -> neg [] c \in Digit -> nxt [] OTHER -> FAIL]

(* The same with blanks before, in which the state st does not change. *)
Until(chars, st, nxt) == [c \in BYTES |-> IF c \in Blank THEN st ELSE Either(chars, nxt)[c]]
Number(st, neg, nxt)  == [c \in BYTES |-> IF c \in Blank THEN st ELSE Signed(neg, nxt)[c]]

(* State 0: the letters c, p, q, r, s. *)
Command == [c \in BYTES |-> CASE c = 99 -> 2 [] c = 112 -> 3 [] c \in {113, 114} -> 4
                              [] c = 115 -> 5 [] OTHER -> FAIL]

Fraction_Again == [c \in BYTES |-> IF c \in Dot THEN 66 ELSE Until(Return, 37, 38)[c]]

(* State 67: the first number may have a dot before its last digit. *)
Fraction == [c \in BYTES |-> IF c \in Dot THEN 36 ELSE Until(Return, 37, 38)[c]]

Rows0to17 == <<
  Command,
  Dead,
  Until(Return, 2, 6),   Until(Return, 3, 27),  Until(Return, 4, 26), Until(Return, 5, 63),
  Signed(7, 8),          Either(Digit, 8),      Until(Comma, 8, 9),
  Number(9, 10, 11),     Either(Digit, 11),     Until(Comma, 11, 12),
  Number(12, 13, 14),    Either(Digit, 14),     Until(Return, 14, 15),
  Signed(16, 17),        Either(Digit, 17),     Until(Comma, 17, 18) >>

Rows18to35 == <<
  Number(18, 19, 20),    Either(Digit, 20),     Until(Comma, 20, 21),
  Number(21, 22, 23),    Either(Digit, 23),     Until(Return, 23, 24),
  Signed(25, 4),         Either(Digit, 4),
  Dead,
  Either({100, 115}, 28),                                                 \* d s
  Until(Return, 28, 29),
  Signed(30, 31),        Either(Digit, 31),     Until(Comma, 31, 32),
  Number(32, 33, 34),    Either(Digit, 34),     Until(Comma, 34, 35),
  Number(35, 36, 37) >>

Rows36to53 == <<
  Either(Digit, 37),     Until(Return, 37, 38),
  Signed(39, 40),        Either(Digit, 40),     Until(Comma, 40, 41),
  Number(41, 42, 43),    Either(Digit, 43),     Until(Comma, 43, 44),
  Number(44, 45, 46),    Either(Digit, 46),     Until(Return, 46, 47),
  Signed(48, 49),        Either(Digit, 49),     Until(Comma, 49, 50),
  Number(50, 51, 52),    Either(Digit, 52),     Until(Comma, 52, 53),
  Number(53, 54, 55) >>

Rows54to67 == <<
  Either(Digit, 55),     Until(Return, 55, 56),
  Signed(57, 58),        Either(Digit, 58),     Until(Comma, 58, 59),
  Number(59, 60, 61),    Either(Digit, 61),     Until(Comma, 61, 62),
  Number(62, 25, 4),
  Either({100, 115}, 64),                                                 \* d s
  Until(Return, 64, 65),
  Signed(66, 67),        Either(Digit, 67),
  Fraction >>

LEXSTATES == 0 .. 67
ACCEPTING == {26}
DELTA ==
  [st \in LEXSTATES |-> CASE st < 18 -> Rows0to17[st + 1]
                          [] st \in 18 .. 35 -> Rows18to35[st - 17]
                          [] st \in 36 .. 53 -> Rows36to53[st - 35]
                          [] st > 53 -> Rows54to67[st - 53]]
=============================================================================
