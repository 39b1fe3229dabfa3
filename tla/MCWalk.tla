------------------------------- MODULE MCWalk --------------------------------
(* Walk with the tables of the program. *)
EXTENDS Walk, Lexer

(* Some bytes of each kind: a blank, two digits, the letters of the commands  *)
(* and one that no command has.                                            *)
SomeBytes == Return \cup Dot \cup Comma \cup Minus
               \cup {LF, 32, 48, 49, 97, 99, 100, 112, 113, 114, 115}

SomeDelta == [s \in LEXSTATES |-> [c \in SomeBytes |-> DELTA[s][c]]]
=============================================================================
