------------------------------ MODULE MCDisplay ------------------------------
(* Small instances of Display: files x and y in directories d and d/e.     *)
EXTENDS Display

CONSTANTS s1, s2

x == <<"d", "x">>
y == <<"d", "e", "y">>
z == <<"d", "z">>
OneService  == (s1 :> {x, y}) @@ (s2 :> {x, y})
TwoServices == (s1 :> {x}) @@ (s2 :> {z})
Sizes       == [f \in {x, y, z} |-> IF f = y THEN 1 ELSE 2]
=============================================================================
