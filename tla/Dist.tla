-------------------------------- MODULE Dist ---------------------------------
(***************************************************************************)
(* The constructor of demos/PTaaS/dist.py (demos/wifi-relay/dist.py is the *)
(* same file): from a histogram pk, the distribution pdf and its complement*)
(* idf.  The floats of the code are exact rationals here, given as integer *)
(* weights over their sum; rounding is not modelled.                       *)
(***************************************************************************)
EXTENDS Integers, FiniteSets, FiniteSetsExt

CONSTANT Resolution   \* the 1e-6 of the code is 1/Resolution

ASSUME ResolutionAssumption == Resolution \in Nat \ {0}

Size(pk)    == Cardinality(DOMAIN pk)
Total(pk)   == MapThenSumSet(LAMBDA i : pk[i], DOMAIN pk)
Highest(pk) == Max({pk[i] : i \in DOMAIN pk})

(* sumidf is Deficit/Total: the sum over the bins of what each is short of *)
(* the highest.                                                            *)
Deficit(pk) == Size(pk) * Highest(pk) - Total(pk)

(* Both `1e-6 <' tests pass. *)
Skewed(pk) == Total(pk) > 0 /\ Resolution * Deficit(pk) > Total(pk)

Even(pk) == [i \in DOMAIN pk |-> 1]
Pdf(pk)  == IF Total(pk) > 0 THEN pk ELSE Even(pk)

Idf_Same(pk) == Pdf(pk)

Idf(pk) == IF Skewed(pk) THEN [i \in DOMAIN pk |-> Highest(pk) - pk[i]] ELSE Even(pk)

(* 1.0/(sumidf + 1.0) *)
Alpha(pk) ==
  IF Skewed(pk) THEN [num |-> Total(pk), den |-> Deficit(pk) + Total(pk)]
                ELSE [num |-> 1, den |-> 1]
=============================================================================
