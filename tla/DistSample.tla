----------------------------- MODULE DistSample ------------------------------
(***************************************************************************)
(* An object of demos/PTaaS/dist.py that is constructed and sampled:       *)
(* _sample runs one turn of its loop per step.  A number in [0, 1) is one  *)
(* of 0/Grain .. (Grain-1)/Grain; everything else is scaled so that it is  *)
(* an integer.                                                             *)
(*                                                                         *)
(* The histogram is any, or (fuzzing) that of a state of the walk of       *)
(* demos/PTaaS/ptass_fuzz.py: it begins empty, and step makes a new object *)
(* of it each time, samples one arc and counts it.                         *)
(*                                                                         *)
(* What fuzz_index makes of the sample, int(size * x // 1), is left out:   *)
(* x is (i - 1 + k/next) / size with k < next, so that without rounding    *)
(* the index is the bin that the loop ended in.                            *)
(***************************************************************************)
EXTENDS Dist, Sequences

CONSTANTS
  Sizes,      \* bound: lengths of the histogram
  MaxCount,   \* bound: counts of a histogram that is not of the walk
  MaxVisits,  \* bound: arcs that are counted
  Grain,      \* bound: random numbers are multiples of 1/Grain
  Values      \* bound: values of minVal and maxVal

ASSUME SizesAssumption == \A n \in Sizes : n \in Nat /\ n > 1   \* assert(self.size > 1)
ASSUME GrainAssumption == Grain \in Nat \ {0} /\ {MaxCount, MaxVisits} \subseteq Nat /\ Values \subseteq Int

Given  == {v \in Values \X Values : v[1] < v[2]}   \* assert(minVal < maxVal)
NoSpan == <<>>

VARIABLES
  fuzzing,  \* the histogram is one of ptass_fuzz.py
  pk,       \* the histogram, a sequence
  span,     \* <<minVal, maxVal>>, or NoSpan when they are not given
  interval, \* [min, range], times 2 * (size - 1); range also of [0, 1)
  pc,       \* "new", "choose", "loop", "done"
  weights,  \* pdf or idf, whichever is sampled
  method,   \* "fuzz", "reproduce" or "uniform"
  draw,     \* the k that the caller gave, times Grain
  k,        \* what is left of it, times Grain * Total(weights)
  i,        \* bin that the loop looks at, counted from 1
  waits     \* history: per bin, arcs counted since it was

object == <<fuzzing, span, interval>>
sample == <<weights, method, draw, k, i>>
vars == <<object, pk, pc, sample, waits>>

Random == 0 .. Grain - 1

Init ==
  /\ fuzzing \in BOOLEAN
  /\ pk \in UNION {[1 .. n -> IF fuzzing THEN {0} ELSE 0 .. MaxCount] : n \in Sizes}
  /\ span \in IF fuzzing THEN {NoSpan} ELSE Given \cup {NoSpan}
  /\ interval = [min |-> 0, range |-> 0]
  /\ pc = "new"
  /\ weights = Even(pk)
  /\ method = "fuzz"
  /\ draw = 0 /\ k = 0 /\ i = 1
  /\ waits = [j \in DOMAIN pk |-> 0]

(* not(minVal and maxVal): a value that is zero counts as not given. *)
Spanned == span # NoSpan /\ span[1] # 0 /\ span[2] # 0

(* The end of __init__. *)
New ==
  /\ pc = "new"
  /\ LET n == 2 * (Size(pk) - 1) IN
       interval' = IF Spanned
                   THEN LET d == span[2] - span[1] IN
                        [min |-> n * span[1] - d, range |-> n * d + 2 * d]
                   ELSE [min |-> 0, range |-> n]
  /\ pc' = "choose"
  /\ UNCHANGED <<fuzzing, span, pk, sample, waits>>

(* fuzz(k), reproduce(k) and uniform(k); the last draws once more. *)
Chosen(how) ==
  CASE how = "fuzz"      -> {Idf(pk)}
    [] how = "reproduce" -> {Pdf(pk)}
    [] OTHER             ->
         {IF r * Alpha(pk).den < Grain * Alpha(pk).num THEN Pdf(pk) ELSE Idf(pk) : r \in Random}

Choose ==
  /\ pc = "choose"
  /\ \E how \in IF fuzzing THEN {"fuzz"} ELSE {"fuzz", "reproduce", "uniform"}, r \in Random :
       \E w \in Chosen(how) :
         /\ weights' = w
         /\ method' = how
         /\ draw' = r
         /\ k' = r * Total(w)
  /\ i' = 1
  /\ pc' = "loop"
  /\ UNCHANGED <<object, pk, waits>>

Sample_NotLess ==
  /\ pc = "loop" /\ i <= Size(pk)
  /\ IF Grain * weights[i] >= k
     THEN pc' = "done" /\ UNCHANGED <<k, i>>
     ELSE pc' = "loop" /\ k' = k - Grain * weights[i] /\ i' = i + 1
  /\ UNCHANGED <<object, pk, weights, method, draw, waits>>

Sample_Keep ==
  /\ pc = "loop" /\ i <= Size(pk)
  /\ IF Grain * weights[i] > k
     THEN pc' = "done" /\ UNCHANGED <<k, i>>
     ELSE pc' = "loop" /\ UNCHANGED k /\ i' = i + 1
  /\ UNCHANGED <<object, pk, weights, method, draw, waits>>

(* One turn of the loop of _sample: `next > k' ends it in this bin. *)
Sample ==
  /\ pc = "loop" /\ i <= Size(pk)
  /\ IF Grain * weights[i] > k
     THEN pc' = "done" /\ UNCHANGED <<k, i>>
     ELSE pc' = "loop" /\ k' = k - Grain * weights[i] /\ i' = i + 1
  /\ UNCHANGED <<object, pk, weights, method, draw, waits>>

(* An object is sampled once more, as test() of dist.py does (the          *)
(* constructor only looks at pk).                                          *)
Again ==
  /\ pc = "done" /\ ~fuzzing
  /\ pc' = "choose"
  /\ UNCHANGED <<object, pk, sample, waits>>

(* The first arc is never counted. *)
Counts_ButFirst == pk' = [pk EXCEPT ![i] = IF i > 1 THEN @ + 1 ELSE @]

(* pdf[index] += 1; hist[st] = pdf *)
Counts == pk' = [pk EXCEPT ![i] = @ + 1]

(* step of ptass_fuzz.py: the arc is counted, and the next call makes a    *)
(* new object of the histogram.                                            *)
Step ==
  /\ pc = "done" /\ fuzzing /\ Total(pk) < MaxVisits
  /\ Counts
  /\ waits' = [j \in DOMAIN pk |-> IF j = i THEN 0 ELSE waits[j] + 1]
  /\ pc' = "new"
  /\ UNCHANGED <<object, sample>>

Next == New \/ Choose \/ Sample \/ Again \/ Step

Spec == Init /\ [][Next]_vars

-----------------------------------------------------------------------------
(***************************************************************************)
(* Properties                                                              *)
(***************************************************************************)

Prefix(w, n) == MapThenSumSet(LAMBDA j : w[j], 1 .. n)

(* The subtractions of _sample find the bin of the inverse distribution    *)
(* function: the draw lies between the sums of the weights before and up   *)
(* to the bin, and the loop never falls out at its end (where the caller   *)
(* would get an index that is out of range).                               *)
InverseOfSums ==
  /\ i \in 1 .. Size(pk)
  /\ pc = "done" => /\ Grain * Prefix(weights, i - 1) <= draw * Total(weights)
                    /\ draw * Total(weights) < Grain * Prefix(weights, i)

(* fuzz takes none of the bins with the highest count, unless the          *)
(* histogram is uniform (to the resolution); reproduce takes no empty bin. *)
FuzzAvoidsHighest ==
  pc = "done" =>
    /\ method = "fuzz" /\ Skewed(pk) => pk[i] < Highest(pk)
    /\ method = "reproduce" /\ Total(pk) > 0 => pk[i] > 0

(* uniform mixes pdf and idf so that every bin is as likely as another: it *)
(* deviates from 1/size only when the histogram counted as uniform, and    *)
(* then by no more than the resolution.                                    *)
UniformMixes ==
  \A j \in DOMAIN pk :
    LET n == Size(pk)
        a == Alpha(pk)
        p == Pdf(pk)[j]
        q == Idf(pk)[j]
    IN  IF Skewed(pk)
        THEN n * (a.num * p * Total(Idf(pk)) + (a.den - a.num) * q * Total(pk))
               = a.den * Total(pk) * Total(Idf(pk))
        ELSE /\ Resolution * (n * p - Total(Pdf(pk))) <= Total(Pdf(pk))
             /\ Resolution * (Total(Pdf(pk)) - n * p) <= (n - 1) * Total(Pdf(pk))

(* Each method samples as it is asked to. *)
SamplesAsAsked == FuzzAvoidsHighest /\ UniformMixes

(* However long the fuzzer runs, the arcs of a state are taken equally     *)
(* often: what they are short of the most taken one, together, is less     *)
(* than one round of all arcs, plus one per Resolution steps (once the     *)
(* deficit is below 1e-6, dist.py takes the histogram for uniform and a    *)
(* most taken arc may be taken again).                                     *)
StaysEven ==
  fuzzing => Resolution * (Deficit(pk) - (Size(pk) - 1)) <= Total(pk)

(* No arc of a state waits for more than two rounds of the others, so that *)
(* a state whose other arcs all lead back to it is left; as long as the    *)
(* histogram is below the resolution, from then on only chance helps.      *)
LeavesLoops ==
  fuzzing /\ Total(pk) <= Resolution =>
    \A j \in DOMAIN pk : waits[j] <= 2 * (Size(pk) - 1)

(* The rest does not hold of the code: TLC finds counterexamples.          *)

(* "If they are provided, the resulting values will span the interval      *)
(* implied by minVal and maxVal" (the docstring): minVal is the center of  *)
(* the lowest bin and maxVal that of the highest.                          *)
SpansInterval ==
  LET n == Size(pk) IN
  pc # "new" /\ span # NoSpan =>
    /\ 2 * n * interval.min + interval.range = 4 * n * (n - 1) * span[1]
    /\ 2 * n * interval.min + (2 * n - 1) * interval.range = 4 * n * (n - 1) * span[2]
=============================================================================
