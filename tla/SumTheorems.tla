----------------------------- MODULE SumTheorems -----------------------------
(***************************************************************************)
(* Facts about sums over finite sets, which several modules take from      *)
(* MapThenSumSet.  The sum is a fold: an element is chosen, the rest is    *)
(* summed, and what is chosen depends on the set.  The lemmas show that    *)
(* the order does not matter: any element may be taken out of a sum.       *)
(***************************************************************************)
EXTENDS Integers, FiniteSets, FiniteSetsExt, FiniteSetTheorems, TLAPS

(* The sum of the numbers w[x], x in S. *)
SumOf(w, S) == MapThenSumSet(LAMBDA x : w[x], S)

-----------------------------------------------------------------------------
(* Induction over the subsets of a finite set.  G is the set of those that *)
(* have a property: a minimal subset without it contradicts the step.      *)

LEMMA ProperSubsetInduction ==
  ASSUME NEW S, IsFiniteSet(S), NEW G,
         \A T \in SUBSET S : (\A U \in SUBSET T : U # T => U \in G) => T \in G
  PROVE  S \in G
<1> DEFINE R   == StrictSubsetOrdering(S)
           Bad == (SUBSET S) \ G
<1>1. SUFFICES ASSUME S \notin G PROVE FALSE
  OBVIOUS
<1>2. IsWellFoundedOn(R, SUBSET S)
  BY FS_StrictSubsetOrderingWellFounded, FS_FiniteSubsetsOfFinite
<1>3. Bad \subseteq SUBSET S /\ Bad # {}
  BY <1>1
<1>4. PICK T \in Bad : \A U \in Bad : ~(<<U, T>> \in R)
  <2> HIDE DEF R, Bad
  <2> QED
    BY <1>2, <1>3, WFMin
<1>5. ASSUME NEW U \in SUBSET T, U # T PROVE U \in G
  BY <1>4, <1>5 DEF StrictSubsetOrdering
<1> QED
  BY <1>4, <1>5

LEMMA SubsetInduction ==
  ASSUME NEW S, IsFiniteSet(S), NEW G,
         {} \in G,
         \A T \in SUBSET S : \A x \in S \ T : T \in G => T \cup {x} \in G
  PROVE  S \in G
<1>1. ASSUME NEW T \in SUBSET S, \A U \in SUBSET T : U # T => U \in G
      PROVE  T \in G
  <2>1. CASE T = {}
    BY <2>1
  <2>2. CASE T # {}
    <3>1. PICK x \in T : TRUE
      BY <2>2
    <3>2. T \ {x} \in G
      BY <1>1, <3>1
    <3>3. T = (T \ {x}) \cup {x} /\ x \in S \ (T \ {x})
      BY <3>1
    <3> QED
      BY <3>2, <3>3
  <2> QED
    BY <2>1, <2>2
<1> QED
  BY <1>1, ProperSubsetInduction

-----------------------------------------------------------------------------
(* The fold exists and is unique. *)

Picked(s) == CHOOSE x \in s : TRUE

(* f sums the subsets of T. *)
Sums(f, w, T) ==
  f = [s \in SUBSET T |->
         IF s = {} THEN 0 ELSE w[Picked(s)] + f[s \ {Picked(s)}]]

LEMMA PickedIn ==
  ASSUME NEW s, s # {}
  PROVE  Picked(s) \in s
BY DEF Picked

LEMMA SumOfUnfolded ==
  ASSUME NEW w, NEW S
  PROVE  SumOf(w, S) = (CHOOSE f : Sums(f, w, S))[S]
BY DEF SumOf, MapThenSumSet, MapThenFoldSet, Sums, Picked

(* Two functions that sum agree where both do. *)
LEMMA SumsAgree ==
  ASSUME NEW w, NEW A, NEW B, NEW f, NEW g, Sums(f, w, A), Sums(g, w, B),
         NEW S, IsFiniteSet(S), S \subseteq A, S \subseteq B
  PROVE  f[S] = g[S]
<1> DEFINE G == {T \in SUBSET S : f[T] = g[T]}
<1>1. ASSUME NEW T \in SUBSET S, \A U \in SUBSET T : U # T => U \in G
      PROVE  T \in G
  <2>1. T \in SUBSET A /\ T \in SUBSET B
    OBVIOUS
  <2>2. CASE T = {}
    BY <2>1, <2>2 DEF Sums
  <2>3. CASE T # {}
    <3>1. Picked(T) \in T
      BY <2>3, PickedIn
    <3>2. f[T \ {Picked(T)}] = g[T \ {Picked(T)}]
      BY <1>1, <3>1
    <3>3. f[T] = w[Picked(T)] + f[T \ {Picked(T)}]
      BY <2>1, <2>3 DEF Sums
    <3>4. g[T] = w[Picked(T)] + g[T \ {Picked(T)}]
      BY <2>1, <2>3 DEF Sums
    <3> QED
      BY <3>2, <3>3, <3>4
  <2> QED
    BY <2>2, <2>3
<1> HIDE DEF G
<1>2. S \in G
  BY <1>1, ProperSubsetInduction
<1> QED
  BY <1>2 DEF G

LEMMA SumsExist ==
  ASSUME NEW w, NEW S, IsFiniteSet(S)
  PROVE  \E f : Sums(f, w, S)
<1> DEFINE G == {T \in SUBSET S : \E f : Sums(f, w, T)}
           V(U) == (CHOOSE f : Sums(f, w, U))[U]
<1>1. ASSUME NEW T \in SUBSET S, \A U \in SUBSET T : U # T => U \in G
      PROVE  T \in G
  <2> DEFINE h == [s \in SUBSET T |->
                     IF s = {} THEN 0 ELSE w[Picked(s)] + V(s \ {Picked(s)})]
  <2>1. ASSUME NEW U \in SUBSET T, U # T
        PROVE  h[U] = V(U)
    <3> DEFINE f == CHOOSE f : Sums(f, w, U)
    <3>1. Sums(f, w, U)
      BY <1>1, <2>1
    <3>2. CASE U = {}
      <4> HIDE DEF f
      <4>1. f[U] = 0
        BY <3>1, <3>2 DEF Sums
      <4> QED
        BY <3>2, <4>1 DEF f
    <3>3. CASE U # {}
      <4> DEFINE X == U \ {Picked(U)}
      <4>1. Picked(U) \in U /\ X \in SUBSET U /\ X \in SUBSET T /\ X # T
        BY <3>3, PickedIn
      <4>2. \E g : Sums(g, w, X)
        BY <1>1, <4>1
      <4>3. PICK g : Sums(g, w, X) /\ V(X) = g[X]
        BY <4>2
      <4>4. IsFiniteSet(X)
        BY FS_Subset
      <4>5. f[X] = g[X]
        <5> HIDE DEF f, X
        <5> QED
          BY <3>1, <4>1, <4>3, <4>4, SumsAgree
      <4>6. f[U] = w[Picked(U)] + f[X]
        <5> HIDE DEF f
        <5> QED
          BY <3>1, <3>3 DEF Sums
      <4>7. V(U) = w[Picked(U)] + V(X)
        BY <4>3, <4>5, <4>6
      <4> HIDE DEF V
      <4> QED
        BY <3>3, <4>7
    <3> QED
      BY <3>2, <3>3
  <2>2. ASSUME NEW s \in SUBSET T, s # {}
        PROVE  V(s \ {Picked(s)}) = h[s \ {Picked(s)}]
    <3>1. s \ {Picked(s)} \in SUBSET T /\ s \ {Picked(s)} # T
      BY <2>2, PickedIn
    <3> HIDE DEF V, h
    <3> QED
      BY <2>1, <3>1
  <2>3. h = [s \in SUBSET T |->
               IF s = {} THEN 0 ELSE w[Picked(s)] + h[s \ {Picked(s)}]]
    <3> HIDE DEF V
    <3> QED
      BY <2>2
  <2> HIDE DEF h
  <2>4. Sums(h, w, T)
    BY <2>3 DEF Sums
  <2> QED
    BY <2>4
<1> HIDE DEF G
<1>2. S \in G
  BY <1>1, ProperSubsetInduction
<1> QED
  BY <1>2 DEF G

LEMMA SumEmpty ==
  ASSUME NEW w
  PROVE  SumOf(w, {}) = 0
<1>1. PICK f : Sums(f, w, {}) /\ SumOf(w, {}) = f[{}]
  BY SumsExist, SumOfUnfolded, FS_EmptySet
<1> QED
  BY <1>1 DEF Sums

LEMMA SumPicked ==
  ASSUME NEW w, NEW S, IsFiniteSet(S), S # {}
  PROVE  SumOf(w, S) = w[Picked(S)] + SumOf(w, S \ {Picked(S)})
<1> DEFINE X == S \ {Picked(S)}
<1>1. PICK f : Sums(f, w, S) /\ SumOf(w, S) = f[S]
  BY SumsExist, SumOfUnfolded
<1>2. IsFiniteSet(X)
  BY FS_Subset
<1>3. PICK g : Sums(g, w, X) /\ SumOf(w, X) = g[X]
  <2> HIDE DEF X
  <2> QED
    BY <1>2, SumsExist, SumOfUnfolded
<1>4. f[X] = g[X]
  <2>1. X \subseteq S
    OBVIOUS
  <2> HIDE DEF X
  <2> QED
    BY <1>1, <1>2, <1>3, <2>1, SumsAgree
<1>5. f[S] = w[Picked(S)] + f[X]
  BY <1>1 DEF Sums
<1> QED
  BY <1>1, <1>3, <1>4, <1>5

-----------------------------------------------------------------------------
(* What a sum is, and how it changes. *)

LEMMA SumType ==
  ASSUME NEW w, NEW S, IsFiniteSet(S), \A x \in S : w[x] \in Int
  PROVE  SumOf(w, S) \in Int
<1> DEFINE G == {T \in SUBSET S : SumOf(w, T) \in Int}
<1>1. ASSUME NEW T \in SUBSET S, \A U \in SUBSET T : U # T => U \in G
      PROVE  T \in G
  <2>1. CASE T = {}
    BY <2>1, SumEmpty
  <2>2. CASE T # {}
    <3>1. Picked(T) \in T
      BY <2>2, PickedIn
    <3>2. SumOf(w, T \ {Picked(T)}) \in Int
      BY <1>1, <3>1
    <3>3. IsFiniteSet(T)
      BY FS_Subset
    <3>4. SumOf(w, T) = w[Picked(T)] + SumOf(w, T \ {Picked(T)})
      BY <2>2, <3>3, SumPicked
    <3>5. w[Picked(T)] \in Int
      BY <3>1
    <3> QED
      BY <3>2, <3>4, <3>5
  <2> QED
    BY <2>1, <2>2
<1> HIDE DEF G
<1>2. S \in G
  BY <1>1, ProperSubsetInduction
<1> QED
  BY <1>2 DEF G

(* Any element may be taken out of a sum. *)
LEMMA SumTake ==
  ASSUME NEW w, NEW S, IsFiniteSet(S), \A x \in S : w[x] \in Int, NEW e \in S
  PROVE  SumOf(w, S) = w[e] + SumOf(w, S \ {e})
<1> DEFINE G == {T \in SUBSET S :
                   \A x \in T : SumOf(w, T) = w[x] + SumOf(w, T \ {x})}
<1>1. ASSUME NEW T \in SUBSET S, \A U \in SUBSET T : U # T => U \in G
      PROVE  T \in G
  <2>1. SUFFICES ASSUME NEW x \in T PROVE SumOf(w, T) = w[x] + SumOf(w, T \ {x})
    OBVIOUS
  <2> DEFINE c == Picked(T)
  <2>2. c \in T
    BY PickedIn
  <2>3. IsFiniteSet(T)
    BY FS_Subset
  <2>4. SumOf(w, T) = w[c] + SumOf(w, T \ {c})
    BY <2>3, SumPicked
  <2> HIDE DEF c
  <2>5. CASE x = c
    BY <2>4, <2>5
  <2>6. CASE x # c
    <3>1. SumOf(w, T \ {c}) = w[x] + SumOf(w, (T \ {c}) \ {x})
      <4>1. T \ {c} \in G /\ x \in T \ {c}
        BY <1>1, <2>2, <2>6
      <4> QED
        BY <4>1
    <3>2. SumOf(w, T \ {x}) = w[c] + SumOf(w, (T \ {x}) \ {c})
      <4>1. T \ {x} \in G /\ c \in T \ {x}
        BY <1>1, <2>2, <2>6
      <4> QED
        BY <4>1
    <3>3. (T \ {c}) \ {x} = (T \ {x}) \ {c}
      OBVIOUS
    <3>4. SumOf(w, (T \ {x}) \ {c}) \in Int
      BY FS_Subset, SumType
    <3>5. w[x] \in Int /\ w[c] \in Int
      BY <2>2
    <3>6. \A a, b, r \in Int : a + (b + r) = b + (a + r)
      OBVIOUS
    <3> HIDE DEF G
    <3>7. SumOf(w, T) = w[c] + (w[x] + SumOf(w, (T \ {x}) \ {c}))
      BY <2>4, <3>1, <3>3
    <3> QED
      BY <3>2, <3>4, <3>5, <3>6, <3>7
  <2> QED
    BY <2>5, <2>6
<1> HIDE DEF G
<1>2. S \in G
  BY <1>1, ProperSubsetInduction
<1> QED
  BY <1>2 DEF G

LEMMA SumAdd ==
  ASSUME NEW w, NEW S, IsFiniteSet(S), NEW e, e \notin S,
         \A x \in S \cup {e} : w[x] \in Int
  PROVE  SumOf(w, S \cup {e}) = w[e] + SumOf(w, S)
<1>1. IsFiniteSet(S \cup {e})
  BY FS_AddElement
<1>2. SumOf(w, S \cup {e}) = w[e] + SumOf(w, (S \cup {e}) \ {e})
  BY <1>1, SumTake
<1>3. (S \cup {e}) \ {e} = S
  OBVIOUS
<1> QED
  BY <1>2, <1>3

LEMMA SumOne ==
  ASSUME NEW w, NEW e, w[e] \in Int
  PROVE  SumOf(w, {e}) = w[e]
<1>1. IsFiniteSet({}) /\ {} \cup {e} = {e}
  BY FS_EmptySet
<1>2. SumOf(w, {} \cup {e}) = w[e] + SumOf(w, {})
  BY <1>1, SumAdd
<1>3. SumOf(w, {}) = 0
  BY SumEmpty
<1>4. SumOf(w, {} \cup {e}) = SumOf(w, {e})
  BY <1>1
<1> QED
  BY <1>2, <1>3, <1>4

(* Sums are added, and compared, element by element. *)
LEMMA SumOfSums ==
  ASSUME NEW u, NEW v, NEW w, NEW S, IsFiniteSet(S),
         \A x \in S : u[x] \in Int /\ v[x] \in Int /\ w[x] = u[x] + v[x]
  PROVE  SumOf(w, S) = SumOf(u, S) + SumOf(v, S)
<1> DEFINE G == {T \in SUBSET S : SumOf(w, T) = SumOf(u, T) + SumOf(v, T)}
<1>1. {} \in G
  BY SumEmpty
<1>2. ASSUME NEW T \in SUBSET S, NEW x \in S \ T, T \in G
      PROVE  T \cup {x} \in G
  <2>1. IsFiniteSet(T)
    BY FS_Subset
  <2>2. /\ SumOf(u, T \cup {x}) = u[x] + SumOf(u, T)
        /\ SumOf(v, T \cup {x}) = v[x] + SumOf(v, T)
        /\ SumOf(w, T \cup {x}) = w[x] + SumOf(w, T)
    BY <2>1, SumAdd
  <2>3. SumOf(u, T) \in Int /\ SumOf(v, T) \in Int
    BY <2>1, SumType
  <2>4. SumOf(w, T) = SumOf(u, T) + SumOf(v, T)
    BY <1>2
  <2>5. u[x] \in Int /\ v[x] \in Int /\ w[x] = u[x] + v[x]
    OBVIOUS
  <2> QED
    BY <2>2, <2>3, <2>4, <2>5
<1> HIDE DEF G
<1>3. S \in G
  BY <1>1, <1>2, SubsetInduction
<1> QED
  BY <1>3 DEF G

LEMMA SumMonotone ==
  ASSUME NEW v, NEW w, NEW S, IsFiniteSet(S),
         \A x \in S : v[x] \in Int /\ w[x] \in Int /\ v[x] <= w[x]
  PROVE  SumOf(v, S) <= SumOf(w, S)
<1> DEFINE G == {T \in SUBSET S : SumOf(v, T) <= SumOf(w, T)}
<1>1. {} \in G
  BY SumEmpty
<1>2. ASSUME NEW T \in SUBSET S, NEW x \in S \ T, T \in G
      PROVE  T \cup {x} \in G
  <2>1. IsFiniteSet(T)
    BY FS_Subset
  <2>2. /\ SumOf(v, T \cup {x}) = v[x] + SumOf(v, T)
        /\ SumOf(w, T \cup {x}) = w[x] + SumOf(w, T)
    BY <2>1, SumAdd
  <2>3. SumOf(v, T) \in Int /\ SumOf(w, T) \in Int
    BY <2>1, SumType
  <2>4. SumOf(v, T) <= SumOf(w, T)
    BY <1>2
  <2>5. v[x] \in Int /\ w[x] \in Int /\ v[x] <= w[x]
    OBVIOUS
  <2> QED
    BY <2>2, <2>3, <2>4, <2>5
<1> HIDE DEF G
<1>3. S \in G
  BY <1>1, <1>2, SubsetInduction
<1> QED
  BY <1>3 DEF G

LEMMA OneMore ==
  ASSUME NEW n \in Int, NEW c \in Int
  PROVE  (n + 1) * c = n * c + c /\ n * c \in Int
OBVIOUS

LEMMA SumConstant ==
  ASSUME NEW w, NEW S, IsFiniteSet(S), NEW c \in Int, \A x \in S : w[x] = c
  PROVE  SumOf(w, S) = Cardinality(S) * c
<1> DEFINE G == {T \in SUBSET S : SumOf(w, T) = Cardinality(T) * c}
<1>1. {} \in G
  BY SumEmpty, FS_EmptySet
<1>2. ASSUME NEW T \in SUBSET S, NEW x \in S \ T, T \in G
      PROVE  T \cup {x} \in G
  <2>1. IsFiniteSet(T)
    BY FS_Subset
  <2>2. SumOf(w, T \cup {x}) = c + SumOf(w, T)
    BY <2>1, SumAdd
  <2>3. Cardinality(T) \in Nat /\ Cardinality(T \cup {x}) = Cardinality(T) + 1
    BY <2>1, FS_CardinalityType, FS_AddElement
  <2>4. SumOf(w, T) = Cardinality(T) * c
    BY <1>2
  <2>5. (Cardinality(T) + 1) * c = Cardinality(T) * c + c /\ Cardinality(T) * c \in Int
    <3>1. Cardinality(T) \in Int
      BY <2>3
    <3> HIDE DEF G
    <3> QED
      BY <3>1, OneMore, Zenon
  <2> QED
    BY <2>2, <2>3, <2>4, <2>5
<1> HIDE DEF G
<1>3. S \in G
  BY <1>1, <1>2, SubsetInduction
<1> QED
  BY <1>3 DEF G

LEMMA SumEqual ==
  ASSUME NEW v, NEW w, NEW S, IsFiniteSet(S), \A x \in S : v[x] = w[x]
  PROVE  SumOf(v, S) = SumOf(w, S)
<1> DEFINE G == {T \in SUBSET S : SumOf(v, T) = SumOf(w, T)}
<1>1. ASSUME NEW T \in SUBSET S, \A U \in SUBSET T : U # T => U \in G
      PROVE  T \in G
  <2>1. CASE T = {}
    BY <2>1, SumEmpty
  <2>2. CASE T # {}
    <3>1. Picked(T) \in T /\ Picked(T) \in S
      BY <2>2, PickedIn
    <3>2. SumOf(v, T \ {Picked(T)}) = SumOf(w, T \ {Picked(T)})
      BY <1>1, <3>1
    <3>3. IsFiniteSet(T)
      BY FS_Subset
    <3> QED
      BY <2>2, <3>1, <3>2, <3>3, SumPicked
  <2> QED
    BY <2>1, <2>2
<1> HIDE DEF G
<1>2. S \in G
  BY <1>1, ProperSubsetInduction
<1> QED
  BY <1>2 DEF G

(* One summand changes. *)
LEMMA SumChange ==
  ASSUME NEW v, NEW w, NEW S, IsFiniteSet(S), NEW e \in S,
         \A x \in S : v[x] \in Int /\ w[x] \in Int /\ (x # e => v[x] = w[x])
  PROVE  SumOf(w, S) = SumOf(v, S) - v[e] + w[e]
<1>1. /\ SumOf(v, S) = v[e] + SumOf(v, S \ {e})
      /\ SumOf(w, S) = w[e] + SumOf(w, S \ {e})
  BY SumTake
<1>2. IsFiniteSet(S \ {e})
  BY FS_Subset
<1>3. SumOf(v, S \ {e}) = SumOf(w, S \ {e})
  BY <1>2, SumEqual
<1>4. SumOf(v, S \ {e}) \in Int /\ v[e] \in Int /\ w[e] \in Int
  BY <1>2, SumType
<1> QED
  BY <1>1, <1>3, <1>4

LEMMA SumNat ==
  ASSUME NEW w, NEW S, IsFiniteSet(S), \A x \in S : w[x] \in Nat
  PROVE  /\ SumOf(w, S) \in Nat
         /\ \A x \in S : w[x] <= SumOf(w, S)
         /\ \A T \in SUBSET S : SumOf(w, T) <= SumOf(w, S)
<1> DEFINE zero == [x \in S |-> 0]
<1>1. ASSUME NEW T \in SUBSET S PROVE SumOf(w, T) \in Nat
  <2>1. IsFiniteSet(T)
    BY FS_Subset
  <2>2. SumOf(zero, T) <= SumOf(w, T)
    BY <2>1, SumMonotone
  <2>3. SumOf(zero, T) = Cardinality(T) * 0
    BY <2>1, SumConstant
  <2>4. Cardinality(T) \in Nat
    BY <2>1, FS_CardinalityType
  <2>5. SumOf(w, T) \in Int
    BY <2>1, SumType
  <2> QED
    BY <2>2, <2>3, <2>4, <2>5
<1>2. ASSUME NEW x \in S PROVE w[x] <= SumOf(w, S)
  <2>1. SumOf(w, S) = w[x] + SumOf(w, S \ {x})
    BY SumTake
  <2>2. SumOf(w, S \ {x}) \in Nat
    BY <1>1
  <2> QED
    BY <2>1, <2>2
<1>3. ASSUME NEW T \in SUBSET S PROVE SumOf(w, T) <= SumOf(w, S)
  <2> DEFINE u == [x \in S |-> IF x \in T THEN w[x] ELSE 0]
  <2> DEFINE G == {X \in SUBSET S : SumOf(u, X) = SumOf(w, X \cap T)}
  <2>1. {} \in G
    BY SumEmpty
  <2>2. ASSUME NEW X \in SUBSET S, NEW x \in S \ X, X \in G
        PROVE  X \cup {x} \in G
    <3>1. IsFiniteSet(X) /\ IsFiniteSet(X \cap T)
      BY FS_Subset
    <3>2. SumOf(u, X \cup {x}) = u[x] + SumOf(u, X)
      BY <3>1, SumAdd
    <3>3. SumOf(u, X) = SumOf(w, X \cap T) /\ SumOf(w, X \cap T) \in Nat
      BY <1>1, <2>2
    <3>4. CASE x \in T
      <4>1. (X \cup {x}) \cap T = (X \cap T) \cup {x}
        BY <3>4
      <4>2. SumOf(w, (X \cap T) \cup {x}) = w[x] + SumOf(w, X \cap T)
        BY <3>1, SumAdd
      <4> QED
        BY <3>2, <3>3, <3>4, <4>1, <4>2
    <3>5. CASE x \notin T
      <4>1. (X \cup {x}) \cap T = X \cap T
        BY <3>5
      <4> QED
        BY <3>2, <3>3, <3>5, <4>1
    <3> QED
      BY <3>4, <3>5
  <2>3. S \in G
    <3> HIDE DEF G
    <3> QED
      BY <2>1, <2>2, SubsetInduction
  <2>4. SumOf(u, S) <= SumOf(w, S)
    BY SumMonotone
  <2>5. S \cap T = T
    OBVIOUS
  <2> QED
    BY <2>3, <2>4, <2>5
<1> QED
  BY <1>1, <1>2, <1>3

(* Sums over parts that have nothing in common are added. *)
LEMMA SumUnion ==
  ASSUME NEW w, NEW A, IsFiniteSet(A), NEW B, IsFiniteSet(B), A \cap B = {},
         \A x \in A \cup B : w[x] \in Int
  PROVE  SumOf(w, A \cup B) = SumOf(w, A) + SumOf(w, B)
<1> DEFINE G == {T \in SUBSET B : SumOf(w, A \cup T) = SumOf(w, A) + SumOf(w, T)}
<1>1. {} \in G
  <2>1. A \cup {} = A /\ SumOf(w, A) \in Int
    BY SumType
  <2> QED
    BY <2>1, SumEmpty
<1>2. ASSUME NEW T \in SUBSET B, NEW x \in B \ T, T \in G
      PROVE  T \cup {x} \in G
  <2>1. IsFiniteSet(T) /\ IsFiniteSet(A \cup T)
    BY FS_Subset, FS_Union
  <2>2. x \notin A \cup T /\ A \cup (T \cup {x}) = (A \cup T) \cup {x}
    OBVIOUS
  <2>3. /\ SumOf(w, (A \cup T) \cup {x}) = w[x] + SumOf(w, A \cup T)
        /\ SumOf(w, T \cup {x}) = w[x] + SumOf(w, T)
    BY <2>1, <2>2, SumAdd
  <2>4. SumOf(w, A) \in Int /\ SumOf(w, T) \in Int /\ w[x] \in Int
    BY <2>1, SumType
  <2>5. SumOf(w, A \cup T) = SumOf(w, A) + SumOf(w, T)
    BY <1>2
  <2>6. SumOf(w, A \cup (T \cup {x})) = w[x] + (SumOf(w, A) + SumOf(w, T))
    BY <2>2, <2>3, <2>5, Zenon
  <2>7. w[x] + (SumOf(w, A) + SumOf(w, T)) = SumOf(w, A) + (w[x] + SumOf(w, T))
    BY <2>4
  <2>8. SumOf(w, A \cup (T \cup {x})) = SumOf(w, A) + SumOf(w, T \cup {x})
    BY <2>3, <2>6, <2>7, Zenon
  <2> QED
    BY <2>8
<1> HIDE DEF G
<1>3. B \in G
  BY <1>1, <1>2, SubsetInduction
<1> QED
  BY <1>3 DEF G

(* The sum of the sums of such parts P[c], c in C. *)
LEMMA SumGroups ==
  ASSUME NEW w, NEW C, IsFiniteSet(C), NEW P, NEW v,
         \A c \in C : v[c] = SumOf(w, P[c]) /\ IsFiniteSet(P[c]) /\ \A x \in P[c] : w[x] \in Int,
         \A c, d \in C : c # d => P[c] \cap P[d] = {}
  PROVE  SumOf(v, C) = SumOf(w, UNION {P[c] : c \in C})
<1> DEFINE All(T) == UNION {P[c] : c \in T}
           G == {T \in SUBSET C : IsFiniteSet(All(T)) /\ SumOf(v, T) = SumOf(w, All(T))}
<1>1. {} \in G
  <2>1. All({}) = {}
    OBVIOUS
  <2> QED
    BY <2>1, SumEmpty, FS_EmptySet
<1>2. ASSUME NEW T \in SUBSET C, NEW d \in C \ T, T \in G
      PROVE  T \cup {d} \in G
  <2>1. All(T \cup {d}) = All(T) \cup P[d]
    OBVIOUS
  <2>2. IsFiniteSet(T) /\ IsFiniteSet(All(T)) /\ IsFiniteSet(P[d])
    BY <1>2, FS_Subset
  <2>3. All(T) \cap P[d] = {}
    OBVIOUS
  <2>4. \A x \in All(T) \cup P[d] : w[x] \in Int
    OBVIOUS
  <2>5. \A c \in T \cup {d} : v[c] \in Int
    <3>1. SUFFICES ASSUME NEW c \in C PROVE v[c] \in Int
      OBVIOUS
    <3> QED
      BY SumType
  <2>6. SumOf(v, T \cup {d}) = v[d] + SumOf(v, T)
    <3> HIDE DEF G, All
    <3> QED
      BY <2>2, <2>5, SumAdd
  <2>7. SumOf(v, T) = SumOf(w, All(T)) /\ v[d] = SumOf(w, P[d])
    BY <1>2
  <2>8. IsFiniteSet(All(T) \cup P[d]) /\ SumOf(w, All(T) \cup P[d]) = SumOf(w, All(T)) + SumOf(w, P[d])
    <3> DEFINE A == All(T)
               B == P[d]
    <3> HIDE DEF G, All
    <3>1. IsFiniteSet(A) /\ IsFiniteSet(B) /\ A \cap B = {} /\ \A x \in A \cup B : w[x] \in Int
      BY <2>2, <2>3, <2>4
    <3> HIDE DEF A, B
    <3>2. SumOf(w, A \cup B) = SumOf(w, A) + SumOf(w, B)
      BY <3>1, SumUnion
    <3>3. IsFiniteSet(A \cup B)
      BY <3>1, FS_Union
    <3> QED
      BY <3>2, <3>3 DEF A, B
  <2>9. SumOf(w, All(T)) \in Int /\ SumOf(w, P[d]) \in Int
    <3> HIDE DEF G, All
    <3> QED
      BY <2>2, <2>4, SumType
  <2>10. IsFiniteSet(All(T \cup {d})) /\ SumOf(v, T \cup {d}) = SumOf(w, All(T \cup {d}))
    <3>1. SumOf(w, All(T)) + SumOf(w, P[d]) = SumOf(w, P[d]) + SumOf(w, All(T))
      BY <2>9
    <3> DEFINE X == All(T \cup {d})
               Y == All(T) \cup P[d]
    <3>2. X = Y
      BY <2>1
    <3>3. SumOf(v, T \cup {d}) = SumOf(w, P[d]) + SumOf(w, All(T))
      BY <2>6, <2>7
    <3>4. IsFiniteSet(Y) /\ SumOf(v, T \cup {d}) = SumOf(w, Y)
      BY <2>8, <3>1, <3>3
    <3> HIDE DEF X, Y
    <3>5. IsFiniteSet(X) /\ SumOf(v, T \cup {d}) = SumOf(w, X)
      BY <3>2, <3>4
    <3> QED
      BY <3>5 DEF X
  <2> QED
    BY <2>10
<1> HIDE DEF G, All
<1>3. C \in G
  BY <1>1, <1>2, SubsetInduction
<1> QED
  BY <1>3 DEF G, All
=============================================================================
