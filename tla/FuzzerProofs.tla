---------------------------- MODULE FuzzerProofs -----------------------------
(***************************************************************************)
(* Proofs about the two halves of the fuzzer.  About Walk, for every lexer *)
(* with the shape that Walk assumes, however large: what the random walk   *)
(* sends without errors, the lexer accepts exactly when the walk began it  *)
(* in the start state.  For the lexer of the program                       *)
(* and all 256 bytes: it has that shape, and the walk has a choice of arcs *)
(* wherever it comes.                                                      *)
(*                                                                         *)
(* About the sampler of dist.py, for histograms of any size and any        *)
(* counts, any resolution and any grain of the random numbers: the loop of *)
(* _sample inverts the sums of the weights, each method samples as it is   *)
(* asked to, and the fuzzer takes the arcs of a state equally often.       *)
(***************************************************************************)
EXTENDS Walk, Lexer, DistSample, SumTheorems

(* A walk that takes arcs of Arcs never meets Fail or an accepting state,  *)
(* and ends a message only by a byte that the lexer accepts.               *)
OnTheWay == st \notin Accepting \cup {Fail}

WalkInv == WalkTypeOK /\ OnTheWay /\ InStep /\ SentIsAccepted

(* Reading what crlf made of a byte that is not LF is reading the byte.    *)
LEMMA CrlfUndone ==
  ASSUME NEW s \in States, NEW c \in Bytes, c # LF
  PROVE  /\ crlf(c) \in Bytes
         /\ Read(s, crlf(c)) = Delta[s][c]
BY TableAssumption DEF crlf, Read, LF, CR

(* An arc of a state that is not Fail stands for a byte other than LF, and *)
(* leads to Start when the lexer accepts, to the lexer's next state        *)
(* otherwise.                                                              *)
LEMMA ArcOfLexer ==
  ASSUME NEW s \in States \ {Fail}, NEW c \in Arcs(s)
  PROVE  /\ c \in Bytes /\ c # LF
         /\ Delta[s][c] \in States
         /\ IF Delta[s][c] \in Accepting
            THEN Goes(s, c) = Start
            ELSE /\ Goes(s, c) = Delta[s][c]
                 /\ Delta[s][c] # Fail /\ Delta[s][c] # Start
<1>1. c \in Bytes /\ Target(s, c) # Fail
  BY DEF Arcs
<1>2. Delta[s][LF] = Fail
  BY TableAssumption
<1>3. c # LF
  BY <1>1, <1>2, TableAssumption DEF Target
<1>4. Delta[s][c] \in States /\ Delta[s][c] # Start
  BY <1>1, TableAssumption
<1> QED
  BY <1>1, <1>3, <1>4 DEF Target, Goes

LEMMA ReadTyped ==
  ASSUME NEW s \in States, NEW ch \in Bytes
  PROVE  Read(s, ch) \in States
BY TableAssumption DEF Read, LF, CR

(* A reader that has failed, and one that begins with a byte of the last   *)
(* state, fails.                                                           *)
LEMMA ReaderFails ==
  /\ \A ch \in Bytes : Read(Fail, ch) = Fail
  /\ \A c \in Arcs(LastState) : Read(Start, crlf(c)) = Fail
<1>1. \A ch \in Bytes : Read(Fail, ch) = Fail
  BY TableAssumption, LastAssumption DEF Read, LF, CR
<1>2. ASSUME NEW c \in Arcs(LastState) PROVE Read(Start, crlf(c)) = Fail
  <2>1. /\ c \in Bytes /\ c # LF
        /\ Delta[LastState][c] # Fail
    BY <1>2, ArcOfLexer, TableAssumption, LastAssumption
  <2>2. Read(Start, crlf(c)) = Delta[Start][c]
    BY <2>1, CrlfUndone, TableAssumption
  <2> QED
    BY <2>1, <2>2, LastAssumption
<1> QED
  BY <1>1, <1>2

LEMMA InitInv == WalkInit => WalkInv
<1> SUFFICES ASSUME WalkInit PROVE WalkInv
  OBVIOUS
<1>1. WalkTypeOK
  <2>1. cnt \in 0 .. Period - 1
    BY LastAssumption DEF WalkInit
  <2> QED
    BY <2>1, TableAssumption, LastAssumption DEF WalkInit, WalkTypeOK
<1>2. OnTheWay
  BY LastAssumption DEF WalkInit, OnTheWay
<1>3. InStep /\ SentIsAccepted
  BY LastAssumption DEF WalkInit, InStep, SentIsAccepted
<1> QED
  BY <1>1, <1>2, <1>3 DEF WalkInv

LEMMA NextInv == WalkInv /\ [WalkNext]_walkvars => WalkInv'
<1> SUFFICES ASSUME WalkInv, [WalkNext]_walkvars PROVE WalkInv'
  OBVIOUS
<1> USE DEF WalkInv
<1>1. CASE UNCHANGED walkvars
  BY <1>1 DEF walkvars, WalkTypeOK, OnTheWay, InStep, SentIsAccepted
<1>2. CASE WalkNext
  <2>1. PICK c \in Arcs(st) : Take(c)
    BY <1>2 DEF WalkNext
  <2>2. /\ st \in States \ {Fail} /\ st \notin Accepting /\ buffer \in States
        /\ begun \in {Start, LastState} /\ Start # LastState
    BY LastAssumption DEF WalkTypeOK, OnTheWay
  <2>3. /\ c \in Bytes /\ c # LF
        /\ Delta[st][c] \in States
        /\ IF Delta[st][c] \in Accepting
           THEN Goes(st, c) = Start
           ELSE /\ Goes(st, c) = Delta[st][c]
                /\ Delta[st][c] # Fail /\ Delta[st][c] # Start
    BY <2>2, ArcOfLexer
  <2>4. PICK ch \in Appended(c) :
          IF Goes(st, c) = Start THEN MessageEnds(ch) ELSE MessageGoesOn(c, ch)
    BY <2>1 DEF Take
  <2>5. crlf(c) \in Bytes /\ Read(st, crlf(c)) = Delta[st][c]
    BY <2>2, <2>3, CrlfUndone
  <2>6. ch \in Bytes /\ (~msg_err => ch = crlf(c))
    BY <2>4, <2>5 DEF Appended
  <2>7. Read(buffer, ch) \in States
    BY <2>2, <2>6, ReadTyped
  <2>8. ~msg_err => Read(buffer, ch) = IF begun = Start THEN Delta[st][c] ELSE Fail
    <3>1. CASE begun = Start
      BY <2>5, <2>6, <3>1 DEF InStep
    <3>2. CASE begun = LastState
      BY <2>1, <2>2, <2>6, <3>2, ReaderFails DEF InStep
    <3> QED
      BY <2>2, <3>1, <3>2
  <2>9. CASE Goes(st, c) = Start
    <3>1. MessageEnds(ch)
      BY <2>4, <2>9
    <3>2. Delta[st][c] \in Accepting
      BY <2>3, <2>9
    <3>3. SentIsAccepted'
      BY <2>2, <2>8, <3>1, <3>2, TableAssumption DEF MessageEnds, SentIsAccepted
    <3>4. st' \in {Start, LastState} /\ begun' = st' /\ buffer' = Start
      BY <3>1 DEF MessageEnds
    <3>5. cnt' \in 0 .. Period - 1
      BY <3>1, LastAssumption DEF MessageEnds, WalkTypeOK
    <3>6. WalkTypeOK'
      BY <2>2, <3>1, <3>4, <3>5, TableAssumption, LastAssumption DEF MessageEnds, WalkTypeOK
    <3>7. OnTheWay' /\ InStep'
      BY <3>4, TableAssumption, LastAssumption DEF OnTheWay, InStep
    <3> QED
      BY <3>3, <3>6, <3>7
  <2>10. CASE Goes(st, c) # Start
    <3>1. MessageGoesOn(c, ch)
      BY <2>4, <2>10
    <3>2. st' = Delta[st][c] /\ st' \notin Accepting \cup {Fail} /\ st' \in States
      BY <2>3, <2>10, <3>1 DEF MessageGoesOn
    <3>3. WalkTypeOK' /\ OnTheWay'
      BY <2>7, <3>1, <3>2 DEF MessageGoesOn, WalkTypeOK, OnTheWay
    <3>4. InStep'
      BY <2>8, <3>1, <3>2 DEF MessageGoesOn, InStep
    <3>5. SentIsAccepted'
      BY <3>1 DEF MessageGoesOn, SentIsAccepted
    <3> QED
      BY <3>3, <3>4, <3>5
  <2> QED
    BY <2>9, <2>10
<1> QED
  BY <1>1, <1>2

LEMMA Inductive == WalkSpec => []WalkInv
<1> QED
  BY InitInv, NextInv, PTL DEF WalkSpec

(* While a message has no errors, its reader is where the walk is, unless  *)
(* the walk began it in the last state: then it fails with the first byte. *)
THEOREM ReaderInStep == WalkSpec => []InStep
<1>1. WalkInv => InStep
  BY DEF WalkInv
<1> QED
  BY Inductive, <1>1, PTL

(* What is sent without errors is in the lexer's language when the walk    *)
(* began it in the start state, and never when it began it in the last:    *)
(* not the first message of the program, nor any after a printing.         *)
THEOREM LanguageKept == WalkSpec => []SentIsAccepted
<1>1. WalkInv => SentIsAccepted
  BY DEF WalkInv
<1> QED
  BY Inductive, <1>1, PTL

-----------------------------------------------------------------------------
(* The tables of the program.  A row of DELTA goes to other states than    *)
(* the start, fails at LF, and unless it is dead goes on with two bytes.   *)

LexerRow(row) == row \in [BYTES -> LEXSTATES \ {0}] /\ row[LF] = FAIL
GoesOn(row)   == \E c, d \in BYTES : c # d /\ row[c] # FAIL /\ row[d] # FAIL
Alive(row)    == LexerRow(row) /\ GoesOn(row)

Targets == LEXSTATES \ {0, FAIL}

LEMMA TwoBytes ==
  ASSUME NEW row, NEW c \in BYTES, NEW d \in BYTES, c # d, row[c] # FAIL, row[d] # FAIL
  PROVE  GoesOn(row)
BY DEF GoesOn

LEMMA DeadRow == LexerRow(Dead)
BY DEF LexerRow, Dead, BYTES, LEXSTATES, FAIL, LF

LEMMA EitherRow ==
  ASSUME NEW chars \in SUBSET (BYTES \ {LF}), NEW x \in Targets,
         NEW c \in chars, NEW d \in chars, c # d
  PROVE  Alive(Either(chars, x))
<1>1. Either(chars, x) \in [BYTES -> LEXSTATES \ {0}] /\ Either(chars, x)[LF] = FAIL
  BY DEF Either, Targets, BYTES, LEXSTATES, FAIL, LF
<1>2. Either(chars, x)[c] # FAIL /\ Either(chars, x)[d] # FAIL /\ c \in BYTES /\ d \in BYTES
  BY DEF Either, Targets
<1> QED
  BY <1>1, <1>2, TwoBytes DEF Alive, LexerRow

LEMMA SignedRow ==
  ASSUME NEW x \in Targets, NEW y \in Targets
  PROVE  Alive(Signed(x, y))
<1> DEFINE row == Signed(x, y)
<1>1. row \in [BYTES -> LEXSTATES \ {0}] /\ row[LF] = FAIL /\ row[48] # FAIL /\ row[49] # FAIL
  BY DEF Signed, Minus, Digit, Targets, BYTES, LEXSTATES, FAIL, LF
<1>2. 48 \in BYTES /\ 49 \in BYTES
  BY DEF BYTES
<1> QED
  BY <1>1, <1>2, TwoBytes DEF Alive, LexerRow

LEMMA UntilRow ==
  ASSUME NEW chars \in SUBSET (BYTES \ {LF}), NEW x \in Targets, NEW y \in Targets
  PROVE  Alive(Until(chars, x, y))
<1> DEFINE row == Until(chars, x, y)
<1>1. row \in [BYTES -> LEXSTATES \ {0}] /\ row[LF] = FAIL /\ row[9] # FAIL /\ row[32] # FAIL
  BY DEF Until, Either, Blank, Targets, BYTES, LEXSTATES, FAIL, LF
<1>2. 9 \in BYTES /\ 32 \in BYTES
  BY DEF BYTES
<1> QED
  BY <1>1, <1>2, TwoBytes DEF Alive, LexerRow

LEMMA NumberRow ==
  ASSUME NEW x \in Targets, NEW y \in Targets, NEW z \in Targets
  PROVE  Alive(Number(x, y, z))
<1> DEFINE row == Number(x, y, z)
<1>1. row \in [BYTES -> LEXSTATES \ {0}] /\ row[LF] = FAIL /\ row[9] # FAIL /\ row[32] # FAIL
  BY DEF Number, Signed, Minus, Digit, Blank, Targets, BYTES, LEXSTATES, FAIL, LF
<1>2. 9 \in BYTES /\ 32 \in BYTES
  BY DEF BYTES
<1> QED
  BY <1>1, <1>2, TwoBytes DEF Alive, LexerRow

LEMMA CommandRow == Alive(Command)
<1>1. /\ Command \in [BYTES -> LEXSTATES \ {0}] /\ Command[LF] = FAIL
      /\ Command[99] # FAIL /\ Command[112] # FAIL
  BY DEF Command, BYTES, LEXSTATES, FAIL, LF
<1>2. 99 \in BYTES /\ 112 \in BYTES
  BY DEF BYTES
<1> QED
  BY <1>1, <1>2, TwoBytes DEF Alive, LexerRow

LEMMA FractionRow == Alive(Fraction)
<1>1. /\ Fraction \in [BYTES -> LEXSTATES \ {0}] /\ Fraction[LF] = FAIL
      /\ Fraction[9] # FAIL /\ Fraction[32] # FAIL
  BY DEF Fraction, Until, Either, Blank, Return, Dot, BYTES, LEXSTATES, FAIL, LF
<1>2. 9 \in BYTES /\ 32 \in BYTES
  BY DEF BYTES
<1> QED
  BY <1>1, <1>2, TwoBytes DEF Alive, LexerRow

LEMMA EitherGoesOn ==
  ASSUME NEW x \in Targets
  PROVE  Alive(Either(Digit, x)) /\ Alive(Either({100, 115}, x))
<1>1. Digit \in SUBSET (BYTES \ {LF}) /\ {100, 115} \in SUBSET (BYTES \ {LF})
  BY DEF Digit, BYTES, LF
<1>2. 48 \in Digit /\ 49 \in Digit
  BY DEF Digit
<1> QED
  BY <1>1, <1>2, EitherRow

(* The forms that UntilRow is used with. *)
LEMMA UntilAlive ==
  ASSUME NEW x \in Targets, NEW y \in Targets
  PROVE  Alive(Until(Return, x, y)) /\ Alive(Until(Comma, x, y))
<1>1. Return \in SUBSET (BYTES \ {LF}) /\ Comma \in SUBSET (BYTES \ {LF})
  BY DEF Return, Comma, BYTES, LF
<1> QED
  BY <1>1, UntilRow

LEMMA Alive0to17 ==
  \A n \in 1 .. 18 : LexerRow(Rows0to17[n]) /\ (n # 2 => GoesOn(Rows0to17[n]))
BY SMTT(30), DeadRow, CommandRow, SignedRow, NumberRow, UntilAlive, EitherGoesOn, FractionRow
  DEF Rows0to17, Alive, Targets, LEXSTATES, FAIL

LEMMA Alive18to35 ==
  \A n \in 1 .. 18 : LexerRow(Rows18to35[n]) /\ (n # 9 => GoesOn(Rows18to35[n]))
BY SMTT(30), DeadRow, CommandRow, SignedRow, NumberRow, UntilAlive, EitherGoesOn, FractionRow
  DEF Rows18to35, Alive, Targets, LEXSTATES, FAIL

LEMMA Alive36to53 ==
  \A n \in 1 .. 18 : LexerRow(Rows36to53[n]) /\ GoesOn(Rows36to53[n])
BY SMTT(30), DeadRow, CommandRow, SignedRow, NumberRow, UntilAlive, EitherGoesOn, FractionRow
  DEF Rows36to53, Alive, Targets, LEXSTATES, FAIL

LEMMA Alive54to67 ==
  \A n \in 1 .. 14 : LexerRow(Rows54to67[n]) /\ GoesOn(Rows54to67[n])
BY SMTT(30), DeadRow, CommandRow, SignedRow, NumberRow, UntilAlive, EitherGoesOn, FractionRow
  DEF Rows54to67, Alive, Targets, LEXSTATES, FAIL

LEMMA DeltaRow ==
  ASSUME NEW s \in LEXSTATES
  PROVE  LexerRow(DELTA[s]) /\ (s \notin {FAIL} \cup ACCEPTING => GoesOn(DELTA[s]))
<1>1. CASE s < 18
  <2>1. DELTA[s] = Rows0to17[s + 1] /\ s + 1 \in 1 .. 18
    BY <1>1 DEF DELTA, LEXSTATES
  <2> QED
    BY <2>1, Alive0to17 DEF LEXSTATES, FAIL
<1>2. CASE s \in 18 .. 35
  <2>1. DELTA[s] = Rows18to35[s - 17] /\ s - 17 \in 1 .. 18
    BY <1>2 DEF DELTA, LEXSTATES
  <2> QED
    BY <2>1, Alive18to35 DEF LEXSTATES, ACCEPTING
<1>3. CASE s \in 36 .. 53
  <2>1. DELTA[s] = Rows36to53[s - 35] /\ s - 35 \in 1 .. 18
    BY <1>3 DEF DELTA, LEXSTATES
  <2> QED
    BY <2>1, Alive36to53
<1>4. CASE s > 53
  <2>1. DELTA[s] = Rows54to67[s - 53] /\ s - 53 \in 1 .. 14
    BY <1>4 DEF DELTA, LEXSTATES
  <2> QED
    BY <2>1, Alive54to67
<1> QED
  BY <1>1, <1>2, <1>3, <1>4 DEF LEXSTATES

(* The tables of the program are as TableAssumption and LastAssumption     *)
(* want them, for all 256 bytes: what is proved of any lexer holds of      *)
(* theirs.                                                                 *)
THEOREM TablesFit ==
  /\ {LF, CR} \subseteq BYTES /\ {0, FAIL} \cup ACCEPTING \subseteq LEXSTATES
  /\ 0 # FAIL /\ 0 \notin ACCEPTING /\ FAIL \notin ACCEPTING
  /\ DELTA \in [LEXSTATES -> [BYTES -> LEXSTATES]]
  /\ \A s \in LEXSTATES, c \in BYTES : DELTA[s][c] # 0
  /\ \A s \in LEXSTATES : DELTA[s][LF] = FAIL
  /\ 67 \in LEXSTATES \ (ACCEPTING \cup {0, FAIL})
  /\ \A c \in BYTES : DELTA[67][c] # FAIL => DELTA[0][c] = FAIL
  /\ \A c \in BYTES : DELTA[FAIL][c] = FAIL
<1>1. /\ {LF, CR} \subseteq BYTES /\ {0, FAIL} \cup ACCEPTING \subseteq LEXSTATES
      /\ 0 # FAIL /\ 0 \notin ACCEPTING /\ FAIL \notin ACCEPTING
  BY DEF LF, CR, BYTES, FAIL, ACCEPTING, LEXSTATES
<1>2. \A s \in LEXSTATES : LexerRow(DELTA[s])
  BY DeltaRow
<1>3. DELTA \in [LEXSTATES -> [BYTES -> LEXSTATES]]
  <2> DEFINE Row(s) == CASE s < 18 -> Rows0to17[s + 1]
                         [] s \in 18 .. 35 -> Rows18to35[s - 17]
                         [] s \in 36 .. 53 -> Rows36to53[s - 35]
                         [] s > 53 -> Rows54to67[s - 53]
  <2>1. DELTA = [s \in LEXSTATES |-> Row(s)]
    BY DEF DELTA
  <2> HIDE DEF Row
  <2>2. \A s \in LEXSTATES : Row(s) \in [BYTES -> LEXSTATES]
    BY <1>2, <2>1 DEF LexerRow
  <2> QED
    BY <2>1, <2>2
<1>4. 67 \in LEXSTATES \ (ACCEPTING \cup {0, FAIL})
  BY DEF LEXSTATES, ACCEPTING, FAIL
<1>5. DELTA[0] = Command /\ DELTA[FAIL] = Dead /\ DELTA[67] = Fraction
  <2>1. DELTA[0] = Rows0to17[1] /\ DELTA[FAIL] = Rows0to17[2]
    BY DEF DELTA, LEXSTATES, FAIL
  <2>2. DELTA[67] = Rows54to67[14]
    BY DEF DELTA, LEXSTATES
  <2>3. Rows0to17[1] = Command
    BY DEF Rows0to17
  <2>4. Rows0to17[2] = Dead
    BY DEF Rows0to17
  <2>5. Rows54to67[14] = Fraction
    BY DEF Rows54to67
  <2> QED
    BY <2>1, <2>2, <2>3, <2>4, <2>5
<1>6. \A c \in BYTES : Fraction[c] # FAIL => Command[c] = FAIL
  <2>1. ASSUME NEW c \in BYTES, Command[c] # FAIL PROVE c \in {99, 112, 113, 114, 115}
    BY <2>1 DEF Command
  <2>2. ASSUME NEW c \in {99, 112, 113, 114, 115} PROVE Fraction[c] = FAIL
    <3>1. c \in BYTES /\ c \notin Dot /\ c \notin Blank /\ c \notin Return
      BY DEF BYTES, Dot, Blank, Return
    <3>2. Until(Return, 37, 38)[c] = FAIL
      BY <3>1 DEF Until, Either
    <3> QED
      BY <3>1, <3>2 DEF Fraction
  <2> QED
    BY <2>1, <2>2
<1>7. \A c \in BYTES : Dead[c] = FAIL
  BY DEF Dead
<1> QED
  BY <1>1, <1>2, <1>3, <1>4, <1>5, <1>6, <1>7 DEF LexerRow

(* A walk through the lexer of the program, with all its bytes, has two    *)
(* arcs or more to choose from at every step: dist is never made of fewer, *)
(* where its assertion would end the fuzzer.                               *)
THEOREM ChoiceAlways ==
  ASSUME Bytes = BYTES, States = LEXSTATES, Start = 0, Fail = FAIL,
         Accepting = ACCEPTING, LastState = 67, Delta = DELTA
  PROVE  WalkSpec => []ChoiceExists
<1>1. WalkInv => ChoiceExists
  <2> SUFFICES ASSUME WalkInv PROVE ChoiceExists
    OBVIOUS
  <2>1. st \in LEXSTATES /\ st \notin {FAIL} \cup ACCEPTING
    BY DEF WalkInv, WalkTypeOK, OnTheWay
  <2>2. PICK c, d \in BYTES : c # d /\ DELTA[st][c] # FAIL /\ DELTA[st][d] # FAIL
    BY <2>1, DeltaRow DEF GoesOn
  <2>3. Start # Fail
    BY TableAssumption
  <2>4. {c, d} \subseteq Arcs(st)
    BY <2>1, <2>2, <2>3 DEF Arcs, Target
  <2>5. IsFiniteSet(Arcs(st))
    <3> PICK m, n \in Int : m = 0 /\ n = 255
      OBVIOUS
    <3>1. IsFiniteSet(m .. n)
      BY FS_Interval
    <3>2. IsFiniteSet(BYTES)
      BY <3>1 DEF BYTES
    <3>3. Arcs(st) \subseteq BYTES
      BY <2>1 DEF Arcs
    <3> QED
      BY <3>2, <3>3, FS_Subset
  <2>6. Cardinality({c, d}) = 2
    <3>1. IsFiniteSet({c}) /\ Cardinality({c}) = 1 /\ d \notin {c}
      BY <2>2, FS_Singleton
    <3>2. Cardinality({c} \cup {d}) = 2
      BY <3>1, FS_AddElement
    <3>3. {c} \cup {d} = {c, d}
      OBVIOUS
    <3> QED
      BY <3>2, <3>3
  <2>7. Cardinality({c, d}) <= Cardinality(Arcs(st)) /\ Cardinality(Arcs(st)) \in Nat
    BY <2>4, <2>5, FS_Subset, FS_CardinalityType
  <2> QED
    BY <2>6, <2>7 DEF ChoiceExists
<1> QED
  BY <1>1, Inductive, PTL

-----------------------------------------------------------------------------
(***************************************************************************)
(* The sampler                                                             *)
(***************************************************************************)

(* The bins are 1 .. n, and n > 1 as the code asserts. *)
Bins(n)      == 1 .. n
Histogram(n) == [Bins(n) -> Nat]

-----------------------------------------------------------------------------
(* Facts about one histogram *)

LEMMA BinsFinite ==
  ASSUME NEW n \in Nat
  PROVE  IsFiniteSet(Bins(n)) /\ Cardinality(Bins(n)) = n
BY FS_Interval DEF Bins

LEMMA SizeIs ==
  ASSUME NEW n \in Nat, NEW p \in Histogram(n)
  PROVE  DOMAIN p = Bins(n) /\ Size(p) = n
BY BinsFinite DEF Size, Histogram

LEMMA TotalIs ==
  ASSUME NEW n \in Nat, NEW p \in Histogram(n)
  PROVE  /\ Total(p) = SumOf(p, Bins(n))
         /\ Total(p) \in Nat
         /\ \A j \in Bins(n) : p[j] <= Total(p)
<1>1. Total(p) = SumOf(p, Bins(n))
  BY SizeIs DEF Total, SumOf
<1>2. \A j \in Bins(n) : p[j] \in Nat
  BY DEF Histogram
<1> QED
  BY <1>1, <1>2, BinsFinite, SumNat

(* There is a highest bin. *)
LEMMA HighestExists ==
  ASSUME NEW n \in Nat \ {0}, NEW p \in Histogram(n)
  PROVE  \E j \in Bins(n) : \A l \in Bins(n) : p[l] <= p[j]
<1> DEFINE G == {T \in SUBSET Bins(n) :
                   T = {} \/ \E j \in T : \A l \in T : p[l] <= p[j]}
<1>0. \A j \in Bins(n) : p[j] \in Nat
  BY DEF Histogram
<1>1. ASSUME NEW T \in SUBSET Bins(n), NEW x \in Bins(n) \ T, T \in G
      PROVE  T \cup {x} \in G
  <2>1. CASE T = {}
    BY <1>0, <2>1
  <2>2. CASE T # {}
    <3>1. PICK j \in T : \A l \in T : p[l] <= p[j]
      BY <1>1, <2>2
    <3>2. CASE p[x] <= p[j]
      BY <1>0, <3>1, <3>2
    <3>3. CASE ~(p[x] <= p[j])
      BY <1>0, <3>1, <3>3
    <3> QED
      BY <3>2, <3>3
  <2> QED
    BY <2>1, <2>2
<1>2. {} \in G
  OBVIOUS
<1>3. Bins(n) \in G
  <2> HIDE DEF G
  <2> QED
    BY <1>1, <1>2, BinsFinite, SubsetInduction
<1>4. 1 \in Bins(n)
  BY DEF Bins
<1> QED
  BY <1>3, <1>4

LEMMA HighestIs ==
  ASSUME NEW n \in Nat \ {0}, NEW p \in Histogram(n)
  PROVE  /\ Highest(p) \in Nat
         /\ \A l \in Bins(n) : p[l] <= Highest(p)
         /\ \E j \in Bins(n) : p[j] = Highest(p)
         /\ \A j \in Bins(n) :
              (\A l \in Bins(n) : p[l] <= p[j]) => Highest(p) = p[j]
<1> DEFINE M == {p[j] : j \in Bins(n)}
<1>1. Highest(p) = CHOOSE x \in M : \A y \in M : x >= y
  BY SizeIs DEF Highest, Max
<1>2. \A j \in Bins(n) : p[j] \in Nat
  BY DEF Histogram
<1>3. \E x \in M : \A y \in M : x >= y
  BY <1>2, HighestExists
<1>4. Highest(p) \in M /\ \A y \in M : Highest(p) >= y
  BY <1>1, <1>3
<1>5. \E j \in Bins(n) : p[j] = Highest(p)
  BY <1>4
<1>6. \A l \in Bins(n) : p[l] <= Highest(p)
  BY <1>2, <1>4
<1> QED
  BY <1>2, <1>5, <1>6

(* The complement that Idf takes, and its sum. *)
Short(p) == [j \in DOMAIN p |-> Highest(p) - p[j]]

LEMMA DeficitIs ==
  ASSUME NEW n \in Nat \ {0}, NEW p \in Histogram(n)
  PROVE  /\ Short(p) \in Histogram(n)
         /\ Deficit(p) = Total(Short(p))
         /\ Deficit(p) = n * Highest(p) - Total(p)
         /\ Deficit(p) \in Nat
         /\ \A j \in Bins(n) : Highest(p) - p[j] <= Deficit(p)
<1>1. /\ Highest(p) \in Nat /\ \A j \in Bins(n) : p[j] \in Nat
      /\ \A j \in Bins(n) : p[j] <= Highest(p)
  BY HighestIs DEF Histogram
<1>2. Short(p) \in Histogram(n) /\ \A j \in Bins(n) : Short(p)[j] = Highest(p) - p[j]
  <2>1. DOMAIN p = Bins(n)
    BY SizeIs
  <2> QED
    BY <1>1, <2>1 DEF Short, Histogram
<1> DEFINE all == [j \in Bins(n) |-> Highest(p)]
<1>3. SumOf(all, Bins(n)) = n * Highest(p)
  BY <1>1, BinsFinite, SumConstant
<1>4. SumOf(all, Bins(n)) = SumOf(p, Bins(n)) + SumOf(Short(p), Bins(n))
  <2>1. \A j \in Bins(n) : /\ p[j] \in Int /\ Short(p)[j] \in Int
                           /\ all[j] = p[j] + Short(p)[j]
    BY <1>1, <1>2
  <2> HIDE DEF all
  <2> QED
    BY <2>1, BinsFinite, SumOfSums
<1>5. /\ Total(p) = SumOf(p, Bins(n)) /\ Total(p) \in Nat
      /\ Total(Short(p)) = SumOf(Short(p), Bins(n)) /\ Total(Short(p)) \in Nat
      /\ \A j \in Bins(n) : Short(p)[j] <= Total(Short(p))
  BY <1>2, TotalIs
<1>6. Deficit(p) = n * Highest(p) - Total(p)
  BY SizeIs DEF Deficit
<1>7. n * Highest(p) \in Nat
  BY <1>1
<1> QED
  BY <1>2, <1>3, <1>4, <1>5, <1>6, <1>7

LEMMA EvenIs ==
  ASSUME NEW n \in Nat \ {0}, NEW p \in Histogram(n)
  PROVE  Even(p) \in Histogram(n) /\ Total(Even(p)) = n
<1>1. Even(p) \in Histogram(n) /\ \A j \in Bins(n) : Even(p)[j] = 1
  BY SizeIs DEF Even, Histogram
<1>2. SumOf(Even(p), Bins(n)) = Cardinality(Bins(n)) * 1
  BY <1>1, BinsFinite, SumConstant
<1> QED
  BY <1>1, <1>2, BinsFinite, TotalIs

(* What is sampled is a histogram that is not empty. *)
LEMMA WeightsAre ==
  ASSUME NEW n \in Nat \ {0}, NEW p \in Histogram(n), NEW w \in {Pdf(p), Idf(p)}
  PROVE  w \in Histogram(n) /\ Total(w) \in Nat \ {0}
<1>1. Pdf(p) \in Histogram(n) /\ Total(Pdf(p)) \in Nat \ {0}
  BY EvenIs, TotalIs DEF Pdf
<1>2. Idf(p) \in Histogram(n) /\ Total(Idf(p)) \in Nat \ {0}
  <2>1. CASE Skewed(p)
    <3>1. Idf(p) = Short(p)
      BY <2>1 DEF Idf, Short
    <3>2. Deficit(p) \in Nat \ {0}
      BY <2>1, DeficitIs, TotalIs, ResolutionAssumption DEF Skewed
    <3> QED
      BY <3>1, <3>2, DeficitIs
  <2>2. CASE ~Skewed(p)
    BY <2>2, EvenIs DEF Idf
  <2> QED
    BY <2>1, <2>2
<1> QED
  BY <1>1, <1>2

(* A bin is counted. *)
LEMMA CountedBin ==
  ASSUME NEW n \in Nat \ {0}, NEW p \in Histogram(n), NEW q \in Histogram(n),
         NEW b \in Bins(n),
         q[b] = p[b] + 1, \A j \in Bins(n) \ {b} : q[j] = p[j]
  PROVE  /\ Total(q) = Total(p) + 1
         /\ Highest(q) = IF p[b] = Highest(p) THEN Highest(p) + 1 ELSE Highest(p)
         /\ Deficit(q) = IF p[b] = Highest(p) THEN Deficit(p) + (n - 1)
                                              ELSE Deficit(p) - 1
<1>1. \A j \in Bins(n) : p[j] \in Nat /\ q[j] \in Nat
  BY DEF Histogram
<1>2. Total(q) = Total(p) + 1
  <2>1. SumOf(q, Bins(n)) = SumOf(p, Bins(n)) - p[b] + q[b]
    <3>1. IsFiniteSet(Bins(n))
      BY BinsFinite
    <3>2. \A j \in Bins(n) : p[j] \in Int /\ q[j] \in Int /\ (j # b => p[j] = q[j])
      BY <1>1
    <3> QED
      BY <3>1, <3>2, SumChange
  <2>2. SumOf(p, Bins(n)) = Total(p) /\ Total(p) \in Nat /\ SumOf(q, Bins(n)) = Total(q)
    BY <1>1, TotalIs
  <2> QED
    BY <1>1, <2>1, <2>2
<1>3. Highest(q) = IF p[b] = Highest(p) THEN Highest(p) + 1 ELSE Highest(p)
  <2>1. CASE p[b] = Highest(p)
    <3>1. \A l \in Bins(n) : q[l] <= q[b]
      BY <1>1, <2>1, HighestIs
    <3> QED
      BY <1>1, <2>1, <3>1, HighestIs
  <2>2. CASE p[b] # Highest(p)
    <3>1. PICK j \in Bins(n) : p[j] = Highest(p)
      BY HighestIs
    <3>2. j # b /\ q[j] = Highest(p)
      BY <1>1, <2>2, <3>1
    <3>3. \A l \in Bins(n) : q[l] <= q[j]
      BY <1>1, <2>2, <3>1, <3>2, HighestIs
    <3> QED
      BY <1>1, <2>2, <3>2, <3>3, HighestIs
  <2> QED
    BY <2>1, <2>2
<1>4. /\ Deficit(q) = n * Highest(q) - Total(q) /\ Deficit(p) = n * Highest(p) - Total(p)
      /\ Highest(p) \in Nat /\ Total(p) \in Nat
  BY <1>1, DeficitIs, HighestIs, TotalIs
<1>5. n * (Highest(p) + 1) = n * Highest(p) + n /\ n * Highest(p) \in Nat
  BY <1>4
<1> QED
  BY <1>1, <1>2, <1>3, <1>4, <1>5

-----------------------------------------------------------------------------
(* The inductive invariant *)

TypeInv ==
  /\ fuzzing \in BOOLEAN
  /\ Size(pk) \in Nat \ {0, 1}
  /\ pk \in Histogram(Size(pk))
  /\ waits \in Histogram(Size(pk))
  /\ weights \in Histogram(Size(pk))
  /\ i \in Bins(Size(pk))
  /\ draw \in Random
  /\ k \in Int

(* In the loop k is what is left of the draw after the bins before i.      *)
LoopInv ==
  pc \in {"loop", "done"} =>
    /\ weights \in {Pdf(pk), Idf(pk)}
    /\ method = "fuzz" => weights = Idf(pk)
    /\ method = "reproduce" => weights = Pdf(pk)
    /\ fuzzing => method = "fuzz"
    /\ k = draw * Total(weights) - Grain * Prefix(weights, i - 1)
    /\ 0 <= k
    /\ pc = "done" => k < Grain * weights[i]

(* A round takes every arc once: the arcs that were taken in it are the    *)
(* highest, and Deficit(pk) arcs are left.                                 *)
RoundInv ==
  fuzzing /\ Total(pk) <= Resolution =>
    \A j \in Bins(Size(pk)) :
      /\ Highest(pk) - 1 <= pk[j]
      /\ pk[j] = Highest(pk) => waits[j] <= Size(pk) - 1 - Deficit(pk)
      /\ pk[j] < Highest(pk) => waits[j] <= 2 * Size(pk) - 1 - Deficit(pk)

DistInv == TypeInv /\ LoopInv /\ StaysEven /\ RoundInv

LEMMA PrefixIs ==
  ASSUME NEW n \in Nat \ {0}, NEW w \in Histogram(n)
  PROVE  /\ Prefix(w, 0) = 0
         /\ Prefix(w, n) = Total(w)
         /\ \A b \in Bins(n) : /\ Prefix(w, b) = Prefix(w, b - 1) + w[b]
                              /\ Prefix(w, b - 1) \in Nat
<1>1. \A b \in Int : Prefix(w, b) = SumOf(w, 1 .. b)
  BY DEF Prefix, SumOf
<1>2. \A j \in Bins(n) : w[j] \in Nat
  BY DEF Histogram
<1>3. Prefix(w, 0) = 0
  <2>1. 1 .. 0 = {}
    OBVIOUS
  <2> QED
    BY <1>1, <2>1, SumEmpty
<1>4. Prefix(w, n) = Total(w)
  BY <1>1, TotalIs DEF Bins
<1>5. ASSUME NEW b \in Bins(n)
      PROVE  /\ Prefix(w, b) = Prefix(w, b - 1) + w[b]
             /\ Prefix(w, b - 1) \in Nat
  <2>1. b \in Nat \ {0} /\ b <= n
    BY DEF Bins
  <2> DEFINE S == 1 .. b - 1
  <2>a. IsFiniteSet(1 .. b - 1)
    BY <2>1, FS_Interval
  <2>b. b \notin 1 .. b - 1 /\ (1 .. b - 1) \cup {b} = 1 .. b
    BY <2>1
  <2>c. 1 .. b \subseteq Bins(n)
    BY <2>1 DEF Bins
  <2>2. IsFiniteSet(S) /\ b \notin S /\ S \cup {b} = 1 .. b /\ S \cup {b} \subseteq Bins(n)
    BY <2>a, <2>b, <2>c
  <2>d. b \in Int /\ b - 1 \in Int
    BY <2>1
  <2>3. Prefix(w, b) = SumOf(w, S \cup {b}) /\ Prefix(w, b - 1) = SumOf(w, S)
    BY <1>1, <2>d, <2>b, Zenon
  <2> HIDE DEF S
  <2>4. \A x \in S \cup {b} : w[x] \in Int
    BY <1>2, <2>2
  <2>5. SumOf(w, S \cup {b}) = w[b] + SumOf(w, S)
    BY <2>2, <2>4, SumAdd
  <2>6. \A x \in S : w[x] \in Nat
    BY <1>2, <2>2
  <2>7. SumOf(w, S) \in Nat
    BY <2>2, <2>6, SumNat
  <2>8. w[b] \in Nat
    BY <1>2
  <2> QED
    BY <2>3, <2>5, <2>7, <2>8
<1> QED
  BY <1>3, <1>4, <1>5

LEMMA InitDistInv == Init => DistInv
<1> SUFFICES ASSUME Init PROVE DistInv
  OBVIOUS
<1> USE DEF Init
<1>1. PICK n \in Sizes : pk \in [1 .. n -> IF fuzzing THEN {0} ELSE 0 .. MaxCount]
  OBVIOUS
<1>2. n \in Nat \ {0, 1}
  BY SizesAssumption
<1>3. pk \in Histogram(n)
  BY <1>1, GrainAssumption DEF Histogram, Bins
<1>4. Size(pk) = n /\ DOMAIN pk = Bins(n)
  BY <1>2, <1>3, SizeIs
<1>5. TypeInv
  <2>1. Even(pk) \in Histogram(n)
    BY <1>2, <1>3, EvenIs
  <2>2. waits \in Histogram(n)
    BY <1>4 DEF Histogram
  <2>3. i \in Bins(n) /\ 0 \in Random
    BY <1>2, GrainAssumption DEF Bins, Random
  <2> QED
    BY <1>2, <1>3, <1>4, <2>1, <2>2, <2>3 DEF TypeInv
<1>6. LoopInv
  BY DEF LoopInv
<1>7. ASSUME fuzzing
      PROVE  /\ Total(pk) = 0 /\ Highest(pk) = 0 /\ Deficit(pk) = 0
             /\ \A j \in Bins(n) : pk[j] = 0 /\ waits[j] = 0
  <2>1. \A j \in Bins(n) : pk[j] = 0 /\ waits[j] = 0
    BY <1>1, <1>4, <1>7 DEF Bins
  <2>2. 1 \in Bins(n)
    BY <1>2 DEF Bins
  <2>3. Highest(pk) = 0
    BY <1>2, <1>3, <2>1, <2>2, HighestIs
  <2>4. SumOf(pk, Bins(n)) = Cardinality(Bins(n)) * 0
    BY <1>2, <2>1, BinsFinite, SumConstant
  <2>5. Total(pk) = 0
    BY <1>2, <1>3, <2>4, BinsFinite, TotalIs
  <2>6. Deficit(pk) = n * 0 - 0
    BY <1>2, <1>3, <2>3, <2>5, DeficitIs
  <2> QED
    BY <1>2, <2>1, <2>3, <2>5, <2>6
<1>8. StaysEven
  <2>1. \A r, m \in Nat : r * (0 - m) <= 0
    OBVIOUS
  <2>2. n - 1 \in Nat /\ 0 - (n - 1) = 0 - (n - 1)
    BY <1>2
  <2> QED
    BY <1>4, <1>7, <2>1, <2>2, ResolutionAssumption DEF StaysEven
<1>9. RoundInv
  BY <1>2, <1>4, <1>7 DEF RoundInv
<1> QED
  BY <1>5, <1>6, <1>8, <1>9 DEF DistInv

LEMMA StutterDistInv == DistInv /\ UNCHANGED vars => DistInv'
BY DEF DistInv, TypeInv, LoopInv, StaysEven, RoundInv, vars, object, sample

LEMMA NewDistInv == DistInv /\ New => DistInv'
BY DEF DistInv, TypeInv, LoopInv, StaysEven, RoundInv, New, object, sample

LEMMA AgainDistInv == DistInv /\ Again => DistInv'
BY DEF DistInv, TypeInv, LoopInv, StaysEven, RoundInv, Again, object, sample

LEMMA ChooseDistInv == DistInv /\ Choose => DistInv'
<1> SUFFICES ASSUME DistInv, Choose PROVE DistInv'
  OBVIOUS
<1> DEFINE n == Size(pk)
<1>1. PICK how \in {"fuzz", "reproduce", "uniform"}, r \in Random :
        \E w \in Chosen(how) :
          /\ weights' = w /\ method' = how /\ draw' = r /\ k' = r * Total(w)
          /\ fuzzing => how = "fuzz"
  BY DEF Choose
<1>w. PICK w \in Chosen(how) :
        /\ weights' = w /\ method' = how /\ draw' = r /\ k' = r * Total(w)
        /\ fuzzing => how = "fuzz"
  BY <1>1
<1>2. i' = 1 /\ pc' = "loop" /\ UNCHANGED <<fuzzing, pk, waits>>
  BY DEF Choose, object
<1>3. n \in Nat \ {0, 1} /\ pk \in Histogram(n)
  BY DEF DistInv, TypeInv
<1>4. /\ w \in {Pdf(pk), Idf(pk)}
      /\ how = "fuzz" => w = Idf(pk)
      /\ how = "reproduce" => w = Pdf(pk)
  BY DEF Chosen
<1>5. w \in Histogram(n) /\ Total(w) \in Nat \ {0}
  <2> HIDE DEF n
  <2> QED
    BY <1>3, <1>4, WeightsAre
<1>6. Prefix(w, 0) = 0
  <2> HIDE DEF n
  <2> QED
    BY <1>3, <1>5, PrefixIs
<1>7. r \in Nat /\ Grain * 0 = 0 /\ r * Total(w) \in Nat
  BY <1>5, GrainAssumption DEF Random
<1>8. TypeInv'
  BY <1>w, <1>2, <1>3, <1>5, <1>7 DEF DistInv, TypeInv, Bins
<1>9. LoopInv'
  <2>1. k' = draw' * Total(w) - Grain * Prefix(w, 1 - 1) /\ 0 <= k'
    BY <1>w, <1>6, <1>7
  <2> QED
    BY <1>w, <1>2, <1>4, <2>1 DEF LoopInv
<1>10. StaysEven' /\ RoundInv'
  BY <1>2 DEF DistInv, StaysEven, RoundInv
<1> QED
  BY <1>8, <1>9, <1>10 DEF DistInv

LEMMA Distributes == \A a, b, c \in Int : a * (b + c) = a * b + a * c
OBVIOUS

(* A draw is less than the sum of all weights. *)
LEMMA DrawBelow ==
  ASSUME NEW r \in Random, NEW t \in Nat \ {0}
  PROVE  /\ r * t \in Nat /\ Grain * t \in Nat
         /\ r * t < Grain * t
<1>1. r \in Nat /\ Grain \in Nat /\ r + 1 <= Grain
  BY GrainAssumption DEF Random
<1>2. \A a, b, c \in Nat : a + 1 <= b /\ c > 0 => a * c < b * c
  <2>1. SUFFICES ASSUME NEW a \in Nat, NEW b \in Nat, NEW c \in Nat, a + 1 <= b, c > 0
                 PROVE  a * c < b * c
    OBVIOUS
  <2>2. PICK d \in Nat : b = a + 1 + d
    <3>1. b - a - 1 \in Nat /\ b = a + 1 + (b - a - 1)
      BY <2>1
    <3> QED
      BY <3>1
  <2>3. b * c = a * c + c + d * c /\ a * c \in Nat /\ d * c \in Nat
    BY <2>2
  <2> QED
    BY <2>1, <2>3
<1> QED
  BY <1>1, <1>2

LEMMA SampleDistInv == DistInv /\ Sample => DistInv'
<1> SUFFICES ASSUME DistInv, Sample PROVE DistInv'
  OBVIOUS
<1>1. PICK n \in Nat \ {0, 1} : n = Size(pk)
  BY DEF DistInv, TypeInv
<1>2. /\ pk \in Histogram(n) /\ weights \in Histogram(n) /\ i \in Bins(n)
      /\ draw \in Random /\ k \in Int
  BY <1>1 DEF DistInv, TypeInv
<1>3. /\ weights \in {Pdf(pk), Idf(pk)} /\ 0 <= k
      /\ k = draw * Total(weights) - Grain * Prefix(weights, i - 1)
  BY DEF DistInv, LoopInv, Sample
<1>4. Total(weights) \in Nat \ {0}
  BY <1>1, <1>2, <1>3, WeightsAre
<1>5. /\ Prefix(weights, i) = Prefix(weights, i - 1) + weights[i]
      /\ Prefix(weights, i - 1) \in Nat
      /\ Prefix(weights, n) = Total(weights)
      /\ weights[i] \in Nat /\ i \in Nat \ {0} /\ i <= n
  <2>1. weights[i] \in Nat /\ i \in Nat \ {0} /\ i <= n
    BY <1>2 DEF Histogram, Bins
  <2> QED
    BY <1>1, <1>2, <2>1, PrefixIs
<1>6. /\ draw * Total(weights) \in Nat
      /\ draw * Total(weights) < Grain * Total(weights)
      /\ Grain * Total(weights) \in Nat
  BY <1>2, <1>4, DrawBelow
<1>7. /\ Grain * Prefix(weights, i)
           = Grain * Prefix(weights, i - 1) + Grain * weights[i]
      /\ Grain * Prefix(weights, i - 1) \in Int /\ Grain * weights[i] \in Int
  <2>1. Grain \in Int
    BY GrainAssumption
  <2> QED
    BY <1>5, <2>1, Distributes
<1>8. UNCHANGED <<object, pk, weights, method, draw, waits>>
  BY DEF Sample
<1>9. StaysEven' /\ RoundInv'
  BY <1>8 DEF DistInv, StaysEven, RoundInv, object
<1>10. CASE Grain * weights[i] > k
  <2>1. pc' = "done" /\ UNCHANGED <<k, i>>
    BY <1>10 DEF Sample
  <2>2. TypeInv'
    BY <1>8, <2>1 DEF DistInv, TypeInv, object
  <2>3. k < Grain * weights[i]
    BY <1>2, <1>7, <1>10
  <2>4. LoopInv'
    BY <1>8, <2>1, <2>3 DEF DistInv, LoopInv, object, Sample
  <2> QED
    BY <1>9, <2>2, <2>4 DEF DistInv
<1>11. CASE ~(Grain * weights[i] > k)
  <2>1. pc' = "loop" /\ k' = k - Grain * weights[i] /\ i' = i + 1
    BY <1>11 DEF Sample
  <2>2. 0 <= k' /\ k' \in Int
    BY <1>2, <1>7, <1>11, <2>1
  <2>3. k' = draw * Total(weights) - Grain * Prefix(weights, i)
    BY <1>3, <1>6, <1>7, <2>1
  <2>4. i # n
    BY <1>5, <1>6, <2>2, <2>3
  <2>5. i' \in Bins(n) /\ i' - 1 = i
    BY <1>5, <2>1, <2>4 DEF Bins
  <2>6. TypeInv'
    BY <1>1, <1>8, <2>2, <2>5 DEF DistInv, TypeInv, object
  <2>7. LoopInv'
    <3>1. pc' # "done"
      BY <2>1
    <3> QED
      BY <1>8, <2>2, <2>3, <2>5, <3>1 DEF DistInv, LoopInv, object, Sample
  <2> QED
    BY <1>9, <2>6, <2>7 DEF DistInv
<1> QED
  BY <1>10, <1>11

(* What fuzz takes is a bin that is not the highest, as long as there is a *)
(* difference that the resolution shows.                                   *)
LEMMA FuzzTakesLow ==
  ASSUME DistInv, pc = "done", method = "fuzz", Skewed(pk)
  PROVE  pk[i] < Highest(pk)
<1>1. PICK n \in Nat \ {0, 1} : n = Size(pk) /\ pk \in Histogram(n) /\ i \in Bins(n)
  BY DEF DistInv, TypeInv
<1>2. weights = Short(pk) /\ 0 <= k /\ k < Grain * weights[i] /\ k \in Int
  BY DEF DistInv, TypeInv, LoopInv, Idf, Short
<1>3. weights[i] = Highest(pk) - pk[i]
  BY <1>1, <1>2, SizeIs DEF Short
<1>4. pk[i] \in Nat /\ Highest(pk) \in Nat /\ pk[i] <= Highest(pk)
  BY <1>1, HighestIs DEF Histogram
<1>5. weights[i] # 0
  <2>1. Grain * 0 = 0
    BY GrainAssumption
  <2> QED
    BY <1>2, <2>1
<1> QED
  BY <1>3, <1>4, <1>5

LEMMA StepDistInv == DistInv /\ Step => DistInv'
<1> SUFFICES ASSUME DistInv, Step PROVE DistInv'
  OBVIOUS
<1>1. PICK n \in Nat \ {0, 1} : n = Size(pk)
  BY DEF DistInv, TypeInv
<1> DEFINE H == Highest(pk)
           D == Deficit(pk)
           T == Total(pk)
<1>2. /\ pk \in Histogram(n) /\ waits \in Histogram(n) /\ i \in Bins(n)
      /\ DOMAIN pk = Bins(n)
  BY <1>1, SizeIs DEF DistInv, TypeInv
<1>3. /\ pk' \in Histogram(n)
      /\ pk'[i] = pk[i] + 1 /\ \A j \in Bins(n) \ {i} : pk'[j] = pk[j]
  BY <1>2 DEF Step, Counts, Histogram
<1>4. Size(pk') = n
  BY <1>3, SizeIs
<1>5. /\ Total(pk') = T + 1
      /\ Highest(pk') = IF pk[i] = H THEN H + 1 ELSE H
      /\ Deficit(pk') = IF pk[i] = H THEN D + (n - 1) ELSE D - 1
  BY <1>2, <1>3, CountedBin
<1>6. /\ T \in Nat /\ H \in Nat /\ D \in Nat
      /\ \A j \in Bins(n) : pk[j] \in Nat /\ pk[j] <= H /\ H - pk[j] <= D
  BY <1>2, TotalIs, HighestIs, DeficitIs DEF Histogram
<1>7. /\ waits' \in Histogram(n)
      /\ waits'[i] = 0 /\ \A j \in Bins(n) \ {i} : waits'[j] = waits[j] + 1
      /\ \A j \in Bins(n) : waits[j] \in Nat
  BY <1>2 DEF Step, Histogram
<1>8. pc = "done" /\ fuzzing /\ pc' = "new" /\ UNCHANGED <<object, sample>>
  BY DEF Step
<1>9. method = "fuzz"
  BY <1>8 DEF DistInv, LoopInv
<1>10. Skewed(pk) => pk[i] # H
  BY <1>6, <1>8, <1>9, <1>2, FuzzTakesLow
<1>11. TypeInv'
  BY <1>1, <1>2, <1>3, <1>4, <1>7, <1>8 DEF DistInv, TypeInv, object, sample
<1>12. LoopInv'
  BY <1>8 DEF LoopInv
<1>R. Resolution \in Nat \ {0}
  BY ResolutionAssumption
<1>13. StaysEven'
  <2>1. Resolution * (D - (n - 1)) <= T
    BY <1>1, <1>8 DEF DistInv, StaysEven
  <2>2. SUFFICES Resolution * (Deficit(pk') - (n - 1)) <= T + 1
    BY <1>4, <1>5 DEF StaysEven
  <2>3. CASE pk[i] = H
    <3>1. ~Skewed(pk)
      BY <1>10, <2>3
    <3>2. Resolution * D <= T
      <4>1. CASE T > 0
        BY <1>6, <1>R, <3>1, <4>1 DEF Skewed
      <4>2. CASE T = 0
        <5>1. pk[i] = 0
          BY <1>2, <1>6, <4>2, TotalIs
        <5>2. H = 0
          BY <2>3, <5>1
        <5>3. D = n * 0 - 0
          BY <1>2, <4>2, <5>2, DeficitIs
        <5> HIDE DEF D
        <5> QED
          BY <1>R, <4>2, <5>3
      <4> QED
        BY <1>6, <4>1, <4>2
    <3>3. Deficit(pk') - (n - 1) = D
      BY <1>1, <1>5, <1>6, <2>3
    <3> QED
      BY <1>6, <1>R, <3>2, <3>3
  <2>4. CASE pk[i] # H
    <3>1. Deficit(pk') - (n - 1) = (D - (n - 1)) - 1
      BY <1>1, <1>5, <1>6, <2>4
    <3>2. \A r \in Nat, d \in Int : r * (d - 1) <= r * d
      OBVIOUS
    <3>3. D - (n - 1) \in Int
      BY <1>1, <1>6
    <3>4. \A a, b, c \in Int : a <= b /\ b <= c => a <= c + 1
      OBVIOUS
    <3>5. Resolution * ((D - (n - 1)) - 1) \in Int /\ Resolution * (D - (n - 1)) \in Int
      BY <1>R, <3>3
    <3> QED
      BY <1>6, <1>R, <2>1, <3>1, <3>2, <3>3, <3>4, <3>5
  <2> QED
    BY <2>3, <2>4
<1>14. RoundInv'
  <2>1. SUFFICES ASSUME T + 1 <= Resolution, NEW j \in Bins(n)
                 PROVE  /\ Highest(pk') - 1 <= pk'[j]
                        /\ pk'[j] = Highest(pk') => waits'[j] <= n - 1 - Deficit(pk')
                        /\ pk'[j] < Highest(pk') => waits'[j] <= 2 * n - 1 - Deficit(pk')
    BY <1>4, <1>5 DEF RoundInv
  <2>2. \A l \in Bins(n) :
          /\ H - 1 <= pk[l]
          /\ pk[l] = H => waits[l] <= n - 1 - D
          /\ pk[l] < H => waits[l] <= 2 * n - 1 - D
    BY <1>1, <1>6, <1>8, <1>R, <2>1 DEF DistInv, RoundInv
  <2>3. CASE D = 0
    <3>1. \A l \in Bins(n) : pk[l] = H
      BY <1>6, <2>3
    <3>2. Highest(pk') = H + 1 /\ Deficit(pk') = n - 1
      BY <1>1, <1>2, <1>5, <2>3, <3>1
    <3>3. CASE j = i
      BY <1>1, <1>3, <1>6, <1>7, <3>1, <3>2, <3>3
    <3>4. CASE j # i
      BY <1>1, <1>3, <1>6, <1>7, <2>2, <2>3, <3>1, <3>2, <3>4
    <3> QED
      BY <3>3, <3>4
  <2>4. CASE D > 0
    <3>1. Resolution * D > T
      <4>1. \A r, d \in Nat : d > 0 => r * d >= r
        <5>1. SUFFICES ASSUME NEW r \in Nat, NEW d \in Nat, d > 0
                       PROVE  r * d >= r
          OBVIOUS
        <5>2. r * d = r * (d - 1) + r /\ r * (d - 1) \in Nat
          BY <5>1
        <5> QED
          BY <5>1, <5>2
      <4>2. Resolution * D >= Resolution /\ Resolution * D \in Nat
        BY <1>6, <1>R, <2>4, <4>1
      <4> QED
        BY <1>6, <1>R, <2>1, <4>2
    <3>2. H > 0
      <4>1. H = 0 => D = n * 0 - T
        BY <1>2, DeficitIs
      <4>2. n * 0 = 0
        BY <1>1
      <4> QED
        BY <1>6, <2>4, <4>1, <4>2
    <3>3. T > 0
      <4>1. PICK l \in Bins(n) : pk[l] = H
        BY <1>2, HighestIs
      <4>2. pk[l] <= T
        BY <1>2, TotalIs
      <4> QED
        BY <1>6, <3>2, <4>1, <4>2
    <3>4. pk[i] # H
      BY <1>10, <3>1, <3>3 DEF Skewed
    <3>5. Highest(pk') = H /\ Deficit(pk') = D - 1
      BY <1>5, <3>4
    <3>6. pk[i] = H - 1
      BY <1>2, <1>6, <2>2, <3>4
    <3>7. \E l \in Bins(n) : pk[l] = H
      BY <1>2, HighestIs
    <3>8. D <= n - 1
      BY <1>1, <1>6, <1>7, <2>2, <3>7
    <3>9. CASE j = i
      <4>1. pk'[j] = H /\ waits'[j] = 0
        BY <1>2, <1>3, <1>6, <1>7, <3>6, <3>9
      <4>2. 0 <= n - 1 - (D - 1)
        BY <1>1, <1>6, <3>8
      <4> QED
        BY <1>6, <3>5, <4>1, <4>2
    <3>10. CASE j # i
      BY <1>1, <1>3, <1>6, <1>7, <2>2, <3>5, <3>10
    <3> QED
      BY <3>9, <3>10
  <2> QED
    BY <1>6, <2>3, <2>4
<1> QED
  BY <1>11, <1>12, <1>13, <1>14 DEF DistInv

(* The invariant holds in every state, for histograms of any size.         *)
LEMMA DistInvariance == Spec => []DistInv
<1>1. DistInv /\ [Next]_vars => DistInv'
  BY NewDistInv, ChooseDistInv, SampleDistInv, AgainDistInv, StepDistInv,
    StutterDistInv DEF Next
<1> QED
  BY InitDistInv, <1>1, PTL DEF Spec

-----------------------------------------------------------------------------
(* The properties *)

(* Whatever the weights, the loop of _sample ends in the bin of the        *)
(* inverse distribution function, never behind the last one.               *)
THEOREM InverseFound == Spec => []InverseOfSums
<1>1. DistInv => InverseOfSums
  <2> SUFFICES ASSUME DistInv PROVE InverseOfSums
    OBVIOUS
  <2>1. PICK n \in Nat \ {0, 1} : n = Size(pk)
    BY DEF DistInv, TypeInv
  <2>2. weights \in Histogram(n) /\ i \in Bins(n) /\ draw \in Random
    BY <2>1 DEF DistInv, TypeInv
  <2>3. ASSUME pc = "done"
        PROVE  /\ Grain * Prefix(weights, i - 1) <= draw * Total(weights)
               /\ draw * Total(weights) < Grain * Prefix(weights, i)
    <3>1. /\ k = draw * Total(weights) - Grain * Prefix(weights, i - 1)
          /\ 0 <= k /\ k < Grain * weights[i]
      BY <2>3 DEF DistInv, LoopInv
    <3>2. /\ Prefix(weights, i) = Prefix(weights, i - 1) + weights[i]
          /\ Prefix(weights, i - 1) \in Nat
      BY <2>1, <2>2, PrefixIs
    <3>3. weights[i] \in Nat /\ Total(weights) \in Nat /\ draw \in Nat /\ Grain \in Nat
      BY <2>1, <2>2, TotalIs, GrainAssumption DEF Histogram, Random
    <3>4. /\ Grain * Prefix(weights, i)
               = Grain * Prefix(weights, i - 1) + Grain * weights[i]
          /\ Grain * Prefix(weights, i - 1) \in Int /\ Grain * weights[i] \in Int
          /\ draw * Total(weights) \in Int
      BY <3>2, <3>3, Distributes
    <3> QED
      BY <3>1, <3>4
  <2> QED
    BY <2>1, <2>2, <2>3 DEF InverseOfSums, Bins
<1> QED
  BY <1>1, DistInvariance, PTL

(* uniform makes every bin as likely as another: pdf and idf, mixed by     *)
(* Alpha, are constant, and where the histogram counts as uniform they     *)
(* miss 1/size by no more than the resolution.                             *)
LEMMA Mixes ==
  ASSUME DistInv
  PROVE  UniformMixes
<1>1. PICK n \in Nat \ {0, 1} : n = Size(pk) /\ pk \in Histogram(n) /\ DOMAIN pk = Bins(n)
  BY SizeIs DEF DistInv, TypeInv
<1> DEFINE H == Highest(pk)
           D == Deficit(pk)
           T == Total(pk)
<1>2. /\ T \in Nat /\ H \in Nat /\ D \in Nat /\ D = n * H - T
      /\ \A j \in Bins(n) : pk[j] \in Nat /\ pk[j] <= H /\ H - pk[j] <= D
  BY <1>1, TotalIs, HighestIs, DeficitIs DEF Histogram
<1>R. Resolution \in Nat \ {0}
  BY ResolutionAssumption
<1>3. SUFFICES ASSUME NEW j \in Bins(n)
      PROVE  IF Skewed(pk)
             THEN n * (Alpha(pk).num * Pdf(pk)[j] * Total(Idf(pk))
                        + (Alpha(pk).den - Alpha(pk).num) * Idf(pk)[j] * T)
                    = Alpha(pk).den * T * Total(Idf(pk))
             ELSE /\ Resolution * (n * Pdf(pk)[j] - Total(Pdf(pk))) <= Total(Pdf(pk))
                  /\ Resolution * (Total(Pdf(pk)) - n * Pdf(pk)[j])
                       <= (n - 1) * Total(Pdf(pk))
  BY <1>1 DEF UniformMixes
<1>4. CASE Skewed(pk)
  <2>1. Pdf(pk) = pk /\ Idf(pk) = Short(pk) /\ Total(Idf(pk)) = D
    BY <1>1, <1>4, DeficitIs DEF Pdf, Idf, Short, Skewed
  <2>2. Short(pk)[j] = H - pk[j]
    BY <1>1 DEF Short
  <2>3. Alpha(pk).num = T /\ Alpha(pk).den = D + T /\ Alpha(pk).den - Alpha(pk).num = D
    BY <1>2, <1>4 DEF Alpha
  <2>4. n * (T * pk[j] * D + D * (H - pk[j]) * T) = (D + T) * T * D
    <3>1. \A t, h, d, p \in Int : t * p * d + d * (h - p) * t = h * (t * d)
      OBVIOUS
    <3>2. \A a, h, t, d \in Int : a * (h * (t * d)) = (a * h) * t * d
      OBVIOUS
    <3>3. n * H = D + T
      BY <1>1, <1>2
    <3> HIDE DEF H, D, T
    <3>4. T * pk[j] * D + D * (H - pk[j]) * T = H * (T * D)
      BY <1>2, <3>1
    <3>5. n * (H * (T * D)) = (n * H) * T * D
      BY <1>1, <1>2, <3>2
    <3> QED
      BY <3>3, <3>4, <3>5
  <2> QED
    BY <1>4, <2>1, <2>2, <2>3, <2>4
<1>5. CASE ~Skewed(pk)
  <2>1. CASE T = 0
    <3>1. Pdf(pk)[j] = 1 /\ Total(Pdf(pk)) = n
      BY <1>1, <2>1, EvenIs DEF Pdf, Even
    <3>2. Resolution * 0 = 0 /\ n * 1 - n = 0 /\ n - n * 1 = 0 /\ 0 <= (n - 1) * n
      BY <1>1, <1>R
    <3> QED
      BY <1>1, <1>5, <3>1, <3>2
  <2>2. CASE T > 0
    <3>1. Pdf(pk) = pk
      BY <2>2 DEF Pdf
    <3>2. Resolution * D <= T
      BY <1>2, <1>R, <1>5, <2>2 DEF Skewed
    <3> HIDE DEF H, D, T
    <3>3. PICK s \in Nat : s = H - pk[j] /\ s <= D
      BY <1>2
    <3>4. n * pk[j] = n * H - n * s
      BY <1>1, <1>2, <3>3
    <3>5. n * pk[j] - T = D - n * s /\ T - n * pk[j] = n * s - D
      BY <1>1, <1>2, <3>4
    <3>6. \A r, d, x \in Nat : r * (d - x) <= r * d
      OBVIOUS
    <3>7. Resolution * (D - n * s) <= T
      BY <1>1, <1>2, <1>R, <3>2, <3>3, <3>6
    <3>8. n * s - D <= (n - 1) * D
      BY <1>1, <1>2, <3>3
    <3>9. \A r \in Nat, a, b \in Int : a <= b => r * a <= r * b
      OBVIOUS
    <3>10. Resolution * (n * s - D) <= Resolution * ((n - 1) * D)
      BY <1>1, <1>2, <1>R, <3>3, <3>8, <3>9
    <3>11. Resolution * ((n - 1) * D) = (n - 1) * (Resolution * D)
      BY <1>1, <1>2, <1>R
    <3>12. (n - 1) * (Resolution * D) <= (n - 1) * T
      BY <1>1, <1>2, <1>R, <3>2, <3>9
    <3>13. Resolution * (n * s - D) <= (n - 1) * T
      BY <1>1, <1>2, <1>R, <3>3, <3>10, <3>11, <3>12
    <3> QED
      BY <1>5, <3>1, <3>5, <3>7, <3>13 DEF T
  <2> QED
    BY <1>2, <2>1, <2>2
<1> QED
  BY <1>4, <1>5

(* fuzz takes none of the highest bins, reproduce no empty one, uniform    *)
(* every bin as often as another.                                          *)
THEOREM MethodsSample == Spec => []SamplesAsAsked
<1>1. ASSUME DistInv PROVE FuzzAvoidsHighest
  <2>1. ASSUME pc = "done", method = "reproduce", Total(pk) > 0
        PROVE  pk[i] > 0
    <3>1. weights = pk /\ 0 <= k /\ k < Grain * weights[i] /\ k \in Int
      BY <1>1, <2>1 DEF DistInv, TypeInv, LoopInv, Pdf
    <3>2. pk[i] \in Nat
      BY <1>1 DEF DistInv, TypeInv, Histogram
    <3>3. Grain * 0 = 0
      BY GrainAssumption
    <3> QED
      BY <3>1, <3>2, <3>3
  <2> QED
    BY <1>1, <2>1, FuzzTakesLow DEF FuzzAvoidsHighest
<1>2. DistInv => SamplesAsAsked
  BY <1>1, Mixes DEF SamplesAsAsked
<1> QED
  BY <1>2, DistInvariance, PTL

(* However long the fuzzer runs, the arcs of a state are taken equally     *)
(* often, up to one round and one arc per Resolution steps.                *)
THEOREM ArcsEven == Spec => []StaysEven
<1>1. DistInv => StaysEven
  BY DEF DistInv
<1> QED
  BY <1>1, DistInvariance, PTL

(* As long as the resolution shows every difference, no arc waits for more *)
(* than two rounds of the others.                                          *)
THEOREM LoopsAreLeft == Spec => []LeavesLoops
<1>1. DistInv => LeavesLoops
  <2> SUFFICES ASSUME DistInv, fuzzing, Total(pk) <= Resolution, NEW j \in DOMAIN pk
               PROVE  waits[j] <= 2 * (Size(pk) - 1)
    BY DEF LeavesLoops
  <2>1. PICK n \in Nat \ {0, 1} : n = Size(pk) /\ pk \in Histogram(n) /\ waits \in Histogram(n)
    BY DEF DistInv, TypeInv
  <2>2. DOMAIN pk = Bins(n)
    BY <2>1, SizeIs
  <2>3. /\ pk[j] = Highest(pk) => waits[j] <= n - 1 - Deficit(pk)
        /\ pk[j] < Highest(pk) => waits[j] <= 2 * n - 1 - Deficit(pk)
    BY <2>1, <2>2 DEF DistInv, RoundInv
  <2>4. /\ Highest(pk) \in Nat /\ Deficit(pk) \in Nat
        /\ pk[j] \in Nat /\ waits[j] \in Nat
        /\ pk[j] <= Highest(pk) /\ Highest(pk) - pk[j] <= Deficit(pk)
    BY <2>1, <2>2, HighestIs, DeficitIs DEF Histogram
  <2> QED
    BY <2>1, <2>3, <2>4
<1> QED
  BY <1>1, DistInvariance, PTL
=============================================================================
