-------------------------- MODULE TelemetryProofs --------------------------
(***************************************************************************)
(* Proofs about Telemetry, for any number of clients and without the two   *)
(* bounds: the inductive invariants never use them.                        *)
(***************************************************************************)
EXTENDS Telemetry, SumTheorems

(* The types that the other invariants need, and that the exit breakpoint  *)
(* is not logged.                                                          *)
Typed ==
  /\ coverage \in Counts
  /\ events \in [Names -> Counts]
  /\ counter \in [Conns -> Nat]
  /\ tpc \in [Conns -> {"run", "capture", "add", "store", "exiting", "log",
                        "zero", "read", "write"}]
  /\ cause \in [Conns -> Causes]
  /\ newcov \in [Conns -> Nat]
  /\ old \in [Conns -> Nat]
  /\ captured \in Nat
  /\ logged \in [Names -> Nat]
  /\ \A c \in Conns : tpc[c] \in {"log", "zero", "read", "write"} => cause[c] \in Names

(* A sum that is about to be stored holds the counts of its own process    *)
(* and a coverage that was once stored.                                    *)
SumInv ==
  \A c \in Conns :
    /\ tpc[c] = "add" => newcov[c] = counter[c]
    /\ tpc[c] = "store" => newcov[c] <= captured + counter[c]

(* Who wipes out a count is still in log_event, and will write one.        *)
SeenInv ==
  \A n \in Names : logged[n] > 0 =>
    \/ events[n].count > 0
    \/ \E c \in Conns : cause[c] = n /\ tpc[c] \in {"read", "write"}

TelemetryInv == Typed /\ SumInv /\ NoInvention /\ SeenInv

LEMMA InitTelemetryInv == Init => TelemetryInv
BY DEF Init, TelemetryInv, Typed, SumInv, NoInvention, SeenInv, Counts, None,
  Causes, Names

LEMMA NextTyped ==
  ASSUME Typed, NEW c \in Conns, Process(c) \/ HandleEvent(c)
  PROVE  Typed'
<1> USE DEF Typed, Counts, Causes, Names, Goto, shared, locals, history
<1>1. CASE Execute(c)
  BY <1>1 DEF Execute
<1>2. CASE Stop(c)
  BY <1>2 DEF Stop, Stops
<1>3. CASE Exit(c)
  BY <1>3 DEF Exit
<1>4. CASE Capture(c)
  BY <1>4 DEF Capture
<1>5. CASE Add(c)
  BY <1>5 DEF Add
<1>6. CASE Store(c)
  BY <1>6 DEF Store
<1>7. CASE LogTest(c)
  BY <1>7 DEF LogTest
<1>8. CASE LogZero(c)
  BY <1>8 DEF LogZero
<1>9. CASE LogRead(c)
  BY <1>9 DEF LogRead
<1>10. CASE LogWrite(c)
  BY <1>10 DEF LogWrite, Resume
<1> QED
  BY <1>1, <1>2, <1>3, <1>4, <1>5, <1>6, <1>7, <1>8, <1>9, <1>10
    DEF Process, HandleEvent

LEMMA NextSum ==
  ASSUME Typed, SumInv, NoInvention, NEW c \in Conns, Process(c) \/ HandleEvent(c)
  PROVE  SumInv' /\ NoInvention'
<1> USE DEF Typed, SumInv, NoInvention, Counts, Goto, shared, locals, history
<1>1. CASE Execute(c)
  BY <1>1 DEF Execute
<1>2. CASE Stop(c) \/ Exit(c)
  BY <1>2 DEF Stop, Exit
<1>3. CASE Capture(c)
  BY <1>3 DEF Capture
<1>4. CASE Add(c)
  BY <1>4 DEF Add
<1>5. CASE Store(c)
  BY <1>5 DEF Store
<1>6. CASE LogTest(c) \/ LogZero(c) \/ LogRead(c)
  BY <1>6 DEF LogTest, LogZero, LogRead
<1>7. CASE LogWrite(c)
  BY <1>7 DEF LogWrite, Resume
<1> QED
  BY <1>1, <1>2, <1>3, <1>4, <1>5, <1>6, <1>7 DEF Process, HandleEvent

LEMMA NextSeen ==
  ASSUME Typed, SeenInv, NEW c \in Conns, Process(c) \/ HandleEvent(c)
  PROVE  SeenInv'
<1> USE DEF Typed, SeenInv, Counts, Goto, shared, locals, history
<1>1. CASE Execute(c)
  BY <1>1 DEF Execute
<1>2. CASE Stop(c) \/ Exit(c)
  BY <1>2 DEF Stop, Exit
<1>3. CASE Capture(c) \/ Add(c) \/ Store(c)
  BY <1>3 DEF Capture, Add, Store
<1>4. CASE LogTest(c) \/ LogRead(c)
  BY <1>4 DEF LogTest, LogRead
<1>5. CASE LogZero(c)
  BY <1>5 DEF LogZero
<1>6. CASE LogWrite(c)
  <2>1. events'[cause[c]].count > 0 /\ cause[c] \in Names
    BY <1>6 DEF LogWrite, Resume
  <2>2. ASSUME NEW n \in Names, n # cause[c], logged'[n] > 0
        PROVE  \/ events'[n].count > 0
               \/ \E d \in Conns : cause'[d] = n /\ tpc'[d] \in {"read", "write"}
    BY <1>6, <2>2 DEF LogWrite, Resume
  <2> QED
    BY <2>1, <2>2
<1> QED
  BY <1>1, <1>2, <1>3, <1>4, <1>5, <1>6 DEF Process, HandleEvent

(* The invariant holds in every state of every behaviour. *)
THEOREM TelemetryInvariance == Spec => []TelemetryInv
<1>1. TelemetryInv /\ [Next]_vars => TelemetryInv'
  <2> SUFFICES ASSUME TelemetryInv, [Next]_vars
               PROVE  TelemetryInv'
    OBVIOUS
  <2>1. ASSUME NEW c \in Conns, Process(c) \/ HandleEvent(c)
        PROVE  TelemetryInv'
    BY <2>1, NextTyped, NextSum, NextSeen DEF TelemetryInv
  <2>2. CASE UNCHANGED vars
    BY <2>2 DEF TelemetryInv, Typed, SumInv, NoInvention, SeenInv, vars,
      shared, locals, history
  <2> QED
    BY <2>1, <2>2 DEF Next
<1> QED
  BY <1>1, InitTelemetryInv, PTL DEF Spec

(* The shared counts and the locals of the threads keep their types. *)
THEOREM TypeCorrect == Spec => []TypeOK
<1> DEFINE Rest == executed \in Nat /\ overlap \subseteq Names \cup {"coverage"}
<1>1. Init => Rest
  BY DEF Init
<1>2. TelemetryInv /\ Rest /\ [Next]_vars => Rest'
  <2> SUFFICES ASSUME TelemetryInv, Rest, [Next]_vars
               PROVE  Rest'
    OBVIOUS
  <2>1. ASSUME NEW c \in Conns, Process(c)
        PROVE  Rest'
    BY <2>1 DEF Process, Execute, Stop, Exit, history
  <2>2. ASSUME NEW c \in Conns, HandleEvent(c)
        PROVE  Rest'
    <3>1. CASE Add(c)
      BY <3>1 DEF Add, Begins
    <3>2. CASE LogTest(c)
      BY <3>2 DEF LogTest, Begins, Goto, TelemetryInv, Typed
    <3>3. CASE Capture(c) \/ Store(c) \/ LogZero(c) \/ LogRead(c) \/ LogWrite(c)
      BY <3>3 DEF Capture, Store, LogZero, LogRead, LogWrite, Resume, history
    <3> QED
      BY <2>2, <3>1, <3>2, <3>3 DEF HandleEvent
  <2>3. CASE UNCHANGED vars
    BY <2>3 DEF vars, history
  <2> QED
    BY <2>1, <2>2, <2>3 DEF Next
<1>3. TelemetryInv /\ Rest => TypeOK
  BY DEF TelemetryInv, Typed, TypeOK
<1> HIDE DEF Rest
<1> QED
  BY <1>1, <1>2, <1>3, TelemetryInvariance, PTL DEF Spec

(* The accumulated coverage of PyGcovRT never holds more than its captures *)
(* have read, however the captures of the instances overlap.               *)
THEOREM CoverageSound == Spec => []NoInvention
BY TelemetryInvariance, PTL DEF TelemetryInv

(* The unlocked check-then-act of log_event never loses a name for good.   *)
THEOREM EventsComplete == Spec => []EventsSeen
<1>1. TelemetryInv => EventsSeen
  BY DEF TelemetryInv, Typed, SeenInv, EventsSeen, Quiet
<1> QED
  BY <1>1, TelemetryInvariance, PTL

-----------------------------------------------------------------------------
(* The counts of events.  Every read of a count adds a thread that is about *)
(* to write, and every write turns one into an event that was logged: the  *)
(* room that a count may fill never shrinks.                               *)

Room(n)   == logged[n] + Cardinality(Writing(n))
CountInv ==
  /\ EventsNotOver
  /\ \A c \in Conns : tpc[c] = "write" => old[c] + 1 <= Room(cause[c])

LEMMA WritingFinite ==
  ASSUME NEW n
  PROVE  IsFiniteSet(Writing(n)) /\ Cardinality(Writing(n)) \in Nat
<1>1. Writing(n) \subseteq Conns
  BY DEF Writing
<1> QED
  BY <1>1, ConnsAssumption, FS_Subset, FS_CardinalityType

LEMMA RoomType ==
  ASSUME Typed, NEW n \in Names
  PROVE  Room(n) \in Nat
BY WritingFinite DEF Typed, Room

LEMMA NextRoom ==
  ASSUME Typed, NEW c \in Conns, NEW n \in Names, Process(c) \/ HandleEvent(c)
  PROVE  Room(n)' >= Room(n) /\ Room(n)' \in Nat
<1>0. Room(n) \in Nat /\ logged[n] \in Nat
  BY RoomType DEF Typed
<1>1. ASSUME Writing(n)' = Writing(n), UNCHANGED logged
      PROVE  Room(n)' >= Room(n) /\ Room(n)' \in Nat
  BY <1>0, <1>1 DEF Room
<1>2. CASE Process(c)
  <2>1. Writing(n)' = Writing(n)
    BY <1>2 DEF Process, Execute, Stop, Exit, Goto, Writing, locals, Typed
  <2> QED
    BY <1>1, <1>2, <2>1 DEF Process, Execute, Stop, Exit, history
<1>3. CASE Capture(c) \/ Add(c) \/ Store(c) \/ LogTest(c) \/ LogZero(c)
  <2>1. Writing(n)' = Writing(n)
    BY <1>3 DEF Capture, Add, Store, LogTest, LogZero, Goto, Writing, Typed
  <2> QED
    BY <1>1, <1>3, <2>1 DEF Capture, Add, Store, LogTest, LogZero, history
<1>4. CASE LogRead(c)
  <2>1. CASE cause[c] = n
    <3>1. Writing(n)' = Writing(n) \cup {c} /\ c \notin Writing(n)
      BY <1>4, <2>1 DEF LogRead, Goto, Writing, Typed
    <3>2. Cardinality(Writing(n)') = Cardinality(Writing(n)) + 1
      BY <3>1, WritingFinite, FS_AddElement
    <3> QED
      BY <1>0, <1>4, <3>2, WritingFinite DEF LogRead, history, Room
  <2>2. CASE cause[c] # n
    <3>1. Writing(n)' = Writing(n)
      BY <1>4, <2>2 DEF LogRead, Goto, Writing, Typed
    <3> QED
      BY <1>1, <1>4, <3>1 DEF LogRead, history
  <2> QED
    BY <2>1, <2>2
<1>5. CASE LogWrite(c)
  <2>1. CASE cause[c] = n
    <3>1. Writing(n)' = Writing(n) \ {c} /\ c \in Writing(n)
      BY <1>5, <2>1 DEF LogWrite, Resume, Goto, Writing, Typed
    <3>2. Cardinality(Writing(n)') = Cardinality(Writing(n)) - 1
      BY <3>1, WritingFinite, FS_RemoveElement
    <3>3. logged'[n] = logged[n] + 1
      BY <1>5, <2>1 DEF LogWrite, Resume, Typed
    <3> QED
      BY <1>0, <3>2, <3>3, WritingFinite DEF Room
  <2>2. CASE cause[c] # n
    <3>1. Writing(n)' = Writing(n) /\ logged'[n] = logged[n]
      BY <1>5, <2>2 DEF LogWrite, Resume, Goto, Writing, Typed
    <3> QED
      BY <1>0, <3>1 DEF Room
  <2> QED
    BY <2>1, <2>2
<1> QED
  BY <1>2, <1>3, <1>4, <1>5 DEF HandleEvent

LEMMA NextCount ==
  ASSUME Typed, CountInv, NEW c \in Conns, Process(c) \/ HandleEvent(c)
  PROVE  CountInv'
<1>0. /\ \A n \in Names : Room(n) \in Nat /\ Room(n)' \in Nat /\ Room(n)' >= Room(n)
      /\ \A n \in Names : events[n].count \in Nat /\ events[n].count <= Room(n)
      /\ \A d \in Conns : old[d] \in Nat
      /\ \A d \in Conns : tpc[d] = "write" => cause[d] \in Names /\ old[d] + 1 <= Room(cause[d])
  <2>1. \A n \in Names : Room(n) \in Nat /\ Room(n)' \in Nat /\ Room(n)' >= Room(n)
    BY RoomType, NextRoom
  <2> QED
    BY <2>1 DEF CountInv, EventsNotOver, Room, Typed, Counts
<1> SUFFICES
      /\ \A n \in Names : events'[n].count <= Room(n)'
      /\ \A d \in Conns : tpc'[d] = "write" => old'[d] + 1 <= Room(cause[d])'
  BY DEF CountInv, EventsNotOver, Room
<1>1. CASE ~LogZero(c) /\ ~LogRead(c) /\ ~LogWrite(c)
  <2>1. UNCHANGED <<events, old>> /\ tpc'[c] # "write" /\ cause' \in [Conns -> Causes]
        /\ \A d \in Conns \ {c} : tpc'[d] = tpc[d] /\ cause'[d] = cause[d]
    BY <1>1, NextTyped DEF Process, HandleEvent, Execute, Stop, Exit, Capture, Add, Store,
      LogTest, Goto, Typed, shared, locals
  <2>2. ASSUME NEW d \in Conns, tpc'[d] = "write"
        PROVE  old'[d] + 1 <= Room(cause[d])'
    BY <1>0, <2>1, <2>2
  <2> QED
    BY <1>0, <2>1, <2>2
<1>2. CASE LogZero(c)
  <2>1. /\ \A n \in Names : events'[n].count = 0 \/ events'[n] = events[n]
        /\ old' = old /\ cause' = cause
        /\ \A d \in Conns : tpc'[d] = "write" => tpc[d] = "write"
    BY <1>2 DEF LogZero, Goto, Typed
  <2> QED
    BY <1>0, <2>1
<1>3. CASE LogRead(c)
  <2>0. cause[c] \in Names /\ c \notin Writing(cause[c])
    BY <1>3 DEF LogRead, Goto, Typed, Writing
  <2>1. /\ events' = events /\ cause' = cause /\ old'[c] = events[cause[c]].count
        /\ \A d \in Conns \ {c} : old'[d] = old[d] /\ tpc'[d] = tpc[d]
    BY <1>3 DEF LogRead, Goto, Typed, shared
  <2>2. Room(cause[c])' = Room(cause[c]) + 1
    <3>1. Writing(cause[c])' = Writing(cause[c]) \cup {c}
      BY <1>3, <2>0 DEF LogRead, Goto, Writing, Typed
    <3>2. Cardinality(Writing(cause[c])') = Cardinality(Writing(cause[c])) + 1
      BY <3>1, <2>0, WritingFinite, FS_AddElement
    <3> QED
      BY <2>0, <2>1, <3>2, <1>3, WritingFinite DEF LogRead, history, Room, Typed
  <2>3. ASSUME NEW d \in Conns, tpc'[d] = "write"
        PROVE  old'[d] + 1 <= Room(cause[d])'
    BY <1>0, <2>0, <2>1, <2>2, <2>3
  <2> QED
    BY <1>0, <2>1, <2>3
<1>4. CASE LogWrite(c)
  <2>0. tpc[c] = "write" /\ cause[c] \in Names
    BY <1>4 DEF LogWrite, Resume, Goto, Typed
  <2>1. /\ events'[cause[c]].count = old[c] + 1
        /\ \A n \in Names \ {cause[c]} : events'[n] = events[n]
        /\ old' = old /\ cause' = cause /\ tpc'[c] # "write"
        /\ \A d \in Conns \ {c} : tpc'[d] = tpc[d]
    BY <1>4, <2>0 DEF LogWrite, Resume, Goto, Typed
  <2>2. ASSUME NEW n \in Names
        PROVE  events'[n].count <= Room(n)'
    BY <1>0, <2>0, <2>1
  <2>3. ASSUME NEW d \in Conns, tpc'[d] = "write"
        PROVE  old'[d] + 1 <= Room(cause[d])'
    BY <1>0, <2>0, <2>1, <2>3
  <2> QED
    BY <2>2, <2>3
<1> QED
  BY <1>1, <1>2, <1>3, <1>4

(* However the unlocked increments of log_event overlap, no count exceeds  *)
(* the number of such events.                                              *)
THEOREM EventsSound == Spec => []EventsNotOver
<1>1. Init => CountInv
  <2> SUFFICES ASSUME Init PROVE CountInv
    OBVIOUS
  <2>1. \A n \in Names : Writing(n) = {} /\ logged[n] = 0 /\ events[n].count = 0
    BY DEF Init, Writing, None
  <2> QED
    BY <2>1, FS_EmptySet DEF Init, CountInv, EventsNotOver
<1>2. TelemetryInv /\ CountInv /\ [Next]_vars => CountInv'
  <2> SUFFICES ASSUME TelemetryInv, CountInv, [Next]_vars
               PROVE  CountInv'
    OBVIOUS
  <2>1. ASSUME NEW c \in Conns, Process(c) \/ HandleEvent(c)
        PROVE  CountInv'
    BY <2>1, NextCount DEF TelemetryInv
  <2>2. CASE UNCHANGED vars
    BY <2>2 DEF CountInv, EventsNotOver, Room, Writing, vars, shared, locals, history
  <2> QED
    BY <2>1, <2>2 DEF Next
<1>3. CountInv => EventsNotOver
  BY DEF CountInv
<1> QED
  BY <1>1, <1>2, <1>3, TelemetryInvariance, PTL DEF Spec

-----------------------------------------------------------------------------
(* What is exact as long as no two threads update at once.  A thread that  *)
(* is in the middle of an update is then the only one, and what it has     *)
(* read is still there when it writes.                                     *)

UnsetIsZero ==
  /\ ~coverage.set => coverage.count = 0
  /\ \A n \in Names : ~events[n].set => events[n].count = 0

SumApart ==
  "coverage" \notin overlap =>
    /\ coverage.count = captured
    /\ \A c \in Conns : tpc[c] = "store" => newcov[c] = counter[c] + captured
    /\ \A c, d \in Summing : c = d

CountApart ==
  \A n \in Names \ overlap :
    /\ events[n].count = logged[n]
    /\ \A c, d \in Counting(n) : c = d
    /\ \A c \in Counting(n) : /\ tpc[c] = "zero" => ~events[n].set
                              /\ tpc[c] = "write" => old[c] = events[n].count

ApartInv == UnsetIsZero /\ SumApart /\ CountApart

LEMMA InitApart == Init => ApartInv
BY DEF Init, ApartInv, UnsetIsZero, SumApart, CountApart, Summing, Counting,
  None, Names, Causes

LEMMA OverlapGrows ==
  ASSUME NEW c \in Conns, Process(c) \/ HandleEvent(c)
  PROVE  overlap \subseteq overlap'
BY DEF Process, HandleEvent, Execute, Stop, Exit, Capture, Add, Store, LogTest, LogZero,
  LogRead, LogWrite, Resume, Begins, history

LEMMA NextUnset ==
  ASSUME Typed, UnsetIsZero, NEW c \in Conns, Process(c) \/ HandleEvent(c)
  PROVE  UnsetIsZero'
<1> USE DEF Typed, UnsetIsZero, Counts
<1>1. CASE Process(c) \/ Capture(c) \/ Add(c) \/ LogTest(c) \/ LogRead(c)
  BY <1>1 DEF Process, Execute, Stop, Exit, Capture, Add, LogTest, LogRead, shared
<1>2. CASE Store(c)
  BY <1>2 DEF Store
<1>3. CASE LogZero(c)
  BY <1>3 DEF LogZero
<1>4. CASE LogWrite(c)
  BY <1>4 DEF LogWrite, Resume
<1> QED
  BY <1>1, <1>2, <1>3, <1>4 DEF HandleEvent

LEMMA NextSumApart ==
  ASSUME Typed, SumInv, UnsetIsZero, SumApart, NEW c \in Conns, Process(c) \/ HandleEvent(c)
  PROVE  SumApart'
<1> SUFFICES ASSUME "coverage" \notin overlap'
             PROVE  /\ coverage'.count = captured'
                    /\ \A d \in Conns : tpc'[d] = "store" => newcov'[d] = counter'[d] + captured'
                    /\ \A d, e \in Summing' : d = e
  BY DEF SumApart
<1>0. /\ coverage.count = captured
      /\ \A d \in Conns : tpc[d] = "store" => newcov[d] = counter[d] + captured
      /\ \A d, e \in Summing : d = e
  BY OverlapGrows DEF SumApart
<1> USE DEF Typed, Counts, Goto, Summing, shared, locals, history
<1>1. CASE Execute(c)
  BY <1>0, <1>1 DEF Execute
<1>2. CASE Stop(c) \/ Exit(c)
  BY <1>0, <1>2 DEF Stop, Exit
<1>3. CASE Capture(c)
  BY <1>0, <1>3 DEF Capture
<1>4. CASE Add(c)
  <2>1. Summing = {} /\ "coverage" \notin overlap
    BY <1>4 DEF Add, Begins
  <2>2. newcov'[c] = counter[c] + captured
    BY <1>0, <1>4 DEF Add, SumInv, UnsetIsZero
  <2> QED
    BY <1>0, <1>4, <2>1, <2>2 DEF Add
<1>5. CASE Store(c)
  <2>1. newcov[c] = counter[c] + captured /\ \A d \in Conns : tpc[d] = "store" => d = c
    BY <1>0, <1>5 DEF Store
  <2> QED
    BY <1>0, <1>5, <2>1 DEF Store
<1>6. CASE LogTest(c) \/ LogZero(c) \/ LogRead(c)
  BY <1>0, <1>6 DEF LogTest, LogZero, LogRead
<1>7. CASE LogWrite(c)
  BY <1>0, <1>7 DEF LogWrite, Resume
<1> QED
  BY <1>1, <1>2, <1>3, <1>4, <1>5, <1>6, <1>7 DEF Process, HandleEvent

LEMMA NextCountApart ==
  ASSUME Typed, UnsetIsZero, CountApart, NEW c \in Conns, Process(c) \/ HandleEvent(c)
  PROVE  CountApart'
<1> SUFFICES ASSUME NEW n \in Names, n \notin overlap'
             PROVE  /\ events'[n].count = logged'[n]
                    /\ \A d, e \in Counting(n)' : d = e
                    /\ \A d \in Counting(n)' : /\ tpc'[d] = "zero" => ~events'[n].set
                                               /\ tpc'[d] = "write" => old'[d] = events'[n].count
  BY DEF CountApart
<1>0. /\ events[n].count = logged[n]
      /\ \A d, e \in Counting(n) : d = e
      /\ \A d \in Counting(n) : /\ tpc[d] = "zero" => ~events[n].set
                                /\ tpc[d] = "write" => old[d] = events[n].count
  BY OverlapGrows DEF CountApart
<1> USE DEF Typed, Counts, Goto, Counting, shared, locals, history
<1>1. CASE Execute(c) \/ Capture(c) \/ Add(c) \/ Store(c)
  BY <1>0, <1>1 DEF Execute, Capture, Add, Store
<1>2. CASE Stop(c) \/ Exit(c)
  BY <1>0, <1>2 DEF Stop, Exit
<1>3. CASE LogTest(c)
  <2>1. cause[c] = n => Counting(n) = {}
    BY <1>3 DEF LogTest, Begins
  <2> QED
    BY <1>0, <1>3, <2>1 DEF LogTest
<1>4. CASE LogZero(c)
  <2>1. cause[c] = n => logged[n] = 0 /\ \A d \in Counting(n) : d = c
    BY <1>0, <1>4 DEF LogZero, UnsetIsZero
  <2> QED
    BY <1>0, <1>4, <2>1 DEF LogZero
<1>5. CASE LogRead(c)
  BY <1>0, <1>5 DEF LogRead
<1>6. CASE LogWrite(c)
  <2>1. CASE cause[c] = n
    <3>1. old[c] = logged[n] /\ \A d \in Counting(n) : d = c
      BY <1>0, <1>6, <2>1 DEF LogWrite, Resume
    <3> QED
      BY <1>0, <1>6, <2>1, <3>1 DEF LogWrite, Resume
  <2>2. CASE cause[c] # n
    BY <1>0, <1>6, <2>2 DEF LogWrite, Resume
  <2> QED
    BY <2>1, <2>2
<1> QED
  BY <1>1, <1>2, <1>3, <1>4, <1>5, <1>6 DEF Process, HandleEvent

LEMMA ApartInvariance == Spec => []ApartInv
<1>1. TelemetryInv /\ ApartInv /\ [Next]_vars => ApartInv'
  <2> SUFFICES ASSUME TelemetryInv, ApartInv, [Next]_vars
               PROVE  ApartInv'
    OBVIOUS
  <2>1. ASSUME NEW c \in Conns, Process(c) \/ HandleEvent(c)
        PROVE  ApartInv'
    BY <2>1, NextUnset, NextSumApart, NextCountApart DEF TelemetryInv, ApartInv
  <2>2. CASE UNCHANGED vars
    BY <2>2 DEF ApartInv, UnsetIsZero, SumApart, CountApart, Summing, Counting, vars,
      shared, locals, history
  <2> QED
    BY <2>1, <2>2 DEF Next
<1> QED
  BY <1>1, InitApart, TelemetryInvariance, PTL DEF Spec

(* No execution that a capture has read is missing from the accumulated    *)
(* coverage, as long as no two threads add to it at once (PyGcovRT.capture *)
(* and Coverage.__add__ hold no lock).                                     *)
THEOREM CoverageExact == Spec => []AggregatesApart
<1>1. ApartInv => AggregatesApart
  BY DEF ApartInv, SumApart, AggregatesApart
<1> QED
  BY <1>1, ApartInvariance, PTL

(* The unlocked count of log_event is exact for every name that no two     *)
(* threads log at once.                                                    *)
THEOREM EventsExact == Spec => []EventsExactApart
<1>1. ApartInv => EventsExactApart
  BY DEF ApartInv, CountApart, EventsExactApart
<1> QED
  BY <1>1, ApartInvariance, PTL

-----------------------------------------------------------------------------
(* What a process has executed is read once for its end, and once for each *)
(* signal that it survives.  Due is what each process would add if it were *)
(* captured now for the first time since it began or last went on: a       *)
(* capture pays it, and only a signal that the process survives makes it   *)
(* due again.                                                              *)
Due == [c \in Conns |->
          IF tpc[c] \in {"run", "capture", "add", "store"} THEN counter[c] ELSE 0]

Survived == logged["SIGUSR1"]

DueInv ==
  /\ executed \in Nat
  /\ \A c \in Conns : counter[c] <= executed
  /\ captured + SumOf(Due, Conns) <= executed * (1 + Survived)

LEMMA DueType ==
  ASSUME Typed
  PROVE  /\ \A c \in Conns : Due[c] \in Nat /\ Due[c] \in Int
         /\ SumOf(Due, Conns) \in Nat
         /\ captured \in Nat /\ Survived \in Nat
<1>1. \A c \in Conns : Due[c] \in Nat /\ Due[c] \in Int
  BY DEF Typed, Due
<1>2. captured \in Nat /\ Survived \in Nat
  BY DEF Typed, Survived, Names, Causes
<1> QED
  BY <1>1, <1>2, SumNat, ConnsAssumption

LEMMA InitDue == Init => DueInv
<1> SUFFICES ASSUME Init PROVE DueInv
  OBVIOUS
<1>1. \A c \in Conns : Due[c] = 0
  BY DEF Init, Due
<1>2. SumOf(Due, Conns) = Cardinality(Conns) * 0
  BY <1>1, SumConstant, ConnsAssumption
<1>3. Cardinality(Conns) \in Nat
  BY FS_CardinalityType, ConnsAssumption
<1>4. SumOf(Due, Conns) = 0
  BY <1>2, <1>3
<1>5. executed = 0 /\ captured = 0 /\ Survived = 0 /\ \A c \in Conns : counter[c] = 0
  BY DEF Init, Survived, Names, Causes
<1> QED
  BY <1>4, <1>5 DEF DueInv

(* A step of the thread of c changes only what c owes. *)
LEMMA DueChange ==
  ASSUME Typed, Typed', NEW c \in Conns,
         \A d \in Conns : d # c => tpc'[d] = tpc[d] /\ counter'[d] = counter[d]
  PROVE  SumOf(Due', Conns) = SumOf(Due, Conns) - Due[c] + Due'[c]
<1>1. \A d \in Conns : Due[d] \in Int /\ Due'[d] \in Int
  BY DEF Typed, Due
<1>2. \A d \in Conns : d # c => Due[d] = Due'[d]
  BY DEF Due
<1> QED
  BY <1>1, <1>2, SumChange, ConnsAssumption

LEMMA NextDue ==
  ASSUME Typed, DueInv, Typed', NEW c \in Conns, Process(c) \/ HandleEvent(c)
  PROVE  DueInv'
<1> DEFINE total == SumOf(Due, Conns)
           after == SumOf(Due', Conns)
<1>1. total \in Nat /\ Due[c] \in Nat /\ captured \in Nat /\ Survived \in Nat
  BY DueType
<1>2. after \in Nat /\ Due'[c] \in Nat /\ captured' \in Nat /\ Survived' \in Nat
  <2>1. \A d \in Conns : Due'[d] \in Nat /\ Due'[d] \in Int
    BY DEF Typed, Due
  <2>2. SumOf(Due', Conns) \in Nat
    BY <2>1, SumNat, ConnsAssumption
  <2>3. captured' \in Nat /\ Survived' \in Nat
    BY DEF Typed, Survived, Names, Causes
  <2> QED
    BY <2>1, <2>2, <2>3
<1>3. \A d \in Conns : d # c => tpc'[d] = tpc[d] /\ counter'[d] = counter[d]
  BY DEF Process, HandleEvent, Typed, Goto, locals, Execute, Stop, Exit, Capture,
    Add, Store, LogTest, LogZero, LogRead, LogWrite, Resume
<1>4. after = total - Due[c] + Due'[c]
  BY <1>3, DueChange
<1>5. executed \in Nat /\ counter[c] \in Nat /\ counter[c] <= executed
  BY DEF DueInv, Typed
<1>6. captured + total <= executed * (1 + Survived)
  BY DEF DueInv
<1> HIDE DEF total, after
<1>7. CASE Execute(c)
  <2>1. /\ executed' = executed + 1
        /\ captured' = captured
        /\ Survived' = Survived
        /\ Due'[c] = Due[c] + 1
        /\ \A d \in Conns : counter'[d] <= executed'
    BY <1>7 DEF Execute, shared, locals, Survived, Due, Typed, DueInv
  <2>2. (executed + 1) * (1 + Survived) = executed * (1 + Survived) + (1 + Survived)
    BY <1>1, <1>5, OneMore
  <2>3. executed * (1 + Survived) \in Int
    BY <1>1, <1>5
  <2>4. captured' + after <= executed' * (1 + Survived')
    BY <2>1, <2>2, <2>3, <1>1, <1>2, <1>4, <1>6
  <2> QED
    BY <2>1, <2>4, <1>5 DEF DueInv, after
<1>8. CASE Stop(c) \/ Exit(c) \/ Capture(c) \/ Add(c) \/ LogTest(c) \/ LogZero(c) \/ LogRead(c)
  <2>1. /\ UNCHANGED <<executed, captured, counter>>
        /\ Survived' = Survived
        /\ Due'[c] <= Due[c]
    BY <1>8 DEF Stop, Exit, Capture, Add, LogTest, LogZero, LogRead, Goto, shared,
      locals, history, Survived, Due, Typed
  <2>2. executed * (1 + Survived) \in Int
    BY <1>1, <1>5
  <2>3. captured' + after <= executed' * (1 + Survived')
    BY <2>1, <2>2, <1>1, <1>2, <1>4, <1>6
  <2> QED
    BY <2>1, <2>3 DEF DueInv, after
<1>9. CASE Store(c)
  <2>1. /\ UNCHANGED <<executed, counter>>
        /\ Survived' = Survived
        /\ captured' = captured + Due[c]
    BY <1>9 DEF Store, Goto, Survived, Due, Typed
  <2>2. Due'[c] = 0
    BY <1>9 DEF Store, Goto, Due, Typed
  <2>3. executed * (1 + Survived) \in Int
    BY <1>1, <1>5
  <2>4. captured' + after <= executed' * (1 + Survived')
    BY <2>1, <2>2, <2>3, <1>1, <1>2, <1>4, <1>6
  <2> QED
    BY <2>1, <2>4 DEF DueInv, after
<1>10. CASE LogWrite(c)
  <2>1. /\ executed' = executed
        /\ captured' = captured
        /\ Due[c] = 0
        /\ \A d \in Conns : counter'[d] <= counter[d]
    BY <1>10 DEF LogWrite, Resume, Goto, Due, Typed
  <2>2. executed * (1 + Survived) \in Int /\ executed * Survived \in Int
    BY <1>1, <1>5
  <2>3. captured' + after <= executed' * (1 + Survived')
    <3>1. CASE cause[c] = "SIGUSR1"
      <4>1. Survived' = Survived + 1 /\ Due'[c] = counter[c]
        BY <1>10, <3>1 DEF LogWrite, Resume, Goto, Survived, Due, Typed, Names, Causes
      <4>2. \A e, n \in Int : e * (1 + (n + 1)) = e * (1 + n) + e
        OBVIOUS
      <4>3. executed * (1 + (Survived + 1)) = executed * (1 + Survived) + executed
        BY <4>2, <1>1, <1>5
      <4> QED
        BY <4>1, <4>3, <2>1, <2>2, <1>1, <1>2, <1>4, <1>5, <1>6
    <3>2. CASE cause[c] # "SIGUSR1"
      <4>1. Survived' = Survived /\ Due'[c] = 0
        BY <1>10, <3>2 DEF LogWrite, Resume, Goto, Survived, Due, Typed, Names, Causes
      <4> QED
        BY <4>1, <2>1, <2>2, <1>1, <1>2, <1>4, <1>6
    <3> QED
      BY <3>1, <3>2
  <2>4. \A d \in Conns : counter'[d] <= executed'
    BY <2>1 DEF DueInv, Typed
  <2> QED
    BY <2>1, <2>3, <2>4, <1>5 DEF DueInv, after
<1> QED
  BY <1>7, <1>8, <1>9, <1>10 DEF Process, HandleEvent

(* A line is counted at most once per execution, and once more for each    *)
(* signal that was logged and survived.                                    *)
THEOREM CoverageBounded == Spec => []CountedAgainIfSurvived
<1>1. TelemetryInv /\ TelemetryInv' /\ DueInv /\ [Next]_vars => DueInv'
  <2> SUFFICES ASSUME TelemetryInv, TelemetryInv', DueInv, [Next]_vars
               PROVE  DueInv'
    OBVIOUS
  <2>1. ASSUME NEW c \in Conns, Process(c) \/ HandleEvent(c)
        PROVE  DueInv'
    BY <2>1, NextDue DEF TelemetryInv
  <2>2. CASE UNCHANGED vars
    <3>1. Due' = Due /\ Survived' = Survived
      BY <2>2 DEF Due, Survived, vars, locals, history
    <3> QED
      BY <2>2, <3>1 DEF DueInv, vars, history
  <2> QED
    BY <2>1, <2>2 DEF Next
<1>2. TelemetryInv /\ DueInv => CountedAgainIfSurvived
  <2> SUFFICES ASSUME TelemetryInv, DueInv PROVE CountedAgainIfSurvived
    OBVIOUS
  <2>1. SumOf(Due, Conns) \in Nat /\ captured \in Nat /\ Survived \in Nat
    BY DueType DEF TelemetryInv
  <2>2. coverage.count \in Nat /\ coverage.count <= captured
    BY DEF TelemetryInv, Typed, Counts, NoInvention
  <2>3. captured + SumOf(Due, Conns) <= executed * (1 + Survived)
    BY DEF DueInv
  <2>4. executed * (1 + Survived) \in Int
    BY <2>1 DEF DueInv
  <2>5. coverage.count <= executed * (1 + Survived)
    BY <2>1, <2>2, <2>3, <2>4
  <2> QED
    BY <2>5 DEF CountedAgainIfSurvived, Survived
<1> QED
  BY <1>1, <1>2, InitDue, TelemetryInvariance, PTL DEF Spec
=============================================================================
