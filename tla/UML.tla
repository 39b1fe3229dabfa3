--------------------------------- MODULE UML ---------------------------------
(***************************************************************************)
(* Coverage of the wifi_relay service: UMLInstance and UMLCoverage of      *)
(* services/wifi_relay/__init__.py.  The service is a user mode kernel per *)
(* client.  Its init script writes a coverage report, lcov.cov, again and  *)
(* again and touches lcov.lock when it is done; a thread per client        *)
(* watches lcov.lock and parses the report into the session's coverage.    *)
(* All clients of a session share the two files and the coverage.          *)
(*                                                                         *)
(* A line of the report is one step of the parser, the line that names a   *)
(* file two (it is looked up, then taken or made).  The report is read     *)
(* when it is opened.  The kernels run services/wifi_relay/init.           *)
(***************************************************************************)
EXTENDS Integers, FiniteSets, Sequences, SequencesExt, FiniteSetsExt

CONSTANTS
  Conns,       \* clients, each with its thread and its kernel
  Files, Lines, \* source files, and line numbers in them
  Reports,     \* bound: the reports that a kernel may write
  MaxReports   \* bound: reports that are written in all

(* A report is a sequence of these: SF:name, DA:line,count, end_of_record, *)
(* and Cut, the last line of a report of which only a part is written.     *)
SF(f)     == [kind |-> "SF", file |-> f]
DA(n, c)  == [kind |-> "DA", line |-> n, count |-> c]
EndRecord == [kind |-> "end_of_record"]
Cut       == [kind |-> "cut"]

Line ==
  [kind : {"SF"}, file : Files]
    \cup [kind : {"DA"}, line : Lines, count : Nat] \cup [kind : {"end_of_record"}]

(* A report that is done has its lines in records that begin with a name.  *)
ASSUME UMLAssumption ==
  /\ MaxReports \in Nat
  /\ Reports \subseteq Seq(Line)
  /\ \A r \in Reports : r # <<>> /\ \A i \in DOMAIN r :
       i = 1 \/ r[i - 1].kind = "end_of_record" => r[i].kind = "SF"

(* An entry of coverage['files']: counts of the lines that it has. *)
Entry  == [lines : SUBSET Lines, count : [Lines -> Nat], total : Nat, executed : Nat]
Fresh  == [lines |-> {}, count |-> [n \in Lines |-> 0], total |-> 0, executed |-> 0]

VARIABLES
  coverage,  \* UMLCoverage.coverage['files']: per name, the entry
  known,     \* the names that are keys of it
  lcov,      \* lcov.cov: does it exist, and its lines
  kernel,    \* per client, what its kernel does
  pc,        \* per thread, its next step
  pending,   \* per thread, the kernels whose events inotify holds for it, "lock": a create
  cause,     \* per thread, the event it handles
  text,      \* per thread, the lines it has still to parse
  curfile,   \* per thread, the entry it fills; detached: one that is not in coverage any more
  opened,    \* history: per thread, the whole report that it parses
  apart,     \* history: the thread whose update is the last, if no other overlapped with it
  written    \* number of reports written

files   == <<coverage, known>>
threads == <<pc, pending, cause, text, curfile, opened, apart>>
vars    == <<files, lcov, kernel, written, threads>>

NoFile   == [is |-> "none"]
Detached == [is |-> "detached"]
Filling(f) == [is |-> "entry", file |-> f]

Init ==
  /\ coverage = [f \in Files |-> Fresh] /\ known = {}
  /\ lcov = [exists |-> FALSE, lines |-> <<>>]
  /\ kernel  = [c \in Conns |-> "off"]
  /\ pc      = [c \in Conns |-> "none"]
  /\ pending = [c \in Conns |-> <<>>]
  /\ cause   = [c \in Conns |-> "lock"]
  /\ text    = [c \in Conns |-> <<>>]
  /\ curfile = [c \in Conns |-> NoFile]
  /\ opened  = [c \in Conns |-> <<>>]
  /\ apart   = {}
  /\ written = 0

Goto(c, from, to) == pc[c] = from /\ pc' = [pc EXCEPT ![c] = to]

(* Events are for the threads that wait for one. *)
Watchers_Waiting == {c \in Conns : pc[c] = "watch"}

(* lcov.lock is closed after writing: whoever watches it gets an event. *)
Watchers == {c \in Conns : pc[c] \notin {"none", "lock", "add_watch", "dead"}}
Closed(by) == pending' = [c \in Conns |-> IF c \in Watchers THEN Append(pending[c], by) ELSE pending[c]]

-----------------------------------------------------------------------------
(* The kernel of a client.  Its script boots, and sleeps five seconds      *)
(* before a report: assumed to be longer than its thread takes to watch,   *)
(* and than the threads take for the report before.                        *)

Begin(c) ==
  /\ kernel[c] = "sleep" /\ written < MaxReports /\ pc[c] \notin {"lock", "add_watch"}
  /\ \A t \in Watchers : c \notin ToSet(pending[t]) /\ (pc[t] # "watch" => cause[t] # c)
  /\ kernel' = [kernel EXCEPT ![c] = "lcov"]
  /\ lcov' = [exists |-> TRUE, lines |-> <<>>]
  /\ written' = written + 1
  /\ UNCHANGED <<files, threads>>

(* The file as somebody might see it who looks before lcov is done: one    *)
(* such part of each report.                                               *)
WritePart(c) ==
  /\ kernel[c] = "lcov" /\ lcov.lines = <<>>
  /\ \E r \in Reports : \E n \in DOMAIN r : \E tail \in {<<>>, <<Cut>>} :
       lcov' = [exists |-> TRUE, lines |-> SubSeq(r, 1, n - 1) \o tail]
  /\ UNCHANGED <<files, kernel, written, threads>>

Finish(c) ==
  /\ kernel[c] = "lcov"
  /\ kernel' = [kernel EXCEPT ![c] = "touch"]
  /\ \E r \in Reports : lcov' = [exists |-> TRUE, lines |-> r]
  /\ UNCHANGED <<files, written, threads>>

Touch(c) ==
  /\ kernel[c] = "touch"
  /\ kernel' = [kernel EXCEPT ![c] = "sleep"]
  /\ Closed(c)
  /\ UNCHANGED <<files, lcov, written, pc, cause, text, curfile, opened, apart>>

-----------------------------------------------------------------------------
(* UMLInstance.run *)

Spawn(c) ==
  /\ Goto(c, "none", "lock")
  /\ kernel' = [kernel EXCEPT ![c] = "sleep"]
  /\ UNCHANGED <<files, lcov, written, pending, cause, text, curfile, opened, apart>>

(* The watch is added first: the thread is told of its own lock file. *)
CreateLock_Watched(c) ==
  /\ Goto(c, "lock", "add_watch")
  /\ pending' = [t \in Conns |-> IF t \in Watchers \cup {c} THEN Append(pending[t], "lock") ELSE pending[t]]
  /\ UNCHANGED <<files, lcov, kernel, written, cause, text, curfile, opened, apart>>

(* with open(lcovfile + "lock", "w") *)
CreateLock(c) ==
  /\ Goto(c, "lock", "add_watch")
  /\ Closed("lock")
  /\ UNCHANGED <<files, lcov, kernel, written, cause, text, curfile, opened, apart>>

AddWatch(c) ==
  /\ Goto(c, "add_watch", "watch")
  /\ UNCHANGED <<files, lcov, kernel, written, pending, cause, text, curfile, opened, apart>>

Event(c) ==
  /\ pending[c] # <<>>
  /\ Goto(c, "watch", "reset")
  /\ cause'   = [cause EXCEPT ![c] = Head(pending[c])]
  /\ pending' = [pending EXCEPT ![c] = Tail(@)]
  /\ UNCHANGED <<files, lcov, kernel, written, text, curfile, opened, apart>>

-----------------------------------------------------------------------------
(* UMLCoverage.update *)

(* Threads that have begun to update the coverage. *)
Updating == {c \in Conns : pc[c] \in {"open", "parse", "take", "make", "notify"}}
Begins(c) == apart' = IF Updating = {} THEN {c} ELSE {}

(* self.coverage = {'files':{}}: the entries of before are in no coverage. *)
Reset(c) ==
  /\ Goto(c, "reset", "open")
  /\ coverage' = [f \in Files |-> Fresh] /\ known' = {}
  /\ curfile' = [t \in Conns |-> IF t = c THEN NoFile ELSE
                                 IF curfile[t] = NoFile THEN NoFile ELSE Detached]
  /\ Begins(c)
  /\ UNCHANGED <<lcov, kernel, written, pending, cause, text, opened>>

(* The thread ends when there is no report yet. *)
Open(c) ==
  /\ Goto(c, "open", IF lcov.exists THEN "parse" ELSE "dead")
  /\ text'   = [text EXCEPT ![c] = lcov.lines]
  /\ opened' = [opened EXCEPT ![c] = lcov.lines]
  /\ UNCHANGED <<files, lcov, kernel, written, pending, cause, curfile, apart>>

NextLine(c, kind) == pc[c] = "parse" /\ text[c] # <<>> /\ Head(text[c]).kind = kind
Consume(c) == text' = [text EXCEPT ![c] = Tail(@)]

Filled_Anew(e, n, k) ==
  [lines    |-> e.lines \cup {n},
   count    |-> [e.count EXCEPT ![n] = k],
   total    |-> e.total + 1,
   executed |-> e.executed + (IF k > 0 THEN 1 ELSE 0)]

(* What a line DA:n,k makes of an entry. *)
Filled(e, n, k) ==
  LET new == n \notin e.lines IN
  [lines    |-> e.lines \cup {n},
   count    |-> [e.count EXCEPT ![n] = IF new THEN k ELSE @ + k],
   total    |-> e.total + (IF new THEN 1 ELSE 0),
   executed |-> e.executed + (IF k > 0 /\ (new \/ e.count[n] = 0) THEN 1 ELSE 0)]

Data(c) ==
  /\ NextLine(c, "DA") /\ Consume(c)
  /\ LET d == Head(text[c]) IN
       coverage' = IF curfile[c].is = "entry"
                   THEN [coverage EXCEPT ![curfile[c].file] = Filled(@, d.line, d.count)]
                   ELSE coverage
  /\ UNCHANGED <<known, lcov, kernel, written, pc, pending, cause, curfile, opened, apart>>

EndOfRecord(c) ==
  /\ NextLine(c, "end_of_record") /\ Consume(c)
  /\ curfile' = [curfile EXCEPT ![c] = NoFile]
  /\ UNCHANGED <<files, lcov, kernel, written, pc, pending, cause, opened, apart>>

(* if file_name in self.coverage['files'] *)
SourceTest(c) ==
  /\ NextLine(c, "SF")
  /\ pc' = [pc EXCEPT ![c] = IF Head(text[c]).file \in known THEN "take" ELSE "make"]
  /\ curfile' = [curfile EXCEPT ![c] = NoFile]
  /\ UNCHANGED <<files, lcov, kernel, written, pending, cause, text, opened, apart>>

(* curfile = self.coverage['files'][file_name]: a KeyError ends the thread *)
(* when another has reset the coverage.                                    *)
SourceTake(c) ==
  /\ LET f == Head(text[c]).file IN
     /\ Goto(c, "take", IF f \in known THEN "parse" ELSE "dead")
     /\ curfile' = [curfile EXCEPT ![c] = IF f \in known THEN Filling(f) ELSE NoFile]
  /\ Consume(c)
  /\ UNCHANGED <<files, lcov, kernel, written, pending, cause, opened, apart>>

SourceMake_NotAdded(c) ==
  /\ Goto(c, "make", "parse")
  /\ LET f == Head(text[c]).file IN
     /\ coverage' = [coverage EXCEPT ![f] = Fresh]
     /\ curfile' = [curfile EXCEPT ![c] = Filling(f)]
  /\ Consume(c)
  /\ UNCHANGED <<known, lcov, kernel, written, pending, cause, opened, apart>>

SourceMake(c) ==
  /\ Goto(c, "make", "parse")
  /\ LET f == Head(text[c]).file IN
     /\ coverage' = [coverage EXCEPT ![f] = Fresh]
     /\ known' = known \cup {f}
     /\ curfile' = [t \in Conns |-> IF t = c THEN Filling(f) ELSE
                                    IF curfile[t] = Filling(f) THEN Detached ELSE curfile[t]]
  /\ Consume(c)
  /\ UNCHANGED <<lcov, kernel, written, pending, cause, opened, apart>>

(* [num, count] = line[3:].split(","): too few values end the thread. *)
Malformed(c) ==
  /\ NextLine(c, "cut")
  /\ pc' = [pc EXCEPT ![c] = "dead"]
  /\ UNCHANGED <<files, lcov, kernel, written, pending, cause, text, curfile, opened, apart>>

(* self.notifyChangeListeners() *)
EndOfFile(c) ==
  /\ text[c] = <<>>
  /\ Goto(c, "parse", "notify")
  /\ UNCHANGED <<files, lcov, kernel, written, pending, cause, text, curfile, opened, apart>>

Notify(c) ==
  /\ Goto(c, "notify", "watch")
  /\ UNCHANGED <<files, lcov, kernel, written, pending, cause, text, curfile, opened, apart>>

-----------------------------------------------------------------------------

Kernel(c) == Begin(c) \/ WritePart(c) \/ Finish(c) \/ Touch(c)

Update(c) ==
  \/ Reset(c) \/ Open(c) \/ Data(c) \/ EndOfRecord(c)
  \/ SourceTest(c) \/ SourceTake(c) \/ SourceMake(c) \/ Malformed(c)
  \/ EndOfFile(c) \/ Notify(c)

Thread(c) == CreateLock(c) \/ AddWatch(c) \/ Event(c) \/ Update(c)

Next == \E c \in Conns : Spawn(c) \/ Kernel(c) \/ Thread(c)

Spec == Init /\ [][Next]_vars

-----------------------------------------------------------------------------
(***************************************************************************)
(* Properties                                                              *)
(***************************************************************************)

TypeOK ==
  /\ coverage \in [Files -> Entry] /\ known \subseteq Files
  /\ kernel \in [Conns -> {"off", "sleep", "lcov", "touch"}]
  /\ pc \in [Conns -> {"none", "lock", "add_watch", "watch", "reset", "open", "parse",
                       "take", "make", "notify", "dead"}]
  /\ cause \in [Conns -> Conns \cup {"lock"}]
  /\ curfile \in [Conns -> {NoFile, Detached} \cup {Filling(f) : f \in Files}]
  /\ written \in 0 .. MaxReports
  /\ \A c \in Conns : curfile[c].is = "entry" => curfile[c].file \in known

(* The reference: what a whole report says of a file, each line with the   *)
(* sum of its counts in all the records of that file.                      *)
FileAt(r, i) == r[Max({j \in 1 .. i : r[j].kind = "SF"})].file
About(r, f)  == {i \in DOMAIN r : r[i].kind = "DA" /\ FileAt(r, i) = f}
Named(r)     == {r[i].file : i \in {j \in DOMAIN r : r[j].kind = "SF"}}
Hits(r, f, n) ==
  LET count == [i \in About(r, f) |-> r[i].count]
  IN  MapThenSumSet(LAMBDA i : count[i], {i \in About(r, f) : r[i].line = n})

Expected(r, f) ==
  LET listed == {r[i].line : i \in About(r, f)} IN
  [lines    |-> listed,
   count    |-> [n \in Lines |-> Hits(r, f, n)],
   total    |-> Cardinality(listed),
   executed |-> Cardinality({n \in listed : Hits(r, f, n) > 0})]

ShowsReport(r) == known = Named(r) /\ \A f \in known : coverage[f] = Expected(r, f)

(* What the listeners are told of is what the report says, every file and  *)
(* line of it, and nothing of an earlier one, whatever the other clients   *)
(* do, unless one of their threads updates the coverage at the same time.  *)
ReportExact ==
  \A c \in apart : pc[c] = "notify" /\ opened[c] \in Reports => ShowsReport(opened[c])

AtRest ==
  \A c \in Conns :
    /\ kernel[c] \in {"off", "sleep"}
    /\ pc[c] \in {"none", "watch", "dead"}
    /\ pc[c] = "watch" => pending[c] = <<>>

(* When nothing is on its way, the report that was written last is shown:  *)
(* no event is lost while a thread parses, and none is taken for another.  *)
(* Excepted are a last update that overlapped with another one, and one    *)
(* that ended its thread or read a report that was not done.               *)
LastShown ==
  AtRest =>
    \A c \in apart : pc[c] = "watch" /\ opened[c] \in Reports => ShowsReport(lcov.lines)

(* However the threads of a session end each other (by a reset between the *)
(* look-up of a file and its use, by a lock file that is made before there *)
(* is a report), one of them is left to watch, as long as every report is  *)
(* done when it is read.                                                   *)
SomeoneWatches ==
  (\E c \in Conns : pc[c] # "none")
    => \/ \E c \in Conns : pc[c] \notin {"none", "dead"}
       \/ \E c \in Conns : opened[c] \notin Reports \cup {<<>>}

(* The rest does not hold of the code: TLC finds counterexamples.          *)

(* Of a report that is done no line is counted more often than it says.    *)
CountsOnce ==
  \A c \in Conns : pc[c] = "notify" /\ opened[c] \in Reports =>
    \A f \in known, n \in Lines : coverage[f].count[n] <= Hits(opened[c], f, n)

(* "touch a lock file to notify cgcserv when its done" (init): no thread   *)
(* reads a report that is not done.                                        *)
ReadsFinished ==
  \A c \in Conns : pc[c] = "parse" => opened[c] \in Reports
=============================================================================
