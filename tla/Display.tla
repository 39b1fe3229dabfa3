------------------------------- MODULE Display -------------------------------
(***************************************************************************)
(* What a page of the web interface shows of the coverage it is sent:      *)
(* coverageTreeView and coverageSourceView of cgcserv/static/srccoverage.js*)
(* and the parts of templates/index.html that drive them.  The tree has a  *)
(* node per directory and file with a bar "executed/total"; the source     *)
(* view has one file with a count beside each line.  The page is one       *)
(* thread; the answers to its requests for sources come in any order.      *)
(*                                                                         *)
(* Coverage is sent as PyGcovRT.get makes it.  A file is the sequence of   *)
(* names in its path, and its lines with a count are its first Size lines. *)
(***************************************************************************)
EXTENDS Integers, FiniteSets, Sequences, SequencesExt, FiniteSetsExt

CONSTANTS
  Sids, None,   \* sessions, and what is none of them
  FilesOf,      \* per session, the files of its service
  Size,         \* per file, its number of lines
  MaxCount,     \* bound: executions of a line
  MaxClicks     \* bound: requests for a source that are under way

AllFiles == UNION {FilesOf[s] : s \in Sids}

ASSUME DisplayAssumption ==
  /\ None \notin Sids /\ MaxCount \in Nat /\ MaxClicks \in Nat
  /\ IsFiniteSet(AllFiles) /\ AllFiles \subseteq Seq(STRING)
  /\ \A f \in AllFiles : f # <<>> /\ Size[f] \in Nat
  /\ \A f, g \in AllFiles : IsPrefix(f, g) => f = g

VARIABLES
  currentSession,
  fresh,      \* history: coverage has been shown since the session was joined
  node,       \* the tree: per path in it, its counts and its bar
  coverage,   \* coverageSourceView.coverage
  file,       \* the file that was clicked last
  content,    \* the file whose lines are in the table
  count,      \* the count that is shown beside each line of it
  requests,   \* bag of sources that are under way: per file, how many
  failed      \* history: such a request failed since the last message

tree   == <<node, fresh>>
source == <<coverage, file, content, count, requests, failed>>
displayvars   == <<currentSession, tree, source>>

Nothing == <<>>   \* no tree, no coverage, no file
Blank   == -1     \* no count beside a line

DisplayInit ==
  /\ currentSession = None /\ fresh = FALSE
  /\ node = Nothing /\ coverage = Nothing
  /\ file = Nothing /\ content = Nothing /\ count = <<>>
  /\ requests = [f \in AllFiles |-> 0] /\ failed = FALSE

-----------------------------------------------------------------------------
(* PyGcovRT.get: each file with its lines and how many of them there are   *)
(* and were executed.                                                      *)

Counts(s) == {c \in [FilesOf[s] -> UNION {[1 .. Size[f] -> 0 .. MaxCount] : f \in FilesOf[s]}] :
                \A f \in FilesOf[s] : DOMAIN c[f] = 1 .. Size[f]}

coveragetogcov(orig) ==
  [f \in DOMAIN orig |->
     [lines |-> orig[f], total |-> Len(orig[f]),
      executed |-> Cardinality({l \in DOMAIN orig[f] : orig[f][l] > 0})]]

-----------------------------------------------------------------------------
(* coverageTreeView.update *)

(* _draw makes the directories on the way to a file that are not there. *)
PathTo(f) == {SubSeq(f, 1, k) : k \in 1 .. Len(f)}
Tree(files) == DOMAIN node \cup UNION {PathTo(f) : f \in files}

Children(n, nodes) == {m \in nodes : Len(m) = Len(n) + 1 /\ IsPrefix(n, m)}

SumUp(w, nodes) == MapThenSumSet(LAMBDA n : w[n], nodes)

(* update_totals: a file has the counts that were sent last, a directory   *)
(* the sums of its children, children first.                               *)
NodeTotals(n, cov, nodes, totals) ==
  LET below == Children(n, nodes) IN
  IF n \in DOMAIN cov THEN [executed |-> cov[n].executed, total |-> cov[n].total]
  ELSE IF n \in AllFiles THEN [executed |-> node[n].executed, total |-> node[n].total]
  ELSE [executed |-> SumUp([m \in below |-> totals[m].executed], below),
        total    |-> SumUp([m \in below |-> totals[m].total], below)]

Totals(cov, nodes) ==
  LET totals[n \in nodes] == NodeTotals(n, cov, nodes, totals) IN totals

Bar_OnTotal(n, new) ==
  IF n \in AllFiles \/ n \notin DOMAIN node \/ node[n].total # new.total
  THEN <<new.executed, new.total>> ELSE node[n].bar

(* A directory's bar is drawn anew when its executed lines have changed. *)
Bar(n, new) ==
  IF n \in AllFiles \/ n \notin DOMAIN node \/ node[n].executed # new.executed
  THEN <<new.executed, new.total>> ELSE node[n].bar

UpdateTree(cov) ==
  LET nodes  == Tree(DOMAIN cov)
      totals == Totals(cov, nodes)
  IN  node' = [n \in nodes |-> [executed |-> totals[n].executed, total |-> totals[n].total,
                                bar |-> Bar(n, totals[n])]]

-----------------------------------------------------------------------------
(* coverageSourceView *)

(* _update_counts: the lines that the table has get the count of the file  *)
(* that was clicked last.                                                  *)
Counted(cov, shown) ==
  [l \in DOMAIN shown |->
     IF file \in DOMAIN cov /\ l <= Len(cov[file].lines) THEN cov[file].lines[l] ELSE shown[l]]

(* setSourceFile: the file is asked for; what is shown stays. *)
Click(f) ==
  /\ f \in DOMAIN node /\ f \in AllFiles
  /\ FoldFunction(+, 0, requests) < MaxClicks
  /\ file' = f
  /\ requests' = [requests EXCEPT ![f] = @ + 1]
  /\ UNCHANGED <<currentSession, tree, coverage, content, count, failed>>

Received(f) ==
  /\ requests[f] > 0
  /\ requests' = [requests EXCEPT ![f] = @ - 1]
  /\ content' = f
  /\ UNCHANGED <<currentSession, tree, coverage, file, failed>>

Success_NoCounts(f) ==
  /\ Received(f)
  /\ count' = [l \in 1 .. Size[f] |-> Blank]

(* success: the lines that came are shown, with their counts. *)
Success(f) ==
  /\ Received(f)
  /\ count' = Counted(coverage, [l \in 1 .. Size[f] |-> Blank])

(* error: what is shown stays. *)
Error(f) ==
  /\ requests[f] > 0
  /\ requests' = [requests EXCEPT ![f] = @ - 1]
  /\ failed' = TRUE
  /\ UNCHANGED <<currentSession, tree, coverage, file, content, count>>

-----------------------------------------------------------------------------
(* index.html *)

(* joinSession: the lists are emptied, but not the tree and the source. *)
joinSession(s) ==
  /\ s # currentSession
  /\ currentSession' = s
  /\ fresh' = FALSE
  /\ UNCHANGED <<node, source>>

(* socket.on('coverage'): the tree and then the source view. *)
CoverageArrives ==
  /\ currentSession # None
  /\ \E c \in Counts(currentSession) :
       LET cov == coveragetogcov(c) IN
       /\ UpdateTree(cov)
       /\ coverage' = cov
       /\ count' = Counted(cov, count)
  /\ fresh' = TRUE /\ failed' = FALSE
  /\ UNCHANGED <<currentSession, file, content, requests>>

-----------------------------------------------------------------------------

DisplayNext ==
  \/ \E s \in Sids : joinSession(s)
  \/ CoverageArrives
  \/ \E f \in AllFiles : Click(f) \/ Success(f) \/ Error(f)

DisplaySpec == DisplayInit /\ [][DisplayNext]_displayvars

-----------------------------------------------------------------------------
(***************************************************************************)
(* Properties                                                              *)
(***************************************************************************)

(* While the sessions that a page shows are of one service each bar is     *)
(* exact: of a file, what the last message said of it, of a directory, the *)
(* lines of all the files below it, however deep; and each hangs on that   *)
(* of its directory.                                                       *)
Below(n)  == {f \in DOMAIN coverage : IsPrefix(n, f)}
Exact(n)  == <<SumUp([f \in DOMAIN coverage |-> coverage[f].executed], Below(n)),
               SumUp([f \in DOMAIN coverage |-> coverage[f].total], Below(n))>>
BarsExact ==
  fresh => \A n \in DOMAIN node :
    /\ node[n].bar = Exact(n)
    /\ Len(n) > 1 => Front(n) \in DOMAIN node

(* However clicks, answers and messages follow each other, when no source  *)
(* is under way and the one that is shown is the one that was clicked,     *)
(* each of its lines has the count of the last message.  (When a request   *)
(* failed it may take until the next message.)                             *)
CountsExact ==
  (\A f \in AllFiles : requests[f] = 0) /\ ~failed /\ content = file /\ file \in DOMAIN coverage
    => count = coverage[file].lines

(* The rest does not hold of the code: TLC finds counterexamples.          *)

(* "live coverage results for this session" (README.md): the tree has the  *)
(* files of the session that was joined, and no other.                     *)
ShowsSession == fresh => DOMAIN node \cap AllFiles = FilesOf[currentSession]

(* The same of the source view: where counts are shown, they are those of  *)
(* the file whose lines they stand beside.                                 *)
CountsBesideTheirSource ==
  \A l \in DOMAIN count : count[l] # Blank => count[l] \in {coverage[content].lines[l]}
=============================================================================
