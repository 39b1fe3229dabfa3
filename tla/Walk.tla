-------------------------------- MODULE Walk ---------------------------------
(***************************************************************************)
(* The loop of run in demos/PTaaS/ptass_fuzz.py: a random walk through a   *)
(* lexer whose bytes are the message sent.  Which arc a step takes is      *)
(* chosen by dist.py: any arc here; how it chooses is in DistSample.       *)
(*                                                                         *)
(* The buffer is represented by the state in which it leaves the lexer:    *)
(* a reader that starts a message in Start and takes LF as the CR it was   *)
(* made of.  Random numbers are choices.                                   *)
(*                                                                         *)
(* run uses the name st for the state of the walk and for the loops over   *)
(* all states that make and print the histograms: where such a loop ends,  *)
(* the walk is in the last state.                                          *)
(***************************************************************************)
EXTENDS Integers, FiniteSets

CONSTANTS
  Bytes,      \* the 256 bytes
  States,     \* of the lexer
  Start, Fail, Accepting,
  LastState,  \* the last of States
  Delta,      \* [States -> [Bytes -> States]]
  Period      \* messages from one printing of the histograms to the next

LF == 10
CR == 13

(* The tables are total; Start is neither accepting nor the target of an   *)
(* arc, and LF is on no arc, so that crlf can be undone.                   *)
ASSUME TableAssumption ==
  /\ LF \in Bytes /\ CR \in Bytes
  /\ Start \in States /\ Fail \in States /\ Accepting \subseteq States
  /\ Start # Fail /\ Start \notin Accepting /\ Fail \notin Accepting
  /\ Delta \in [States -> [Bytes -> States]]
  /\ \A s \in States, c \in Bytes : Delta[s][c] # Start
  /\ \A s \in States : Delta[s][LF] = Fail

(* The last state is one in the middle of a message, whose arcs go on with *)
(* bytes that no message begins with; Fail is never left, and the walk     *)
(* does not print at every message.                                        *)
ASSUME LastAssumption ==
  /\ LastState \in States \ (Accepting \cup {Start, Fail})
  /\ \A c \in Bytes : Delta[LastState][c] # Fail => Delta[Start][c] = Fail
  /\ \A c \in Bytes : Delta[Fail][c] = Fail
  /\ Period \in Nat /\ Period > 1

VARIABLES
  st,       \* state of the walk
  msg_err,  \* may the message have wrong bytes?
  buffer,   \* the bytes since the last message, as the reader's state
  cnt,      \* messages since the histograms were printed
  begun,    \* history: the state in which the message was begun
  sent      \* the last message: where was it begun, could it have wrong bytes,
            \* did the reader accept it?

walkvars == <<st, msg_err, buffer, cnt, begun, sent>>

Target_Accepting(s, c) == Delta[s][c]

(* An accepting state is replaced by Start. *)
Target(s, c) == IF Delta[s][c] \in Accepting THEN Start ELSE Delta[s][c]

(* unfailingArcs: an arc is named by its byte, and leaves out its place in *)
(* the list.  The one arc of Fail goes to Start.                           *)
Arcs(s)    == IF s = Fail THEN {LF} ELSE {c \in Bytes : Target(s, c) # Fail}
Goes(s, c) == IF s = Fail THEN Start ELSE Target(s, c)

crlf(c) == IF c = CR THEN LF ELSE c

Read(s, ch) == Delta[s][IF ch = LF THEN CR ELSE ch]

(* st = start, then the loop that makes the histograms. *)
WalkInit ==
  /\ st = LastState
  /\ msg_err = FALSE
  /\ buffer = Start
  /\ cnt = 0
  /\ begun = LastState
  /\ sent = [from |-> Start, err |-> FALSE, accepted |-> TRUE]

(* The byte that is appended: that of the arc, or in a message with errors *)
(* now and then a random one.                                              *)
Appended(c) == {crlf(c)} \cup (IF msg_err THEN Bytes ELSE {})

MessageEnds_KeepBuffer(ch) ==
  /\ sent' = [from |-> begun, err |-> msg_err, accepted |-> Read(buffer, ch) \in Accepting]
  /\ buffer' = Read(buffer, ch)
  /\ msg_err' \in BOOLEAN
  /\ cnt' = (cnt + 1) % Period
  /\ st' = IF cnt' = 0 THEN LastState ELSE Start
  /\ begun' = st'

(* st == start: the message is sent, whether the next one has errors is    *)
(* drawn, and now and then the histograms are printed.                     *)
MessageEnds(ch) ==
  /\ sent' = [from |-> begun, err |-> msg_err, accepted |-> Read(buffer, ch) \in Accepting]
  /\ buffer' = Start
  /\ msg_err' \in BOOLEAN
  /\ cnt' = (cnt + 1) % Period
  /\ st' = IF cnt' = 0 THEN LastState ELSE Start
  /\ begun' = st'

MessageGoesOn(c, ch) ==
  /\ st' = Goes(st, c)
  /\ buffer' = Read(buffer, ch)
  /\ UNCHANGED <<msg_err, cnt, begun, sent>>

Take(c) ==
  \E ch \in Appended(c) :
    IF Goes(st, c) = Start THEN MessageEnds(ch) ELSE MessageGoesOn(c, ch)

WalkNext == \E c \in Arcs(st) : Take(c)

WalkSpec == WalkInit /\ [][WalkNext]_walkvars

Leave == WalkNext /\ st' # st

FairWalkSpec == WalkSpec /\ WF_walkvars(Leave)

-----------------------------------------------------------------------------
(***************************************************************************)
(* Properties                                                              *)
(***************************************************************************)

WalkTypeOK ==
  /\ st \in States
  /\ msg_err \in BOOLEAN
  /\ buffer \in States
  /\ cnt \in 0 .. Period - 1
  /\ begun \in {Start, LastState}
  /\ sent \in [from : {Start, LastState}, err : BOOLEAN, accepted : BOOLEAN]

(* While a message has no errors, its reader is where the walk is; if the  *)
(* walk began it in the last state, the reader fails with its first byte.  *)
InStep ==
  ~msg_err =>
    IF begun = Start THEN buffer = st
                     ELSE buffer = Fail \/ (buffer = Start /\ st = LastState)

(* A message sent without errors is a command of the lexer's language, a   *)
(* reader of its bytes ends in an accepting state, exactly when the walk   *)
(* began it in the start state: the accepting states that the walk gives   *)
(* up and the CR that crlf gives up do not change what is accepted; but    *)
(* the first message, and the next after each printing of the histograms,  *)
(* are the rest of a command, which is none.                               *)
SentIsAccepted == ~sent.err => (sent.accepted <=> sent.from = Start)

(* No state from which a step would have to choose among fewer than two    *)
(* arcs is reached: there dist.py stops the program by                     *)
(* assert(self.size > 1), and the loop has no other end.                   *)
ChoiceExists == Cardinality(Arcs(st)) > 1

(* When no state is looped at for ever, messages are sent for ever: beside *)
(* the loops at one state the lexer has no cycle that avoids Start.  That  *)
(* none is looped at for ever is LeavesLoops of DistSample.                *)
MessagesEnd == []<><<cnt' # cnt>>_walkvars
=============================================================================
