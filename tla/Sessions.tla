------------------------------ MODULE Sessions ------------------------------
(***************************************************************************)
(* Practice sessions, scheduled assignments and the evidence they leave,   *)
(* in core.db and without a legacy tracker: src/app/sessions.py, the       *)
(* assignment endpoints of src/app/services.py, the evidence service of    *)
(* src/app/attempts.py, and what src/app/ai/api.py does to a session that   *)
(* is coached.                                                             *)
(*                                                                         *)
(* Each operation is one BEGIN IMMEDIATE transaction, so an action is one  *)
(* operation; a request may be repeated, or reuse the id of another, at    *)
(* any time. Accepting AI coaching commits to core.db and then to ai.db,   *)
(* so it is two actions with a crash or any other operation in between.    *)
(*                                                                         *)
(* A definition that precedes another of the same parameters, and that no  *)
(* action uses, is a seeded fault of it, as in AIRuns.                     *)
(***************************************************************************)
EXTENDS Naturals, FiniteSets

CONSTANTS
  Problems,     \* rows of problems
  Assignments,  \* rows of assignments
  ProblemOf,    \* assignments.problem_id
  Authored,     \* assignment -> hint levels with a text in hints_json
  Content,      \* problem -> hint levels the content resolver has a text for
  StartIds,     \* request ids clients mint for a start
  EventIds,     \* event ids clients mint for an attempt
  Reports,      \* what a client may report: [result, independent]
  MaxSessions,  \* bound: rows practice_sessions may receive
  MaxHint,      \* number of hint levels (4: H1 to H4)
  None          \* SQL NULL

Levels == 1..MaxHint
Results == {"green", "yellow", "red", "skipped"}

\* What a session is started for.
Work == [origin : {"ad_hoc"}, target : Problems]
          \cup [origin : {"scheduled"}, target : Assignments]

ASSUME ItemsAssumption ==
  /\ MaxSessions \in Nat /\ MaxHint \in Nat
  /\ ProblemOf \in [Assignments -> Problems]
  /\ Authored \in [Assignments -> SUBSET Levels]
  /\ Content \in [Problems -> SUBSET Levels]

ASSUME ReportsAssumption == Reports \subseteq [result : Results, independent : BOOLEAN]

ASSUME NullAssumption ==
  None \notin Problems \cup Assignments \cup StartIds \cup EventIds

VARIABLES
  started,          \* number of rows in practice_sessions
  row,              \* session -> [work, request], the columns that never change
  sStatus, sHint, assisted,  \* status, highest_hint (0: NULL), ai_assisted
  sHints,           \* session -> levels in session_hint_events
  aStatus, aHint,   \* columns of assignments
  aHints,           \* assignment -> levels in hint_events
  attempts,         \* rows of attempt_events
  evidence,         \* problem -> memory_states.evidence_count (0: no row)
  review,           \* problem -> source_attempt_id of its adaptive review
  accepting,        \* session whose coaching core.db has committed, ai.db not yet (0: none)
  coached           \* sessions with an accepted AI run in ai.db

sessionVars == <<started, row, sStatus, sHint, assisted, sHints>>
assignmentVars == <<aStatus, aHint, aHints>>
evidenceVars == <<attempts, evidence, review>>
coachVars == <<accepting, coached>>
vars == <<sessionVars, assignmentVars, evidenceVars, coachVars>>

Slots == 1..MaxSessions
Known == 1..started
NoRow == [work |-> None, request |-> None]

Init ==
  /\ started = 0
  /\ row = [s \in Slots |-> NoRow]
  /\ sStatus = [s \in Slots |-> "absent"]
  /\ sHint = [s \in Slots |-> 0]
  /\ assisted = [s \in Slots |-> FALSE]
  /\ sHints = [s \in Slots |-> {}]
  /\ aStatus = [a \in Assignments |-> "active"]
  /\ aHint = [a \in Assignments |-> 0]
  /\ aHints = [a \in Assignments |-> {}]
  /\ attempts = {}
  /\ evidence = [p \in Problems |-> 0]
  /\ review = [p \in Problems |-> None]
  /\ accepting = 0
  /\ coached = {}

Scheduled(s) == row[s].work.origin = "scheduled"
TargetOf(s) == row[s].work.target
ProblemOfSession(s) == IF Scheduled(s) THEN ProblemOf[TargetOf(s)] ELSE TargetOf(s)

\* _assignment refuses a completed assignment.
OpenAssignment(a) == aStatus[a] \in {"active", "carryover"}

-----------------------------------------------------------------------------
(* Starting a session.                                                     *)

StartedWith(id) == {s \in Known : id # None /\ row[s].request = id}

NoOpenSessions(w) == {}

OpenSessions(w) == {s \in Known : row[s].work = w /\ sStatus[s] = "active"}

StartAllowed(w) == w.origin = "scheduled" => OpenAssignment(w.target)

\* What a start answers. The request id is looked up first: a retry of the start
\* that made a session returns it even when its assignment has completed since.
StartAnswer(w, id) ==
  CASE StartedWith(id) # {} ->
         IF \E s \in StartedWith(id) : row[s].work = w THEN "replayed" ELSE "conflict"
    [] StartedWith(id) = {} /\ ~StartAllowed(w) -> "conflict"
    [] StartedWith(id) = {} /\ StartAllowed(w) ->
         IF OpenSessions(w) # {} THEN "continued" ELSE "created"

Start(w, id) ==
  /\ StartAnswer(w, id) = "created"
  /\ started < MaxSessions
  /\ started' = started + 1
  /\ LET s == started + 1 IN
       /\ row' = [row EXCEPT ![s] = [work |-> w, request |-> id]]
       /\ sStatus' = [sStatus EXCEPT ![s] = "active"]
       /\ sHint' = [sHint EXCEPT ![s] = IF w.origin = "scheduled" THEN aHint[w.target] ELSE 0]
  /\ UNCHANGED <<assisted, sHints, assignmentVars, evidenceVars, coachVars>>

\* A continued scheduled session catches up with hints its assignment received
\* through the compatibility endpoint; any other continuation changes nothing.
Continue(w, id) ==
  /\ StartAnswer(w, id) = "continued"
  /\ w.origin = "scheduled"
  /\ \E s \in OpenSessions(w) :
       /\ aHint[w.target] > sHint[s]
       /\ sHint' = [sHint EXCEPT ![s] = aHint[w.target]]
  /\ UNCHANGED <<started, row, sStatus, assisted, sHints,
                 assignmentVars, evidenceVars, coachVars>>

-----------------------------------------------------------------------------
(* Hints. A level already revealed is answered again and nothing changes.  *)

Bodies(s) ==
  IF Scheduled(s) /\ Authored[TargetOf(s)] # {} THEN Authored[TargetOf(s)]
  ELSE Content[ProblemOfSession(s)]

NextLevel(current, l) == l = current + 1

\* The assignment of a scheduled session learns of the reveal as well.
Mirror(s, l) ==
  IF Scheduled(s)
  THEN LET a == TargetOf(s) IN
         /\ aHint' = [aHint EXCEPT ![a] = IF l > @ THEN l ELSE @]
         /\ aHints' = [aHints EXCEPT ![a] = @ \cup {l}]
  ELSE UNCHANGED <<aHint, aHints>>

\* A level the session already counts (copied from its assignment) is not new, yet
\* its first reveal through the session is recorded as a session hint event.
RevealInSession(s, l) ==
  /\ sStatus[s] = "active"
  /\ l \in Bodies(s)
  /\ \/ /\ NextLevel(sHint[s], l)
        /\ sHint' = [sHint EXCEPT ![s] = l]
        /\ Mirror(s, l)
     \/ /\ l <= sHint[s]
        /\ l \notin sHints[s]
        /\ UNCHANGED <<sHint, aHint, aHints>>
  /\ sHints' = [sHints EXCEPT ![s] = @ \cup {l}]
  /\ UNCHANGED <<started, row, sStatus, assisted, aStatus, evidenceVars, coachVars>>

\* POST /hints, the compatibility endpoint.
RevealForAssignment(a, l) ==
  /\ OpenAssignment(a)
  /\ l \in Authored[a]
  /\ NextLevel(aHint[a], l)
  /\ aHint' = [aHint EXCEPT ![a] = l]
  /\ aHints' = [aHints EXCEPT ![a] = @ \cup {l}]
  /\ UNCHANGED <<aStatus, sessionVars, evidenceVars, coachVars>>

-----------------------------------------------------------------------------
(* Evidence.                                                               *)

Recorded(id) == {e \in attempts : e.id = id}

\* record_attempt_evidence: the facts as recorded. Any hint turns green into
\* yellow, and nothing but an unaided green is independent.
AsReported(report, hint, claimed) ==
  [result |-> report.result, independent |-> claimed /\ report.result = "green"]

Normalized(report, hint, claimed) ==
  LET result == IF report.result = "green" /\ hint > 0 THEN "yellow" ELSE report.result IN
    [result |-> result, independent |-> claimed /\ hint = 0 /\ result = "green"]

Evidence(p, a, s, id, report, hint, facts) ==
  [id |-> id, problem |-> p, assignment |-> a, session |-> s, report |-> report,
   hint |-> hint, result |-> facts.result, independent |-> facts.independent]

CountsAlways(facts) == TRUE

\* A skip is a scheduling decision: no memory penalty, no review obligation.
Counts(facts) == facts.result # "skipped"

RecordEvidence(e, facts) ==
  /\ attempts' = attempts \cup {e}
  /\ evidence' = [evidence EXCEPT ![e.problem] = IF Counts(facts) THEN @ + 1 ELSE @]
  /\ review' = [review EXCEPT ![e.problem] = IF Counts(facts) THEN e.id ELSE @]

CompletesOnGreen(facts) == facts.result = "green"

Completes(facts) == facts.result = "green" /\ facts.independent

\* apply_assignment_transition: a skip carries over, an independent green
\* completes, anything else is a blind retry with its hints forgotten.
Transition(a, facts) ==
  /\ aStatus' = [aStatus EXCEPT ![a] = IF Completes(facts) THEN "completed" ELSE "carryover"]
  /\ aHint' = [aHint EXCEPT ![a] = IF facts.result = "skipped" \/ Completes(facts) THEN @ ELSE 0]

SameReport(e, s, report) == e.session = s /\ e.report = report

\* What POST .../attempts answers for a session. A recorded id is looked up
\* before the session's status: a retry finds its session closed.
StatusFirst(s, id, report) ==
  CASE sStatus[s] # "active" -> "conflict"
    [] sStatus[s] = "active" /\ Recorded(id) # {} ->
         IF \E e \in Recorded(id) : SameReport(e, s, report) THEN "duplicate" ELSE "conflict"
    [] OTHER -> "recorded"

SessionOnly(s, id, report) ==
  CASE Recorded(id) # {} ->
         IF \E e \in Recorded(id) : SameReport(e, s, report) THEN "duplicate" ELSE "conflict"
    [] Recorded(id) = {} -> IF sStatus[s] = "active" THEN "recorded" ELSE "conflict"

SessionAnswer(s, id, report) ==
  CASE Recorded(id) # {} ->
         IF \E e \in Recorded(id) : SameReport(e, s, report) THEN "duplicate" ELSE "conflict"
    [] Recorded(id) = {} /\ sStatus[s] # "active" -> "conflict"
    [] Recorded(id) = {} /\ sStatus[s] = "active" ->
         IF Scheduled(s) /\ ~OpenAssignment(TargetOf(s)) THEN "conflict" ELSE "recorded"

Claimed(s, report) == report.independent /\ ~assisted[s]

CloseNothing(s) == sStatus

\* _complete_session.
Closed(s) == [sStatus EXCEPT ![s] = "completed"]

RecordForSession(s, id, report) ==
  /\ SessionAnswer(s, id, report) = "recorded"
  /\ LET a == IF Scheduled(s) THEN TargetOf(s) ELSE None
         hint == IF Scheduled(s) THEN aHint[TargetOf(s)] ELSE sHint[s]
         facts == Normalized(report, hint, Claimed(s, report)) IN
       /\ RecordEvidence(Evidence(ProblemOfSession(s), a, s, id, report, hint, facts), facts)
       /\ IF Scheduled(s) THEN Transition(a, facts) ELSE UNCHANGED <<aStatus, aHint>>
  /\ sStatus' = Closed(s)
  /\ UNCHANGED <<started, row, sHint, assisted, sHints, aHints, coachVars>>

\* POST /attempts, the compatibility endpoint: no session, and the assignment's
\* status is checked before the event id is looked up.
AssignmentAnswer(a, id, report) ==
  CASE ~OpenAssignment(a) -> "conflict"
    [] OpenAssignment(a) /\ Recorded(id) # {} ->
         IF \E e \in Recorded(id) : SameReport(e, 0, report) /\ e.assignment = a
         THEN "duplicate" ELSE "conflict"
    [] OpenAssignment(a) /\ Recorded(id) = {} -> "recorded"

RecordForAssignment(a, id, report) ==
  /\ AssignmentAnswer(a, id, report) = "recorded"
  /\ LET facts == Normalized(report, aHint[a], report.independent) IN
       /\ RecordEvidence(Evidence(ProblemOf[a], a, 0, id, report, aHint[a], facts), facts)
       /\ Transition(a, facts)
  /\ UNCHANGED <<aHints, sessionVars, coachVars>>

Abandon(s) ==
  /\ sStatus[s] = "active"
  /\ sStatus' = [sStatus EXCEPT ![s] = "abandoned"]
  /\ UNCHANGED <<started, row, sHint, assisted, sHints,
                 assignmentVars, evidenceVars, coachVars>>

-----------------------------------------------------------------------------
(* Coaching: post_message and _generate open a transaction on ai.db and,   *)
(* inside it, one on core.db. The inner one commits first.                 *)

\* session_snapshot copies the recorded outcome of a session with an iteration over
\* the values of its row, not its columns: it raises as soon as there is one, and
\* both transactions roll back.
SnapshotBuilt(s) == \A e \in attempts : e.session # s

CoachInAIFirst(s) ==
  /\ accepting = 0
  /\ s \in Known
  /\ SnapshotBuilt(s)
  /\ coached' = coached \cup {s}
  /\ accepting' = s
  /\ UNCHANGED <<sessionVars, assignmentVars, evidenceVars>>

CoachInCore(s) ==
  /\ accepting = 0
  /\ s \in Known
  /\ SnapshotBuilt(s)
  /\ assisted' = [assisted EXCEPT ![s] = TRUE]
  /\ accepting' = s
  /\ UNCHANGED <<started, row, sStatus, sHint, sHints, coached, assignmentVars, evidenceVars>>

CoachInAI ==
  /\ accepting # 0
  /\ coached' = coached \cup {accepting}
  /\ accepting' = 0
  /\ UNCHANGED <<sessionVars, assignmentVars, evidenceVars>>

\* The process dies, or ai.db fails, between the two commits.
CoachLost ==
  /\ accepting # 0
  /\ accepting' = 0
  /\ UNCHANGED <<coached, sessionVars, assignmentVars, evidenceVars>>

-----------------------------------------------------------------------------
Hinting ==
  \/ \E s \in Known, l \in Levels : RevealInSession(s, l)
  \/ \E a \in Assignments, l \in Levels : RevealForAssignment(a, l)

Recording ==
  \E id \in EventIds, report \in Reports :
    \/ \E s \in Known : RecordForSession(s, id, report)
    \/ \E a \in Assignments : RecordForAssignment(a, id, report)

Coaching == CoachInAI \/ CoachLost \/ \E s \in Known : CoachInCore(s)

Next ==
  \/ \E w \in Work, id \in StartIds \cup {None} : Start(w, id) \/ Continue(w, id)
  \/ Hinting
  \/ Recording
  \/ \E s \in Known : Abandon(s)
  \/ Coaching

Spec == Init /\ [][Next]_vars

-----------------------------------------------------------------------------
(* Properties.                                                             *)

SessionTypeOK ==
  /\ started \in 0..MaxSessions
  /\ row \in [Slots -> {NoRow} \cup [work : Work, request : StartIds \cup {None}]]
  /\ sStatus \in [Slots -> {"absent", "active", "completed", "abandoned"}]
  /\ sHint \in [Slots -> 0..MaxHint]
  /\ assisted \in [Slots -> BOOLEAN]
  /\ sHints \in [Slots -> SUBSET Levels]

AssignmentTypeOK ==
  /\ aStatus \in [Assignments -> {"active", "carryover", "completed"}]
  /\ aHint \in [Assignments -> 0..MaxHint]
  /\ aHints \in [Assignments -> SUBSET Levels]

Attempts ==
  [id : EventIds, problem : Problems, assignment : Assignments \cup {None}, session : {0} \cup Slots,
   report : Reports, hint : 0..MaxHint, result : Results, independent : BOOLEAN]

EvidenceTypeOK ==
  /\ attempts \subseteq Attempts
  /\ evidence \in [Problems -> Nat]
  /\ review \in [Problems -> EventIds \cup {None}]

\* The columns of core.db and of ai.db that sessions and their evidence use keep the types
\* their CHECK constraints give them, and a hint column never exceeds the ladder.
TypeOK ==
  /\ SessionTypeOK /\ AssignmentTypeOK /\ EvidenceTypeOK
  /\ accepting \in {0} \cup Slots
  /\ coached \subseteq Slots

\* A problem has at most one open ad hoc session and an assignment at most one open
\* scheduled one, so "continue" never has to choose.
OneOpenSession ==
  \A s, t \in Known :
    /\ sStatus[s] = "active" /\ sStatus[t] = "active"
    /\ row[s].work = row[t].work
    => s = t

\* A session is completed by exactly one attempt; an open or abandoned one has none.
ClosedWithItsAttempt ==
  \A s \in Known :
    Cardinality({e \in attempts : e.session = s}) = IF sStatus[s] = "completed" THEN 1 ELSE 0

\* A start or an attempt whose answer was lost may be retried for ever, on the endpoint
\* it was sent to: the start finds the session it made and never another, the attempt the
\* row it left, also after that session or its assignment has closed. Only the assignment
\* endpoint refuses, once the assignment is completed; neither records an attempt twice.
RetryIsAnswered ==
  /\ \A s \in Known : row[s].request # None =>
       /\ StartAnswer(row[s].work, row[s].request) = "replayed"
       /\ StartedWith(row[s].request) = {s}
  /\ \A e \in attempts :
       IF e.session # 0 THEN SessionAnswer(e.session, e.id, e.report) = "duplicate"
       ELSE AssignmentAnswer(e.assignment, e.id, e.report)
              = IF OpenAssignment(e.assignment) THEN "duplicate" ELSE "conflict"

\* An assignment is completed by one attempt, an independent green, whichever
\* endpoint recorded it.
CompletedByIndependentGreen ==
  \A a \in Assignments :
    Cardinality({e \in attempts : e.assignment = a /\ e.result = "green" /\ e.independent})
      = IF aStatus[a] = "completed" THEN 1 ELSE 0

\* Hints unlock strictly in order on every endpoint: whoever sees a level has been
\* shown all lower ones, by the session or for the assignment it executes. Evidence of
\* extra practice carries all its session revealed, and is independent only if that was
\* none.
LadderIsClimbedAndCounted ==
  /\ \A a \in Assignments : \A l \in aHints[a] : 1..l \subseteq aHints[a]
  /\ \A s \in Known : \A l \in sHints[s] :
       1..l \subseteq sHints[s] \cup (IF Scheduled(s) THEN aHints[TargetOf(s)] ELSE {})
  /\ \A e \in attempts : e.session # 0 /\ e.assignment = None =>
       /\ sHints[e.session] = 1..e.hint
       /\ e.independent => sHints[e.session] = {}

\* The memory model counts every attempt but the skipped ones, and the adaptive
\* review of a problem comes from one of those it counted.
EvidenceCounted ==
  \A p \in Problems :
    LET counted == {e \in attempts : e.problem = p /\ e.result # "skipped"} IN
      /\ evidence[p] = Cardinality(counted)
      /\ IF counted = {} THEN review[p] = None ELSE review[p] \in {e.id : e \in counted}

NewAttempts == attempts' \ attempts

\* Whatever crashes between the two commits of an accepted coaching request, an
\* attempt recorded after a run was accepted for its session is not independent.
CoachedIsNotIndependent ==
  [][\A e \in NewAttempts : e.session \in coached => ~e.independent]_vars

\* Nothing reopens a completed assignment or adds evidence to it, not even a session
\* that was open when another endpoint completed it.
CompletedIsFinal ==
  [][\A a \in Assignments : aStatus[a] = "completed" =>
       /\ aStatus'[a] = "completed"
       /\ \A e \in NewAttempts : e.assignment # a]_vars

-----------------------------------------------------------------------------
(* What comments of the code say, and the code does not do.                *)

\* app/attempts.py: "any revealed hint normalizes a Green report to Yellow and
\* clears independence".
HintedIsNotIndependent ==
  \A e \in attempts : e.session # 0 /\ e.independent => sHints[e.session] = {}

\* docs/community-ai-architecture.md: session snapshots add "completed outcome": a
\* session that was completed can still be asked about, and diagnosed.
OutcomeReachesCoach ==
  \A s \in Known : sStatus[s] = "completed" => SnapshotBuilt(s)

\* app/attempts.py: "A retry of the identical operation (...) is idempotent".
AssignmentRetryIsAnswered ==
  \A e \in attempts : e.session = 0 => AssignmentAnswer(e.assignment, e.id, e.report) = "duplicate"

\* app/db.py: core records that coaching occurred "so subsequent attempt evidence can
\* never be classified as independent".
CoachedWorkIsNotIndependent ==
  [][\A e \in NewAttempts : e.independent =>
       \A s \in coached : sStatus[s] = "active" =>
         e.session # s /\ (Scheduled(s) => e.assignment # TargetOf(s))]_vars
=============================================================================
