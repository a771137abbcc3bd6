--------------------------- MODULE Sessions_proofs ---------------------------
(***************************************************************************)
(* Proofs about Sessions, for any number of problems, assignments,         *)
(* sessions, hint levels and event ids.                                    *)
(*                                                                         *)
(* Rows and Origins say what a row refers to: without them the target of a *)
(* session or of an attempt has no type. Every other part of the invariant *)
(* strengthens one property, and is preserved on top of these two.         *)
(***************************************************************************)
EXTENDS Sessions, FiniteSetTheorems, TLAPS

-----------------------------------------------------------------------------
(* Types.                                                                  *)

\* A session has its row, and only a session has one.
Rows == \A s \in Known : row[s] \in [work : Work, request : StartIds \cup {None}]

\* An attempt was recorded of a session, or through the compatibility endpoint of an
\* assignment.
Origins == \A e \in attempts :
  /\ e.session \in {0} \cup Known
  /\ e.session = 0 => e.assignment \in Assignments

Typed == TypeOK /\ Rows /\ Origins

Facts == [result : Results, independent : BOOLEAN]

\* Whatever is reported and whatever was revealed, facts are recorded.
LEMMA NormalizedIsFacts ==
  ASSUME NEW report \in Reports, NEW hint \in 0..MaxHint, NEW claimed \in BOOLEAN
  PROVE  Normalized(report, hint, claimed) \in Facts
BY ReportsAssumption DEF Normalized, Facts, Results

\* A session is of an assignment or of a problem, and always of a problem.
LEMMA TargetTyped ==
  ASSUME Typed, NEW s \in Known
  PROVE  /\ s \in Slots
         /\ Scheduled(s) => TargetOf(s) \in Assignments
         /\ ProblemOfSession(s) \in Problems
<1>1. s \in Slots
  BY ItemsAssumption DEF Typed, TypeOK, SessionTypeOK, Known, Slots
<1>2. row[s].work \in Work
  BY DEF Typed, Rows
<1>3. CASE row[s].work \in [origin : {"ad_hoc"}, target : Problems]
  BY <1>1, <1>3 DEF Scheduled, TargetOf, ProblemOfSession
<1>4. CASE row[s].work \in [origin : {"scheduled"}, target : Assignments]
  BY <1>1, <1>4, ItemsAssumption DEF Scheduled, TargetOf, ProblemOfSession
<1>5. QED
  BY <1>2, <1>3, <1>4 DEF Work

LEMMA TypedInit == Init => Typed
BY ItemsAssumption DEF Init, Typed, TypeOK, SessionTypeOK, AssignmentTypeOK, EvidenceTypeOK,
   Rows, Origins, Known, Slots

LEMMA TypedStart ==
  ASSUME Typed, NEW w \in Work, NEW id \in StartIds \cup {None}, Start(w, id)
  PROVE  Typed'
<1> DEFINE s == started + 1
<1>1. s \in Slots /\ started \in Nat
  BY ItemsAssumption DEF Typed, TypeOK, SessionTypeOK, Start, Slots
<1>2. w.origin = "scheduled" => aHint[w.target] \in 0..MaxHint
  BY DEF Work, Typed, TypeOK, AssignmentTypeOK
<1>3. SessionTypeOK'
  <2>1. started' \in 0..MaxSessions
    BY <1>1, ItemsAssumption DEF Start, Slots
  <2>2. row' \in [Slots -> {NoRow} \cup [work : Work, request : StartIds \cup {None}]]
    BY <1>1 DEF Start, Typed, TypeOK, SessionTypeOK
  <2>3. sStatus' \in [Slots -> {"absent", "active", "completed", "abandoned"}]
    BY <1>1 DEF Start, Typed, TypeOK, SessionTypeOK
  <2>4. sHint' \in [Slots -> 0..MaxHint]
    BY <1>1, <1>2, ItemsAssumption DEF Start, Typed, TypeOK, SessionTypeOK
  <2>5. QED
    BY <2>1, <2>2, <2>3, <2>4 DEF Start, Typed, TypeOK, SessionTypeOK
<1>4. Rows'
  <2> SUFFICES ASSUME NEW t \in Known'
               PROVE  row'[t] \in [work : Work, request : StartIds \cup {None}]
    BY DEF Rows
  <2>1. CASE t = s
    BY <1>1, <2>1 DEF Start, Typed, TypeOK, SessionTypeOK
  <2>2. CASE t # s
    BY <1>1, <2>2 DEF Start, Typed, TypeOK, SessionTypeOK, Rows, Known, Slots
  <2>3. QED
    BY <2>1, <2>2
<1>5. Origins'
  BY <1>1 DEF Start, Typed, Origins, Known, evidenceVars
<1>6. QED
  BY <1>3, <1>4, <1>5 DEF Typed, TypeOK, AssignmentTypeOK, EvidenceTypeOK, Start, coachVars,
     assignmentVars, evidenceVars

\* Nothing but a start adds a row.
LEMMA RowsKept == ASSUME Typed, UNCHANGED <<started, row>> PROVE Rows'
BY DEF Typed, Rows, Known

LEMMA OriginsKept ==
  ASSUME Typed, UNCHANGED <<started, attempts>> PROVE Origins'
BY DEF Typed, Origins, Known

LEMMA TypedContinue ==
  ASSUME Typed, NEW w \in Work, NEW id \in StartIds \cup {None}, Continue(w, id)
  PROVE  Typed'
<1>1. aHint[w.target] \in 0..MaxHint
  BY DEF Work, Continue, Typed, TypeOK, AssignmentTypeOK
<1>2. sHint' \in [Slots -> 0..MaxHint]
  BY <1>1 DEF Continue, Typed, TypeOK, SessionTypeOK
<1>3. SessionTypeOK'
  BY <1>2 DEF Continue, Typed, TypeOK, SessionTypeOK
<1>4. QED
  BY <1>3, RowsKept, OriginsKept DEF Continue, Typed, TypeOK, AssignmentTypeOK, EvidenceTypeOK,
     assignmentVars, evidenceVars, coachVars

LEMMA TypedRevealInSession ==
  ASSUME Typed, NEW s \in Known, NEW l \in Levels, RevealInSession(s, l)
  PROVE  Typed'
<1>1. s \in Slots /\ (Scheduled(s) => TargetOf(s) \in Assignments)
  BY TargetTyped
<1>2. l \in 0..MaxHint
  BY ItemsAssumption DEF Levels
<1>3. SessionTypeOK'
  BY <1>1, <1>2 DEF RevealInSession, Typed, TypeOK, SessionTypeOK
<1>4. aHint' \in [Assignments -> 0..MaxHint] /\ aHints' \in [Assignments -> SUBSET Levels]
  BY <1>1, <1>2 DEF RevealInSession, Mirror, Typed, TypeOK, AssignmentTypeOK
<1>5. QED
  BY <1>3, <1>4, RowsKept, OriginsKept DEF RevealInSession, Typed, TypeOK, AssignmentTypeOK,
     EvidenceTypeOK, evidenceVars, coachVars

LEMMA TypedRevealForAssignment ==
  ASSUME Typed, NEW a \in Assignments, NEW l \in Levels, RevealForAssignment(a, l)
  PROVE  Typed'
<1>1. l \in 0..MaxHint
  BY ItemsAssumption DEF Levels
<1>2. AssignmentTypeOK'
  BY <1>1 DEF RevealForAssignment, Typed, TypeOK, AssignmentTypeOK
<1>3. QED
  BY <1>2, RowsKept, OriginsKept DEF RevealForAssignment, Typed, TypeOK, SessionTypeOK,
     EvidenceTypeOK, sessionVars, evidenceVars, coachVars

\* What an attempt is recorded as, and what becomes of its assignment.
LEMMA TypedRecord ==
  ASSUME Typed, NEW e \in Attempts, NEW facts \in Facts, RecordEvidence(e, facts)
  PROVE  EvidenceTypeOK'
<1>1. e.problem \in Problems /\ e.id \in EventIds
  BY DEF Attempts
<1>2. attempts' \subseteq Attempts
  BY DEF RecordEvidence, Typed, TypeOK, EvidenceTypeOK
<1>3. evidence' \in [Problems -> Nat] /\ review' \in [Problems -> EventIds \cup {None}]
  BY <1>1 DEF RecordEvidence, Typed, TypeOK, EvidenceTypeOK
<1>4. QED
  BY <1>2, <1>3 DEF EvidenceTypeOK

\* What the two endpoints record.
Attempted(e, facts, p, a, s, id, report, hint) ==
  /\ e = Evidence(p, a, s, id, report, hint, facts)
  /\ e \in Attempts /\ facts \in Facts
  /\ e.id = id /\ e.problem = p /\ e.assignment = a /\ e.session = s /\ e.report = report
  /\ e.hint = hint /\ e.result = facts.result /\ e.independent = facts.independent
  /\ facts.independent => facts.result = "green" /\ hint = 0
  /\ RecordEvidence(e, facts)

LEMMA EvidenceIsAttempt ==
  ASSUME NEW p \in Problems, NEW a \in Assignments \cup {None}, NEW s \in {0} \cup Slots,
         NEW id \in EventIds, NEW report \in Reports, NEW hint \in 0..MaxHint,
         NEW claimed \in BOOLEAN, NEW facts, facts = Normalized(report, hint, claimed),
         NEW e, e = Evidence(p, a, s, id, report, hint, facts), RecordEvidence(e, facts)
  PROVE  Attempted(e, facts, p, a, s, id, report, hint)
<1>1. facts \in Facts
  BY NormalizedIsFacts
<1>2. facts.independent => facts.result = "green" /\ hint = 0
  BY DEF Normalized
<1>3. e \in Attempts
  BY <1>1 DEF Evidence, Attempts, Facts
<1>4. QED
  BY <1>1, <1>2, <1>3 DEF Attempted, Evidence

AssignmentOf(s) == IF Scheduled(s) THEN TargetOf(s) ELSE None
HintOf(s) == IF Scheduled(s) THEN aHint[TargetOf(s)] ELSE sHint[s]

LEMMA SessionEvidence ==
  ASSUME Typed, NEW s \in Known, NEW id \in EventIds, NEW report \in Reports,
         RecordForSession(s, id, report)
  PROVE  \E e, facts :
           /\ Attempted(e, facts, ProblemOfSession(s), AssignmentOf(s), s, id, report, HintOf(s))
           /\ assisted[s] => ~facts.independent
           /\ IF Scheduled(s) THEN Transition(TargetOf(s), facts) ELSE UNCHANGED <<aStatus, aHint>>
<1>1. s \in Slots /\ AssignmentOf(s) \in Assignments \cup {None} /\ ProblemOfSession(s) \in Problems
  BY TargetTyped DEF AssignmentOf
<1>2. HintOf(s) \in 0..MaxHint
  BY <1>1, TargetTyped DEF Typed, TypeOK, SessionTypeOK, AssignmentTypeOK, HintOf
<1>3. PICK facts : facts = Normalized(report, HintOf(s), Claimed(s, report))
  OBVIOUS
<1>4. PICK e : e = Evidence(ProblemOfSession(s), AssignmentOf(s), s, id, report, HintOf(s), facts)
  OBVIOUS
<1>5. /\ RecordEvidence(e, facts)
      /\ IF Scheduled(s) THEN Transition(TargetOf(s), facts) ELSE UNCHANGED <<aStatus, aHint>>
  BY <1>3, <1>4 DEF RecordForSession, AssignmentOf, HintOf
<1>6. Claimed(s, report) \in BOOLEAN
  BY DEF Claimed
<1>7. Attempted(e, facts, ProblemOfSession(s), AssignmentOf(s), s, id, report, HintOf(s))
  BY <1>1, <1>2, <1>3, <1>4, <1>5, <1>6, EvidenceIsAttempt
<1>8. assisted[s] => ~facts.independent
  BY <1>3 DEF Normalized, Claimed
<1>9. QED
  BY <1>5, <1>7, <1>8

LEMMA AssignmentEvidence ==
  ASSUME Typed, NEW a \in Assignments, NEW id \in EventIds, NEW report \in Reports,
         RecordForAssignment(a, id, report)
  PROVE  \E e, facts :
           /\ Attempted(e, facts, ProblemOf[a], a, 0, id, report, aHint[a])
           /\ Transition(a, facts)
<1>1. aHint[a] \in 0..MaxHint /\ report.independent \in BOOLEAN /\ ProblemOf[a] \in Problems
  BY ItemsAssumption, ReportsAssumption DEF Typed, TypeOK, AssignmentTypeOK
<1>2. PICK facts : facts = Normalized(report, aHint[a], report.independent)
  OBVIOUS
<1>3. PICK e : e = Evidence(ProblemOf[a], a, 0, id, report, aHint[a], facts)
  OBVIOUS
<1>4. RecordEvidence(e, facts) /\ Transition(a, facts)
  BY <1>2, <1>3 DEF RecordForAssignment
<1>5. Attempted(e, facts, ProblemOf[a], a, 0, id, report, aHint[a])
  BY <1>1, <1>2, <1>3, <1>4, EvidenceIsAttempt
<1>6. QED
  BY <1>4, <1>5

LEMMA TypedTransition ==
  ASSUME Typed, NEW a \in Assignments, NEW facts \in Facts, Transition(a, facts)
  PROVE  /\ aStatus' \in [Assignments -> {"active", "carryover", "completed"}]
         /\ aHint' \in [Assignments -> 0..MaxHint]
BY ItemsAssumption DEF Transition, Typed, TypeOK, AssignmentTypeOK

LEMMA TypedRecordForSession ==
  ASSUME Typed, NEW s \in Known, NEW id \in EventIds, NEW report \in Reports,
         RecordForSession(s, id, report)
  PROVE  Typed'
<1>1. PICK e, facts :
        /\ Attempted(e, facts, ProblemOfSession(s), AssignmentOf(s), s, id, report, HintOf(s))
        /\ IF Scheduled(s) THEN Transition(TargetOf(s), facts) ELSE UNCHANGED <<aStatus, aHint>>
  BY SessionEvidence
<1>2. /\ e \in Attempts /\ facts \in Facts /\ e.session = s
      /\ RecordEvidence(e, facts)
  BY <1>1 DEF Attempted
<1>3. EvidenceTypeOK'
  BY <1>2, TypedRecord
<1>4. SessionTypeOK'
  BY DEF RecordForSession, Closed, Typed, TypeOK, SessionTypeOK
<1>5. AssignmentTypeOK'
  BY <1>1, <1>2, TargetTyped, TypedTransition
     DEF RecordForSession, Typed, TypeOK, AssignmentTypeOK
<1>6. Rows' /\ Origins'
  <2>1. UNCHANGED <<started, row>> /\ attempts' = attempts \cup {e}
    BY <1>2 DEF RecordForSession, RecordEvidence
  <2>2. s # 0
    BY DEF Known
  <2>3. QED
    BY <1>2, <2>1, <2>2, RowsKept DEF Typed, Origins, Known
<1>7. QED
  BY <1>3, <1>4, <1>5, <1>6 DEF RecordForSession, Typed, TypeOK, coachVars

LEMMA TypedRecordForAssignment ==
  ASSUME Typed, NEW a \in Assignments, NEW id \in EventIds, NEW report \in Reports,
         RecordForAssignment(a, id, report)
  PROVE  Typed'
<1>1. PICK e, facts : Attempted(e, facts, ProblemOf[a], a, 0, id, report, aHint[a])
                      /\ Transition(a, facts)
  BY AssignmentEvidence
<1>2. /\ e \in Attempts /\ facts \in Facts /\ e.session = 0 /\ e.assignment = a
      /\ RecordEvidence(e, facts)
  BY <1>1 DEF Attempted
<1>3. EvidenceTypeOK'
  BY <1>2, TypedRecord
<1>4. AssignmentTypeOK'
  BY <1>1, <1>2, TypedTransition DEF RecordForAssignment, Typed, TypeOK, AssignmentTypeOK
<1>5. Rows' /\ Origins'
  <2>1. UNCHANGED <<started, row>> /\ attempts' = attempts \cup {e}
    BY <1>2 DEF RecordForAssignment, RecordEvidence, sessionVars
  <2>2. QED
    BY <1>2, <2>1, RowsKept DEF Typed, Origins, Known
<1>6. QED
  BY <1>3, <1>4, <1>5 DEF RecordForAssignment, Typed, TypeOK, SessionTypeOK, sessionVars, coachVars

LEMMA TypedAbandon ==
  ASSUME Typed, NEW s \in Known, Abandon(s) PROVE Typed'
<1>1. SessionTypeOK'
  BY DEF Abandon, Typed, TypeOK, SessionTypeOK
<1>2. QED
  BY <1>1, RowsKept, OriginsKept DEF Abandon, Typed, TypeOK, AssignmentTypeOK, EvidenceTypeOK,
     assignmentVars, evidenceVars, coachVars

LEMMA TypedCoaching == ASSUME Typed, Coaching PROVE Typed'
<1>1. CASE \E s \in Known : CoachInCore(s)
  <2> SUFFICES ASSUME NEW s \in Known, CoachInCore(s) PROVE Typed'
    BY <1>1
  <2>1. s \in Slots
    BY TargetTyped
  <2>2. SessionTypeOK'
    BY <2>1 DEF CoachInCore, Typed, TypeOK, SessionTypeOK
  <2>3. QED
    BY <2>1, <2>2, RowsKept, OriginsKept DEF CoachInCore, Typed, TypeOK, AssignmentTypeOK,
       EvidenceTypeOK, assignmentVars, evidenceVars
<1>2. CASE CoachInAI \/ CoachLost
  BY <1>2, RowsKept, OriginsKept DEF CoachInAI, CoachLost, Typed, TypeOK, SessionTypeOK,
     AssignmentTypeOK, EvidenceTypeOK, sessionVars, assignmentVars, evidenceVars
<1>3. QED
  BY <1>1, <1>2 DEF Coaching

LEMMA TypedStutter == ASSUME Typed, UNCHANGED vars PROVE Typed'
BY RowsKept, OriginsKept DEF Typed, TypeOK, SessionTypeOK, AssignmentTypeOK, EvidenceTypeOK,
   vars, sessionVars, assignmentVars, evidenceVars, coachVars

LEMMA TypedNext == Typed /\ [Next]_vars => Typed'
<1> SUFFICES ASSUME Typed, [Next]_vars PROVE Typed'
  OBVIOUS
<1>1. CASE \E w \in Work, id \in StartIds \cup {None} : Start(w, id) \/ Continue(w, id)
  BY <1>1, TypedStart, TypedContinue
<1>2. CASE Hinting
  BY <1>2, TypedRevealInSession, TypedRevealForAssignment DEF Hinting
<1>3. CASE Recording
  BY <1>3, TypedRecordForSession, TypedRecordForAssignment DEF Recording
<1>4. CASE \E s \in Known : Abandon(s)
  BY <1>4, TypedAbandon
<1>5. CASE Coaching
  BY <1>5, TypedCoaching
<1>6. CASE UNCHANGED vars
  BY <1>6, TypedStutter
<1>7. QED
  BY <1>1, <1>2, <1>3, <1>4, <1>5, <1>6 DEF Next

LEMMA AlwaysTyped == Spec => []Typed
BY TypedInit, TypedNext, PTL DEF Spec

\* The tables keep their types, whatever is started, revealed, recorded, abandoned and
\* coached, in whatever order.
THEOREM TypeCorrect == Spec => []TypeOK
<1>1. Typed => TypeOK
  BY DEF Typed
<1>2. QED
  BY <1>1, AlwaysTyped, PTL

-----------------------------------------------------------------------------
(* Sessions.                                                               *)

Starting == \E w \in Work, id \in StartIds \cup {None} : Start(w, id)

\* What a start finds: nothing open of its work, nothing started with its id.
LEMMA StartFinds ==
  ASSUME Typed, NEW w \in Work, NEW id \in StartIds \cup {None}, Start(w, id)
  PROVE  /\ OpenSessions(w) = {} /\ StartedWith(id) = {}
         /\ started + 1 \in Slots
         /\ Known' = Known \cup {started + 1}
         /\ started + 1 \notin Known
         /\ row' = [row EXCEPT ![started + 1] = [work |-> w, request |-> id]]
         /\ row'[started + 1] = [work |-> w, request |-> id]
         /\ \A s \in Known : row'[s] = row[s] /\ sStatus'[s] = sStatus[s]
         /\ sStatus'[started + 1] = "active"
         /\ UNCHANGED <<assisted, sHints, assignmentVars, evidenceVars, coachVars>>
<1>1. OpenSessions(w) = {} /\ StartedWith(id) = {}
  BY DEF Start, StartAnswer
<1>2. started \in Nat /\ started' = started + 1 /\ started + 1 \in Slots
  BY ItemsAssumption DEF Typed, TypeOK, SessionTypeOK, Start, Slots
<1>3. Known' = Known \cup {started + 1} /\ started + 1 \notin Known
  BY <1>2 DEF Known
<1>4. \A s \in Known : row'[s] = row[s] /\ sStatus'[s] = sStatus[s]
  BY <1>2, <1>3 DEF Start, Typed, TypeOK, SessionTypeOK, Known, Slots
<1>5. row'[started + 1] = [work |-> w, request |-> id] /\ sStatus'[started + 1] = "active"
  BY <1>2 DEF Start, Typed, TypeOK, SessionTypeOK
<1>6. QED
  BY <1>1, <1>2, <1>3, <1>4, <1>5 DEF Start

\* Every other step leaves the rows alone and opens nothing.
LEMMA NothingStarted ==
  ASSUME Typed, [Next]_vars
  PROVE  \/ Starting
         \/ /\ UNCHANGED <<started, row>>
            /\ \A s \in Known : sStatus'[s] \in {sStatus[s], "completed", "abandoned"}
<1>1. CASE \E w \in Work, id \in StartIds \cup {None} : Start(w, id) \/ Continue(w, id)
  BY <1>1 DEF Starting, Continue
<1>2. CASE Hinting
  BY <1>2 DEF Hinting, RevealInSession, RevealForAssignment, sessionVars
<1>3. CASE \E s \in Known, id \in EventIds, report \in Reports : RecordForSession(s, id, report)
  BY <1>3 DEF RecordForSession, Closed, Typed, TypeOK, SessionTypeOK, Known, Slots
<1>4. CASE \E a \in Assignments, id \in EventIds, report \in Reports :
             RecordForAssignment(a, id, report)
  BY <1>4 DEF RecordForAssignment, sessionVars
<1>5. CASE \E s \in Known : Abandon(s)
  BY <1>5 DEF Abandon, Typed, TypeOK, SessionTypeOK, Known, Slots
<1>6. CASE Coaching
  BY <1>6 DEF Coaching, CoachInCore, CoachInAI, CoachLost, sessionVars
<1>7. CASE UNCHANGED vars
  BY <1>7 DEF vars, sessionVars
<1>8. QED
  BY <1>1, <1>2, <1>3, <1>4, <1>5, <1>6, <1>7 DEF Next, Recording

LEMMA OneOpenNext == Typed /\ OneOpenSession /\ [Next]_vars => OneOpenSession'
<1> SUFFICES ASSUME Typed, OneOpenSession, [Next]_vars PROVE OneOpenSession'
  OBVIOUS
<1>1. ASSUME NEW w \in Work, NEW id \in StartIds \cup {None}, Start(w, id)
      PROVE  OneOpenSession'
  <2>1. /\ OpenSessions(w) = {}
        /\ Known' = Known \cup {started + 1}
        /\ row'[started + 1] = [work |-> w, request |-> id]
        /\ \A s \in Known : row'[s] = row[s] /\ sStatus'[s] = sStatus[s]
    BY <1>1, StartFinds
  <2>2. \A s \in Known : row[s].work = w => sStatus[s] # "active"
    BY <2>1 DEF OpenSessions
  <2>3. row'[started + 1].work = w
    BY <2>1
  <2>4. QED
    BY <2>1, <2>2, <2>3 DEF OneOpenSession
<1>2. CASE /\ UNCHANGED <<started, row>>
           /\ \A s \in Known : sStatus'[s] \in {sStatus[s], "completed", "abandoned"}
  BY <1>2 DEF OneOpenSession, Known
<1>3. QED
  BY <1>1, <1>2, NothingStarted DEF Starting

\* Whatever is started, continued, completed and abandoned in whatever order, at most one
\* session of a work is open.
THEOREM OneOpenSessionHolds == Spec => []OneOpenSession
<1>1. Init => OneOpenSession
  BY DEF Init, OneOpenSession, Known
<1>2. QED
  BY <1>1, OneOpenNext, AlwaysTyped, PTL DEF Spec

\* An id starts one session.
Requests == \A s, t \in Known :
  row[s].request # None /\ row[s].request = row[t].request => s = t

LEMMA RequestsNext == Typed /\ Requests /\ [Next]_vars => Requests'
<1> SUFFICES ASSUME Typed, Requests, [Next]_vars PROVE Requests'
  OBVIOUS
<1>1. ASSUME NEW w \in Work, NEW id \in StartIds \cup {None}, Start(w, id)
      PROVE  Requests'
  <2>1. /\ StartedWith(id) = {}
        /\ Known' = Known \cup {started + 1}
        /\ row'[started + 1] = [work |-> w, request |-> id]
        /\ \A s \in Known : row'[s] = row[s]
    BY <1>1, StartFinds
  <2>2. id # None => \A s \in Known : row[s].request # id
    BY <2>1 DEF StartedWith
  <2>3. row'[started + 1].request = id
    BY <2>1
  <2>4. QED
    BY <2>1, <2>2, <2>3 DEF Requests
<1>2. CASE UNCHANGED <<started, row>>
  BY <1>2 DEF Requests, Known
<1>3. QED
  BY <1>1, <1>2, NothingStarted DEF Starting

LEMMA Retried == Typed /\ Requests => RetryIsAnswered
<1> SUFFICES ASSUME Typed, Requests PROVE RetryIsAnswered
  OBVIOUS
<1>1. ASSUME NEW s \in Known, row[s].request # None
      PROVE  /\ StartAnswer(row[s].work, row[s].request) = "replayed"
             /\ StartedWith(row[s].request) = {s}
  <2>1. StartedWith(row[s].request) = {s}
    BY <1>1 DEF Requests, StartedWith
  <2>2. QED
    BY <2>1 DEF StartAnswer
<1>2. ASSUME NEW e \in attempts, e.session # 0
      PROVE  SessionAnswer(e.session, e.id, e.report) = "duplicate"
  <2>1. e \in Recorded(e.id) /\ SameReport(e, e.session, e.report)
    BY DEF Recorded, SameReport
  <2>2. QED
    BY <2>1 DEF SessionAnswer
<1>3. ASSUME NEW e \in attempts, e.session = 0
      PROVE  AssignmentAnswer(e.assignment, e.id, e.report)
               = IF OpenAssignment(e.assignment) THEN "duplicate" ELSE "conflict"
  <2>1. e \in Recorded(e.id) /\ SameReport(e, 0, e.report)
    BY <1>3 DEF Recorded, SameReport
  <2>2. QED
    BY <2>1 DEF AssignmentAnswer
<1>4. QED
  BY <1>1, <1>2, <1>3 DEF RetryIsAnswered

\* Whatever happened since, a retried start finds the one session it made, and a retried
\* attempt the row it left.
THEOREM RetryIsAnsweredHolds == Spec => []RetryIsAnswered
<1>1. Init => Requests
  BY DEF Init, Requests, Known
<1>2. QED
  BY <1>1, RequestsNext, Retried, AlwaysTyped, PTL DEF Spec

-----------------------------------------------------------------------------
(* What a recorded attempt closes and completes.                           *)

RecordingOfSession ==
  \E s \in Known, id \in EventIds, report \in Reports : RecordForSession(s, id, report)

RecordingOfAssignment ==
  \E a \in Assignments, id \in EventIds, report \in Reports : RecordForAssignment(a, id, report)

\* Only an attempt leaves evidence, completes a session or moves an assignment.
NoEvidence ==
  /\ UNCHANGED <<evidenceVars, aStatus>>
  /\ Known \subseteq Known'
  /\ \A s \in Known : sStatus'[s] = "completed" <=> sStatus[s] = "completed"
  /\ \A s \in Known' \ Known : sStatus'[s] # "completed"

LEMMA NothingRecorded ==
  ASSUME Typed, [Next]_vars
  PROVE  RecordingOfSession \/ RecordingOfAssignment \/ NoEvidence
<1>1. ASSUME NEW w \in Work, NEW id \in StartIds \cup {None}, Start(w, id)
      PROVE  NoEvidence
  <2>1. /\ Known' = Known \cup {started + 1}
        /\ \A s \in Known : sStatus'[s] = sStatus[s]
        /\ sStatus'[started + 1] = "active"
        /\ UNCHANGED <<assignmentVars, evidenceVars>>
    BY <1>1, StartFinds
  <2>2. QED
    BY <2>1 DEF NoEvidence, assignmentVars
<1>2. CASE \E w \in Work, id \in StartIds \cup {None} : Continue(w, id)
  BY <1>2 DEF Continue, NoEvidence, assignmentVars, Known
<1>3. CASE Hinting
  BY <1>3 DEF Hinting, RevealInSession, RevealForAssignment, NoEvidence, sessionVars, Known
<1>4. CASE \E s \in Known : Abandon(s)
  BY <1>4 DEF Abandon, NoEvidence, assignmentVars, Typed, TypeOK, SessionTypeOK, Known, Slots
<1>5. CASE Coaching
  BY <1>5 DEF Coaching, CoachInCore, CoachInAI, CoachLost, NoEvidence, sessionVars,
     assignmentVars, Known
<1>6. CASE UNCHANGED vars
  BY <1>6 DEF vars, NoEvidence, sessionVars, assignmentVars, Known
<1>7. CASE Recording
  BY <1>7 DEF Recording, RecordingOfSession, RecordingOfAssignment
<1>8. QED
  BY <1>1, <1>2, <1>3, <1>4, <1>5, <1>6, <1>7 DEF Next

EvidenceOf(s) == {e \in attempts : e.session = s}

\* A completed session has one attempt, any other none.
Closing == \A s \in Known :
  IF sStatus[s] = "completed" THEN \E e \in attempts : EvidenceOf(s) = {e}
  ELSE EvidenceOf(s) = {}

LEMMA ClosingNext == Typed /\ Closing /\ [Next]_vars => Closing'
<1> SUFFICES ASSUME Typed, Closing, [Next]_vars PROVE Closing'
  OBVIOUS
<1>1. ASSUME NEW s \in Known, NEW id \in EventIds, NEW report \in Reports,
             RecordForSession(s, id, report)
      PROVE  Closing'
  <2>1. PICK e, facts : Attempted(e, facts, ProblemOfSession(s), AssignmentOf(s), s, id, report,
                                  HintOf(s))
    BY <1>1, SessionEvidence
  <2>2. attempts' = attempts \cup {e} /\ e.session = s
    BY <2>1 DEF Attempted, RecordEvidence
  <2>3. sStatus[s] = "active"
    BY <1>1 DEF RecordForSession, SessionAnswer
  <2>4. Known' = Known /\ \A t \in Known : sStatus'[t] = IF t = s THEN "completed" ELSE sStatus[t]
    <3>1. \A t \in Known : t \in Slots
      BY TargetTyped
    <3>2. started' = started /\ sStatus' = [sStatus EXCEPT ![s] = "completed"]
      BY <1>1 DEF RecordForSession, Closed
    <3>3. QED
      BY <3>1, <3>2 DEF Known, Typed, TypeOK, SessionTypeOK
  <2>5. EvidenceOf(s)' = {e}
    BY <2>2, <2>3 DEF Closing, EvidenceOf
  <2>6. \A t \in Known : t # s => EvidenceOf(t)' = EvidenceOf(t)
    BY <2>2 DEF EvidenceOf
  <2>7. QED
    BY <2>2, <2>4, <2>5, <2>6 DEF Closing
<1>2. ASSUME NEW a \in Assignments, NEW id \in EventIds, NEW report \in Reports,
             RecordForAssignment(a, id, report)
      PROVE  Closing'
  <2>1. PICK e, facts : Attempted(e, facts, ProblemOf[a], a, 0, id, report, aHint[a])
    BY <1>2, AssignmentEvidence
  <2>2. attempts' = attempts \cup {e} /\ e.session = 0
    BY <2>1 DEF Attempted, RecordEvidence
  <2>3. \A t \in Known : EvidenceOf(t)' = EvidenceOf(t)
    BY <2>2 DEF EvidenceOf, Known
  <2>4. Known' = Known /\ sStatus' = sStatus
    BY <1>2 DEF RecordForAssignment, sessionVars, Known
  <2>5. QED
    BY <2>2, <2>3, <2>4 DEF Closing
<1>3. CASE NoEvidence
  <2>1. attempts' = attempts
    BY <1>3 DEF NoEvidence, evidenceVars
  <2>2. \A s \in Known' : EvidenceOf(s)' = EvidenceOf(s)
    BY <2>1 DEF EvidenceOf
  <2>3. \A s \in Known' \ Known : EvidenceOf(s) = {}
    BY DEF Typed, Origins, EvidenceOf, Known
  <2>4. QED
    BY <1>3, <2>1, <2>2, <2>3 DEF Closing, NoEvidence
<1>4. QED
  BY <1>1, <1>2, <1>3, NothingRecorded DEF RecordingOfSession, RecordingOfAssignment

\* However two requests, two endpoints and an abandonment race for a session, exactly the
\* attempt that completed it is recorded for it.
THEOREM ClosedWithItsAttemptHolds == Spec => []ClosedWithItsAttempt
<1>1. Init => Closing
  BY DEF Init, Closing, Known
<1>2. Closing => ClosedWithItsAttempt
  <2> SUFFICES ASSUME Closing, NEW s \in Known
               PROVE  Cardinality(EvidenceOf(s)) = IF sStatus[s] = "completed" THEN 1 ELSE 0
    BY DEF ClosedWithItsAttempt, EvidenceOf
  <2>1. CASE sStatus[s] = "completed"
    BY <2>1, FS_Singleton DEF Closing
  <2>2. CASE sStatus[s] # "completed"
    BY <2>2, FS_EmptySet DEF Closing
  <2>3. QED
    BY <2>1, <2>2
<1>3. QED
  BY <1>1, <1>2, ClosingNext, AlwaysTyped, PTL DEF Spec

-----------------------------------------------------------------------------
IndependentGreens(a) ==
  {e \in attempts : e.assignment = a /\ e.result = "green" /\ e.independent}

\* A completed assignment has one independent green, any other none.
Completing == \A a \in Assignments :
  IF aStatus[a] = "completed" THEN \E e \in attempts : IndependentGreens(a) = {e}
  ELSE IndependentGreens(a) = {}

\* What an attempt on an assignment does to it, whichever endpoint recorded it.
LEMMA CompletedBy ==
  ASSUME Typed, Completing, NEW a \in Assignments, NEW e, NEW facts, OpenAssignment(a),
         e.assignment = a, e.result = facts.result, e.independent = facts.independent,
         attempts' = attempts \cup {e}, Transition(a, facts)
  PROVE  Completing'
<1>1. \A b \in Assignments :
        aStatus'[b] = IF b # a THEN aStatus[b]
                      ELSE IF Completes(facts) THEN "completed" ELSE "carryover"
  BY DEF Transition, Typed, TypeOK, AssignmentTypeOK
<1>2. \A b \in Assignments : b # a => IndependentGreens(b)' = IndependentGreens(b)
  BY DEF IndependentGreens
<1>3. IndependentGreens(a) = {}
  BY DEF Completing, OpenAssignment
<1>4. IndependentGreens(a)' = IF Completes(facts) THEN {e} ELSE {}
  <2>1. IndependentGreens(a)' = {f \in attempts \cup {e} :
                                  f.assignment = a /\ f.result = "green" /\ f.independent}
    BY DEF IndependentGreens
  <2>2. CASE Completes(facts)
    BY <1>3, <2>1, <2>2 DEF IndependentGreens, Completes
  <2>3. CASE ~Completes(facts)
    BY <1>3, <2>1, <2>3 DEF IndependentGreens, Completes
  <2>4. QED
    BY <2>2, <2>3
<1>5. QED
  BY <1>1, <1>2, <1>4 DEF Completing

LEMMA CompletingNext == Typed /\ Completing /\ [Next]_vars => Completing'
<1> SUFFICES ASSUME Typed, Completing, [Next]_vars PROVE Completing'
  OBVIOUS
<1>1. ASSUME NEW s \in Known, NEW id \in EventIds, NEW report \in Reports,
             RecordForSession(s, id, report)
      PROVE  Completing'
  <2>1. PICK e, facts :
          /\ Attempted(e, facts, ProblemOfSession(s), AssignmentOf(s), s, id, report, HintOf(s))
          /\ IF Scheduled(s) THEN Transition(TargetOf(s), facts) ELSE UNCHANGED <<aStatus, aHint>>
    BY <1>1, SessionEvidence
  <2>2. /\ attempts' = attempts \cup {e} /\ e.assignment = AssignmentOf(s)
        /\ e.result = facts.result /\ e.independent = facts.independent
    BY <2>1 DEF Attempted, RecordEvidence
  <2>3. CASE Scheduled(s)
    <3>1. TargetOf(s) \in Assignments /\ OpenAssignment(TargetOf(s))
      BY <1>1, <2>3, TargetTyped DEF RecordForSession, SessionAnswer
    <3>2. QED
      BY <2>1, <2>2, <2>3, <3>1, CompletedBy DEF AssignmentOf
  <2>4. CASE ~Scheduled(s)
    <3>1. \A a \in Assignments : IndependentGreens(a)' = IndependentGreens(a)
      BY <2>2, <2>4, NullAssumption DEF IndependentGreens, AssignmentOf
    <3>2. QED
      BY <2>1, <2>2, <2>4, <3>1 DEF Completing
  <2>5. QED
    BY <2>3, <2>4
<1>2. ASSUME NEW a \in Assignments, NEW id \in EventIds, NEW report \in Reports,
             RecordForAssignment(a, id, report)
      PROVE  Completing'
  <2>1. PICK e, facts : Attempted(e, facts, ProblemOf[a], a, 0, id, report, aHint[a])
                        /\ Transition(a, facts)
    BY <1>2, AssignmentEvidence
  <2>2. /\ attempts' = attempts \cup {e} /\ e.assignment = a
        /\ e.result = facts.result /\ e.independent = facts.independent
    BY <2>1 DEF Attempted, RecordEvidence
  <2>3. OpenAssignment(a)
    BY <1>2 DEF RecordForAssignment, AssignmentAnswer
  <2>4. QED
    BY <2>1, <2>2, <2>3, CompletedBy
<1>3. CASE NoEvidence
  BY <1>3 DEF NoEvidence, evidenceVars, Completing, IndependentGreens
<1>4. QED
  BY <1>1, <1>2, <1>3, NothingRecorded DEF RecordingOfSession, RecordingOfAssignment

\* Whichever endpoint records an attempt, and however many sessions of it are open, an
\* assignment is completed by an independent green and by no second one.
THEOREM CompletedByIndependentGreenHolds == Spec => []CompletedByIndependentGreen
<1>1. Init => Completing
  BY DEF Init, Completing, IndependentGreens
<1>2. Completing => CompletedByIndependentGreen
  <2> SUFFICES ASSUME Completing, NEW a \in Assignments
               PROVE  Cardinality(IndependentGreens(a)) = IF aStatus[a] = "completed" THEN 1 ELSE 0
    BY DEF CompletedByIndependentGreen, IndependentGreens
  <2>1. CASE aStatus[a] = "completed"
    BY <2>1, FS_Singleton DEF Completing
  <2>2. CASE aStatus[a] # "completed"
    BY <2>2, FS_EmptySet DEF Completing
  <2>3. QED
    BY <2>1, <2>2
<1>3. QED
  BY <1>1, <1>2, CompletingNext, AlwaysTyped, PTL DEF Spec

\* A step adds no attempt of a completed assignment, and leaves it completed.
LEMMA FinalStep ==
  ASSUME Typed, [Next]_vars, NEW a \in Assignments, aStatus[a] = "completed"
  PROVE  aStatus'[a] = "completed" /\ \A e \in NewAttempts : e.assignment # a
<1>1. ASSUME NEW s \in Known, NEW id \in EventIds, NEW report \in Reports,
             RecordForSession(s, id, report)
      PROVE  aStatus'[a] = "completed" /\ \A e \in NewAttempts : e.assignment # a
  <2>1. PICK e, facts :
          /\ Attempted(e, facts, ProblemOfSession(s), AssignmentOf(s), s, id, report, HintOf(s))
          /\ IF Scheduled(s) THEN Transition(TargetOf(s), facts) ELSE UNCHANGED <<aStatus, aHint>>
    BY <1>1, SessionEvidence
  <2>2. NewAttempts \subseteq {e} /\ e.assignment = AssignmentOf(s)
    BY <2>1 DEF Attempted, RecordEvidence, NewAttempts
  <2>3. Scheduled(s) => TargetOf(s) # a
    BY <1>1 DEF RecordForSession, SessionAnswer, OpenAssignment
  <2>4. aStatus'[a] = aStatus[a]
    BY <2>1, <2>3 DEF Transition, Typed, TypeOK, AssignmentTypeOK
  <2>5. AssignmentOf(s) # a
    BY <2>3, NullAssumption DEF AssignmentOf
  <2>6. QED
    BY <2>2, <2>4, <2>5
<1>2. ASSUME NEW b \in Assignments, NEW id \in EventIds, NEW report \in Reports,
             RecordForAssignment(b, id, report)
      PROVE  aStatus'[a] = "completed" /\ \A e \in NewAttempts : e.assignment # a
  <2>1. PICK e, facts : Attempted(e, facts, ProblemOf[b], b, 0, id, report, aHint[b])
                        /\ Transition(b, facts)
    BY <1>2, AssignmentEvidence
  <2>2. NewAttempts \subseteq {e} /\ e.assignment = b
    BY <2>1 DEF Attempted, RecordEvidence, NewAttempts
  <2>3. b # a
    BY <1>2 DEF RecordForAssignment, AssignmentAnswer, OpenAssignment
  <2>4. QED
    BY <2>1, <2>2, <2>3 DEF Transition, Typed, TypeOK, AssignmentTypeOK
<1>3. CASE NoEvidence
  BY <1>3 DEF NoEvidence, evidenceVars, NewAttempts
<1>4. QED
  BY <1>1, <1>2, <1>3, NothingRecorded DEF RecordingOfSession, RecordingOfAssignment

\* A session left open, a second endpoint, a late retry: none of them reopens a completed
\* assignment or adds evidence to it.
THEOREM CompletedIsFinalHolds == Spec => CompletedIsFinal
<1>1. Typed /\ [Next]_vars =>
        [\A a \in Assignments : aStatus[a] = "completed" =>
           /\ aStatus'[a] = "completed"
           /\ \A e \in NewAttempts : e.assignment # a]_vars
  BY FinalStep
<1>2. QED
  BY <1>1, AlwaysTyped, PTL DEF Spec, CompletedIsFinal

-----------------------------------------------------------------------------
(* What is counted.                                                        *)

CountedOf(p) == {e \in attempts : e.problem = p /\ e.result # "skipped"}

Counting == IsFiniteSet(attempts) /\ EvidenceCounted

\* Evidence with an event id nobody used counts once.
LEMMA CountedOnce ==
  ASSUME Typed, Counting, NEW e, NEW facts, NEW p \in Problems, NEW id, NEW report, NEW hint,
         NEW a, NEW s, Attempted(e, facts, p, a, s, id, report, hint), Recorded(id) = {}
  PROVE  Counting'
<1>1. /\ e.id = id /\ e.problem = p /\ e.result = facts.result
      /\ attempts' = attempts \cup {e}
      /\ evidence' = [evidence EXCEPT ![p] = IF Counts(facts) THEN @ + 1 ELSE @]
      /\ review' = [review EXCEPT ![p] = IF Counts(facts) THEN id ELSE @]
  BY DEF Attempted, RecordEvidence
<1>2. e \notin attempts
  BY <1>1 DEF Recorded
<1>3. IsFiniteSet(attempts')
  BY <1>1, FS_AddElement DEF Counting
<1>4. \A q \in Problems : IsFiniteSet(CountedOf(q))
  BY FS_Subset DEF Counting, CountedOf
<1>5. ASSUME NEW q \in Problems
      PROVE  /\ evidence'[q] = Cardinality(CountedOf(q)')
             /\ IF CountedOf(q)' = {} THEN review'[q] = None
                ELSE review'[q] \in {f.id : f \in CountedOf(q)'}
  <2>1. /\ evidence[q] = Cardinality(CountedOf(q))
        /\ IF CountedOf(q) = {} THEN review[q] = None ELSE review[q] \in {f.id : f \in CountedOf(q)}
    BY DEF Counting, EvidenceCounted, CountedOf
  <2>2. CASE q = p /\ Counts(facts)
    <3>1. CountedOf(q)' = CountedOf(q) \cup {e}
      BY <1>1, <2>2 DEF CountedOf, Counts
    <3>2. e \notin CountedOf(q)
      BY <1>2 DEF CountedOf
    <3>3. Cardinality(CountedOf(q)') = Cardinality(CountedOf(q)) + 1
      BY <1>4, <3>1, <3>2, FS_AddElement
    <3>4. evidence'[q] = evidence[q] + 1 /\ review'[q] = e.id
      BY <1>1, <2>2 DEF Typed, TypeOK, EvidenceTypeOK
    <3>5. QED
      BY <2>1, <3>1, <3>3, <3>4
  <2>3. CASE ~(q = p /\ Counts(facts))
    <3>1. CountedOf(q)' = CountedOf(q)
      BY <1>1, <2>3 DEF CountedOf, Counts
    <3>2. evidence'[q] = evidence[q] /\ review'[q] = review[q]
      BY <1>1, <2>3 DEF Typed, TypeOK, EvidenceTypeOK
    <3>3. QED
      BY <2>1, <3>1, <3>2
  <2>4. QED
    BY <2>2, <2>3
<1>6. EvidenceCounted'
  BY <1>5 DEF EvidenceCounted, CountedOf
<1>7. QED
  BY <1>3, <1>6 DEF Counting

LEMMA CountingNext == Typed /\ Counting /\ [Next]_vars => Counting'
<1> SUFFICES ASSUME Typed, Counting, [Next]_vars PROVE Counting'
  OBVIOUS
<1>1. ASSUME NEW s \in Known, NEW id \in EventIds, NEW report \in Reports,
             RecordForSession(s, id, report)
      PROVE  Counting'
  <2>1. ProblemOfSession(s) \in Problems
    BY TargetTyped
  <2>2. Recorded(id) = {}
    BY <1>1 DEF RecordForSession, SessionAnswer
  <2>3. QED
    BY <1>1, <2>1, <2>2, SessionEvidence, CountedOnce
<1>2. ASSUME NEW a \in Assignments, NEW id \in EventIds, NEW report \in Reports,
             RecordForAssignment(a, id, report)
      PROVE  Counting'
  <2>1. ProblemOf[a] \in Problems
    BY ItemsAssumption
  <2>2. Recorded(id) = {}
    BY <1>2 DEF RecordForAssignment, AssignmentAnswer
  <2>3. QED
    BY <1>2, <2>1, <2>2, AssignmentEvidence, CountedOnce
<1>3. CASE NoEvidence
  BY <1>3 DEF NoEvidence, evidenceVars, Counting, EvidenceCounted
<1>4. QED
  BY <1>1, <1>2, <1>3, NothingRecorded DEF RecordingOfSession, RecordingOfAssignment

\* However often an attempt is sent, to whichever endpoint, memory counts it once.
THEOREM EvidenceCountedHolds == Spec => []EvidenceCounted
<1>1. Init => Counting
  BY FS_EmptySet DEF Init, Counting, EvidenceCounted
<1>2. Counting => EvidenceCounted
  BY DEF Counting
<1>3. QED
  BY <1>1, <1>2, CountingNext, AlwaysTyped, PTL DEF Spec

-----------------------------------------------------------------------------
(* Coaching.                                                               *)

\* Core knows of every coaching the AI database may ever know of.
Assisting ==
  /\ coached \subseteq Known /\ \A s \in coached : assisted[s]
  /\ accepting # 0 => accepting \in Known /\ assisted[accepting]

LEMMA AssistingNext == Typed /\ Assisting /\ [Next]_vars => Assisting'
<1> SUFFICES ASSUME Typed, Assisting, [Next]_vars PROVE Assisting'
  OBVIOUS
<1>1. CASE \E s \in Known : CoachInCore(s)
  BY <1>1, TargetTyped DEF CoachInCore, Assisting, Known, Typed, TypeOK, SessionTypeOK
<1>2. CASE CoachInAI \/ CoachLost
  BY <1>2 DEF CoachInAI, CoachLost, Assisting, Known, sessionVars
<1>3. ASSUME NEW w \in Work, NEW id \in StartIds \cup {None}, Start(w, id)
      PROVE  Assisting'
  <2>1. Known' = Known \cup {started + 1} /\ UNCHANGED <<assisted, coachVars>>
    BY <1>3, StartFinds
  <2>2. QED
    BY <2>1 DEF Assisting, coachVars
<1>4. CASE UNCHANGED <<started, assisted, coachVars>>
  BY <1>4 DEF Assisting, Known, coachVars
<1>5. ~Coaching /\ ~Starting => UNCHANGED <<started, assisted, coachVars>>
  BY DEF Next, Starting, Continue, Hinting, RevealInSession, RevealForAssignment, Recording,
     RecordForSession, RecordForAssignment, Abandon, vars, sessionVars
<1>6. QED
  BY <1>1, <1>2, <1>3, <1>4, <1>5 DEF Coaching, Starting

LEMMA CoachedStep ==
  ASSUME Typed, Assisting, [Next]_vars, NEW e \in NewAttempts, e.session \in coached
  PROVE  ~e.independent
<1>1. assisted[e.session] /\ e.session # 0
  <2>1. e.session \in Known /\ assisted[e.session]
    BY DEF Assisting
  <2>2. 0 \notin Slots
    BY DEF Slots
  <2>3. QED
    BY <2>1, <2>2, TargetTyped
<1>2. ASSUME NEW s \in Known, NEW id \in EventIds, NEW report \in Reports,
             RecordForSession(s, id, report)
      PROVE  ~e.independent
  <2>1. PICK f, facts :
          /\ Attempted(f, facts, ProblemOfSession(s), AssignmentOf(s), s, id, report, HintOf(s))
          /\ assisted[s] => ~facts.independent
    BY <1>2, SessionEvidence
  <2>2. e = f /\ f.session = s /\ f.independent = facts.independent
    BY <2>1 DEF Attempted, RecordEvidence, NewAttempts
  <2>3. QED
    BY <1>1, <2>1, <2>2
<1>3. ASSUME NEW a \in Assignments, NEW id \in EventIds, NEW report \in Reports,
             RecordForAssignment(a, id, report)
      PROVE  FALSE
  <2>1. PICK f, facts : Attempted(f, facts, ProblemOf[a], a, 0, id, report, aHint[a])
    BY <1>3, AssignmentEvidence
  <2>2. e.session = 0
    BY <2>1 DEF Attempted, RecordEvidence, NewAttempts
  <2>3. QED
    BY <1>1, <2>2
<1>4. ~NoEvidence
  BY DEF NoEvidence, evidenceVars, NewAttempts
<1>5. QED
  BY <1>2, <1>3, <1>4, NothingRecorded DEF RecordingOfSession, RecordingOfAssignment

\* Whatever is lost between the two databases, coached work never counts as independent.
THEOREM CoachedIsNotIndependentHolds == Spec => CoachedIsNotIndependent
<1>1. Init => Assisting
  BY DEF Init, Assisting
<1>2. Typed /\ Assisting /\ [Next]_vars =>
        [\A e \in NewAttempts : e.session \in coached => ~e.independent]_vars
  BY CoachedStep
<1>3. QED
  BY <1>1, <1>2, AssistingNext, AlwaysTyped, PTL DEF Spec, CoachedIsNotIndependent

-----------------------------------------------------------------------------
(* The hint ladder.                                                        *)

\* An assignment's hints were revealed in order, down to its current one. (A blind retry
\* forgets the current one and keeps the events.)
Climbed == \A a \in Assignments :
  /\ \A l \in aHints[a], k \in Levels : k <= l => k \in aHints[a]
  /\ \A k \in Levels : k <= aHint[a] => k \in aHints[a]

\* What a scheduled session counts its assignment was shown; extra practice counts what it
\* revealed itself.
ClimbedIn(s) ==
  IF Scheduled(s)
  THEN /\ \A k \in Levels : k <= sHint[s] => k \in aHints[TargetOf(s)]
       /\ \A k \in sHints[s] : k <= sHint[s]
  ELSE \A k \in Levels : k \in sHints[s] <=> k <= sHint[s]

SessionsClimbed ==
  /\ \A s \in Known : ClimbedIn(s)
  /\ \A s \in Slots : s \notin Known => sHints[s] = {}

\* The evidence of extra practice carries the hint its closed session ended on.
Carried == \A e \in attempts : e.session # 0 /\ e.assignment = None =>
  /\ sStatus[e.session] = "completed" /\ ~Scheduled(e.session)
  /\ e.hint = sHint[e.session]
  /\ e.independent => e.hint = 0

Ladder == Climbed /\ SessionsClimbed /\ Carried

\* A step that reveals nothing to an assignment may still forget its current hint.
LEMMA ClimbedKept ==
  ASSUME Typed, Climbed, aHints' = aHints,
         \A a \in Assignments : aHint'[a] \in {0, aHint[a]}
  PROVE  Climbed'
BY ItemsAssumption DEF Climbed, Typed, TypeOK, AssignmentTypeOK, Levels

LEMMA LadderStart ==
  ASSUME Typed, Ladder, NEW w \in Work, NEW id \in StartIds \cup {None}, Start(w, id)
  PROVE  Ladder'
<1>0. PICK n : n = started + 1
  OBVIOUS
<1>1. /\ Known' = Known \cup {n} /\ n \notin Known /\ n \in Slots
      /\ row'[n] = [work |-> w, request |-> id]
      /\ \A s \in Known : row'[s] = row[s] /\ sStatus'[s] = sStatus[s]
      /\ UNCHANGED <<sHints, assignmentVars, evidenceVars>>
  BY <1>0, StartFinds
<1>2. /\ \A s \in Slots : s # n => sHint'[s] = sHint[s]
      /\ sHint'[n] = IF w.origin = "scheduled" THEN aHint[w.target] ELSE 0
  BY <1>0, <1>1 DEF Start, Typed, TypeOK, SessionTypeOK
<1>3. Climbed'
  BY <1>1, ClimbedKept DEF Ladder, assignmentVars
<1>4. \A s \in Known : ClimbedIn(s)'
  <2> SUFFICES ASSUME NEW s \in Known PROVE ClimbedIn(s)'
    OBVIOUS
  <2>1. s # n /\ s \in Slots /\ row'[s] = row[s]
    BY <1>1, TargetTyped
  <2>2. sHint'[s] = sHint[s] /\ sHints' = sHints /\ aHints' = aHints
    BY <1>1, <1>2, <2>1 DEF assignmentVars
  <2>3. QED
    BY <2>1, <2>2 DEF Ladder, SessionsClimbed, ClimbedIn, Scheduled, TargetOf
<1>5. ClimbedIn(n)'
  <2>1. sHints'[n] = {} /\ aHints' = aHints
    BY <1>1 DEF Ladder, SessionsClimbed, assignmentVars
  <2>2. row'[n].work = w
    BY <1>1
  <2>3. CASE w.origin = "scheduled"
    <3>1. w.target \in Assignments
      BY <2>3 DEF Work
    <3>2. QED
      BY <1>2, <2>1, <2>2, <2>3, <3>1 DEF Ladder, Climbed, ClimbedIn, Scheduled, TargetOf
  <2>4. CASE w.origin # "scheduled"
    BY <1>2, <2>1, <2>2, <2>4, ItemsAssumption DEF ClimbedIn, Scheduled, Levels
  <2>5. QED
    BY <2>3, <2>4
<1>6. SessionsClimbed'
  BY <1>1, <1>4, <1>5 DEF Ladder, SessionsClimbed
<1>7. Carried'
  <2> SUFFICES ASSUME NEW e \in attempts, e.session # 0, e.assignment = None
               PROVE  /\ sStatus'[e.session] = "completed" /\ ~Scheduled(e.session)'
                      /\ e.hint = sHint'[e.session]
                      /\ e.independent => e.hint = 0
    BY <1>1 DEF Carried, evidenceVars
  <2>1. e.session \in Known
    BY DEF Typed, Origins
  <2>2. e.session # n /\ e.session \in Slots
    BY <1>1, <2>1, TargetTyped
  <2>3. QED
    BY <1>1, <1>2, <2>1, <2>2 DEF Ladder, Carried, Scheduled
<1>8. QED
  BY <1>3, <1>6, <1>7 DEF Ladder

\* Reveals and continuations: the counted hint of one active session rises, or a level is
\* added to what one session or assignment was shown.
LEMMA CarriedKept ==
  ASSUME Typed, Carried, UNCHANGED <<started, row, attempts>>,
         \A s \in Known : sStatus[s] = "completed" => sStatus'[s] = "completed" /\ sHint'[s] = sHint[s]
  PROVE  Carried'
<1> SUFFICES ASSUME NEW e \in attempts, e.session # 0, e.assignment = None
             PROVE  /\ sStatus'[e.session] = "completed" /\ ~Scheduled(e.session)'
                    /\ e.hint = sHint'[e.session]
                    /\ e.independent => e.hint = 0
  BY DEF Carried
<1>1. e.session \in Known
  BY DEF Typed, Origins
<1>2. QED
  BY <1>1 DEF Carried, Scheduled

LEMMA LadderContinue ==
  ASSUME Typed, Ladder, NEW w \in Work, NEW id \in StartIds \cup {None}, Continue(w, id)
  PROVE  Ladder'
<1>1. PICK s \in OpenSessions(w) :
        aHint[w.target] > sHint[s] /\ sHint' = [sHint EXCEPT ![s] = aHint[w.target]]
  BY DEF Continue
<1>2. s \in Known /\ s \in Slots /\ row[s].work = w /\ sStatus[s] = "active" /\ Scheduled(s)
  BY TargetTyped DEF OpenSessions, Continue, Scheduled
<1>3. UNCHANGED <<started, row, sStatus, sHints, aHint, aHints, attempts>>
  BY DEF Continue, assignmentVars, evidenceVars
<1>4. TargetOf(s) = w.target /\ w.target \in Assignments
  BY <1>2, TargetTyped DEF TargetOf
<1>5. \A t \in Known : t \in Slots /\ sHint'[t] = IF t = s THEN aHint[w.target] ELSE sHint[t]
  BY <1>1, TargetTyped DEF Typed, TypeOK, SessionTypeOK
<1>6. Climbed'
  BY <1>3, ClimbedKept DEF Ladder
<1>7. ClimbedIn(s)'
  <2>1. aHint[w.target] \in Nat /\ sHint[s] \in Nat /\ sHints[s] \subseteq Levels /\ sHint[s] < aHint[w.target]
    <3>1. aHint[w.target] \in 0..MaxHint /\ sHint[s] \in 0..MaxHint /\ sHints[s] \subseteq Levels
      BY <1>2, <1>4 DEF Typed, TypeOK, SessionTypeOK, AssignmentTypeOK
    <3>2. QED
      BY <1>1, <3>1
  <2>2. QED
    BY <1>2, <1>3, <1>4, <1>5, <2>1 DEF Ladder, Climbed, SessionsClimbed, ClimbedIn, Scheduled,
       TargetOf, Levels
<1>8. \A t \in Known : t # s => ClimbedIn(t)'
  BY <1>3, <1>5 DEF Ladder, SessionsClimbed, ClimbedIn, Scheduled, TargetOf
<1>9. SessionsClimbed'
  BY <1>3, <1>7, <1>8 DEF Ladder, SessionsClimbed, Known
<1>10. Carried'
  BY <1>2, <1>3, <1>5, CarriedKept DEF Ladder
<1>11. QED
  BY <1>6, <1>9, <1>10 DEF Ladder

\* A level next to those an assignment was shown, or to those a session counts.
LEMMA ClimbedFurther ==
  ASSUME Typed, Climbed, NEW a \in Assignments, NEW l \in Levels,
         \A k \in Levels : k < l => k \in aHints[a],
         aHints' = [aHints EXCEPT ![a] = @ \cup {l}],
         aHint' = [aHint EXCEPT ![a] = IF l > @ THEN l ELSE @]
  PROVE  Climbed'
<1> SUFFICES ASSUME NEW b \in Assignments
             PROVE  /\ \A m \in aHints'[b], k \in Levels : k <= m => k \in aHints'[b]
                    /\ \A k \in Levels : k <= aHint'[b] => k \in aHints'[b]
  BY DEF Climbed
<1>1. aHints[b] \subseteq Levels /\ aHint[b] \in 0..MaxHint
  BY DEF Typed, TypeOK, AssignmentTypeOK
<1>2. CASE b # a
  <2>1. aHints'[b] = aHints[b] /\ aHint'[b] = aHint[b]
    BY <1>2 DEF Typed, TypeOK, AssignmentTypeOK
  <2>2. QED
    BY <2>1 DEF Climbed
<1>3. CASE b = a
  <2>1. aHints'[b] = aHints[b] \cup {l} /\ aHint'[b] = IF l > aHint[b] THEN l ELSE aHint[b]
    BY <1>3 DEF Typed, TypeOK, AssignmentTypeOK
  <2>2. \A k \in Levels : k <= l => k \in aHints'[b]
    BY <1>3, <2>1, ItemsAssumption DEF Levels
  <2>3. QED
    BY <1>1, <1>3, <2>1, <2>2 DEF Climbed
<1>4. QED
  BY <1>2, <1>3

LEMMA LadderRevealForAssignment ==
  ASSUME Typed, Ladder, NEW a \in Assignments, NEW l \in Levels, RevealForAssignment(a, l)
  PROVE  Ladder'
<1>1. UNCHANGED <<started, row, sStatus, sHint, sHints, attempts>> /\ l = aHint[a] + 1
  BY DEF RevealForAssignment, NextLevel, sessionVars, evidenceVars
<1>2. aHint[a] \in 0..MaxHint
  BY DEF Typed, TypeOK, AssignmentTypeOK
<1>3. aHints' = [aHints EXCEPT ![a] = @ \cup {l}]
  BY DEF RevealForAssignment
<1>4. aHint' = [aHint EXCEPT ![a] = IF l > @ THEN l ELSE @]
  <2>1. l > aHint[a]
    BY <1>1, <1>2
  <2>2. aHint' = [aHint EXCEPT ![a] = l]
    BY DEF RevealForAssignment
  <2>3. QED
    BY <2>1, <2>2
<1>5. \A k \in Levels : k < l => k \in aHints[a]
  BY <1>1, <1>2, ItemsAssumption DEF Ladder, Climbed, Levels
<1>6. Climbed'
  BY <1>3, <1>4, <1>5, ClimbedFurther DEF Ladder
<1>7. \A b \in Assignments : aHints[b] \subseteq aHints'[b]
  BY <1>3 DEF Typed, TypeOK, AssignmentTypeOK
<1>8. \A s \in Known : ClimbedIn(s)'
  <2> SUFFICES ASSUME NEW s \in Known PROVE ClimbedIn(s)'
    OBVIOUS
  <2>1. Scheduled(s) => TargetOf(s) \in Assignments
    BY TargetTyped
  <2>2. QED
    BY <1>1, <1>7, <2>1 DEF Ladder, SessionsClimbed, ClimbedIn, Scheduled, TargetOf
<1>9. SessionsClimbed'
  BY <1>1, <1>8 DEF Ladder, SessionsClimbed, Known
<1>10. Carried'
  BY <1>1, CarriedKept DEF Ladder
<1>11. QED
  BY <1>6, <1>9, <1>10 DEF Ladder

LEMMA LadderRevealInSession ==
  ASSUME Typed, Ladder, NEW s \in Known, NEW l \in Levels, RevealInSession(s, l)
  PROVE  Ladder'
<1>1. /\ UNCHANGED <<started, row, sStatus, attempts>> /\ sStatus[s] = "active"
      /\ sHints' = [sHints EXCEPT ![s] = @ \cup {l}]
  BY DEF RevealInSession, evidenceVars
<1>2. s \in Slots /\ (Scheduled(s) => TargetOf(s) \in Assignments) /\ sHint[s] \in 0..MaxHint
  BY TargetTyped DEF Typed, TypeOK, SessionTypeOK
<1>3. sHints[s] \subseteq Levels /\ \A t \in Known : t \in Slots
  BY <1>2, TargetTyped DEF Typed, TypeOK, SessionTypeOK
<1>4. /\ sHints'[s] = sHints[s] \cup {l}
      /\ \A t \in Slots : t # s => sHints'[t] = sHints[t]
  BY <1>1, <1>2 DEF Typed, TypeOK, SessionTypeOK
<1>5. CASE /\ NextLevel(sHint[s], l)
           /\ sHint' = [sHint EXCEPT ![s] = l]
           /\ Mirror(s, l)
  <2>1. /\ l = sHint[s] + 1 /\ sHint'[s] = l
        /\ \A t \in Slots : t # s => sHint'[t] = sHint[t]
    BY <1>2, <1>5 DEF NextLevel, Typed, TypeOK, SessionTypeOK
  <2>2. Climbed' /\ \A b \in Assignments : aHints[b] \subseteq aHints'[b]
    <3>1. CASE Scheduled(s)
      <4>1. \A k \in Levels : k < l => k \in aHints[TargetOf(s)]
        BY <1>2, <2>1, <3>1, ItemsAssumption DEF Ladder, SessionsClimbed, ClimbedIn, Levels
      <4>2. /\ aHints' = [aHints EXCEPT ![TargetOf(s)] = @ \cup {l}]
            /\ aHint' = [aHint EXCEPT ![TargetOf(s)] = IF l > @ THEN l ELSE @]
        BY <1>5, <3>1 DEF Mirror
      <4>3. Climbed'
        BY <1>2, <3>1, <4>1, <4>2, ClimbedFurther DEF Ladder
      <4>4. QED
        BY <1>2, <3>1, <4>2, <4>3 DEF Typed, TypeOK, AssignmentTypeOK
    <3>2. CASE ~Scheduled(s)
      <4>1. UNCHANGED <<aHint, aHints>>
        BY <1>5, <3>2 DEF Mirror
      <4>2. QED
        BY <4>1, ClimbedKept DEF Ladder
    <3>3. QED
      BY <3>1, <3>2
  <2>3. ClimbedIn(s)'
    <3>1. CASE Scheduled(s)
      <4>1. l \in aHints'[TargetOf(s)]
        BY <1>2, <1>5, <3>1 DEF Mirror, Typed, TypeOK, AssignmentTypeOK
      <4>2. \A k \in Levels : k <= l => k \in aHints'[TargetOf(s)]
        BY <1>2, <2>1, <2>2, <3>1, <4>1, ItemsAssumption DEF Ladder, SessionsClimbed, ClimbedIn, Levels
      <4>3. \A k \in sHints'[s] : k <= l
        BY <1>2, <1>3, <1>4, <2>1, <3>1, ItemsAssumption DEF Ladder, SessionsClimbed, ClimbedIn, Levels
      <4>4. QED
        BY <1>1, <2>1, <3>1, <4>2, <4>3 DEF ClimbedIn, Scheduled, TargetOf
    <3>2. CASE ~Scheduled(s)
      <4>1. \A k \in Levels : k \in sHints'[s] <=> k <= l
        BY <1>2, <1>4, <2>1, <3>2, ItemsAssumption DEF Ladder, SessionsClimbed, ClimbedIn, Levels
      <4>2. QED
        BY <1>1, <2>1, <3>2, <4>1 DEF ClimbedIn, Scheduled
    <3>3. QED
      BY <3>1, <3>2
  <2>4. \A t \in Known : t # s => ClimbedIn(t)'
    <3> SUFFICES ASSUME NEW t \in Known, t # s PROVE ClimbedIn(t)'
      OBVIOUS
    <3>1. Scheduled(t) => TargetOf(t) \in Assignments
      BY TargetTyped
    <3>2. QED
      BY <1>1, <1>3, <1>4, <2>1, <2>2, <3>1 DEF Ladder, SessionsClimbed, ClimbedIn, Scheduled, TargetOf
  <2>5. SessionsClimbed'
    BY <1>1, <1>4, <2>3, <2>4 DEF Ladder, SessionsClimbed, Known
  <2>6. Carried'
    BY <1>1, <1>3, <2>1, CarriedKept DEF Ladder
  <2>7. QED
    BY <2>2, <2>5, <2>6 DEF Ladder
<1>6. CASE /\ l <= sHint[s]
           /\ l \notin sHints[s]
           /\ UNCHANGED <<sHint, aHint, aHints>>
  <2>1. Climbed' /\ Carried'
    BY <1>1, <1>6, ClimbedKept, CarriedKept DEF Ladder
  <2>2. Scheduled(s)
    BY <1>6 DEF Ladder, SessionsClimbed, ClimbedIn
  <2>3. \A t \in Known : ClimbedIn(t)'
    BY <1>1, <1>3, <1>4, <1>6, <2>2 DEF Ladder, SessionsClimbed, ClimbedIn, Scheduled, TargetOf
  <2>4. SessionsClimbed'
    BY <1>1, <1>4, <2>3 DEF Ladder, SessionsClimbed, Known
  <2>5. QED
    BY <2>1, <2>4 DEF Ladder
<1>7. QED
  BY <1>5, <1>6 DEF RevealInSession

LEMMA LadderRecordForSession ==
  ASSUME Typed, Ladder, NEW s \in Known, NEW id \in EventIds, NEW report \in Reports,
         RecordForSession(s, id, report)
  PROVE  Ladder'
<1>1. PICK e, facts :
        /\ Attempted(e, facts, ProblemOfSession(s), AssignmentOf(s), s, id, report, HintOf(s))
        /\ IF Scheduled(s) THEN Transition(TargetOf(s), facts) ELSE UNCHANGED <<aStatus, aHint>>
  BY SessionEvidence
<1>2. /\ attempts' = attempts \cup {e}
      /\ e.session = s /\ e.assignment = AssignmentOf(s) /\ e.hint = HintOf(s)
      /\ e.independent => e.hint = 0
  BY <1>1 DEF Attempted, RecordEvidence
<1>3. UNCHANGED <<started, row, sHint, sHints, aHints>> /\ sStatus' = [sStatus EXCEPT ![s] = "completed"]
  BY DEF RecordForSession, Closed
<1>4. s \in Slots /\ (Scheduled(s) => TargetOf(s) \in Assignments)
  BY TargetTyped
<1>5. Climbed'
  <2>1. \A a \in Assignments : aHint'[a] \in {0, aHint[a]}
    BY <1>1, <1>4 DEF Transition, Typed, TypeOK, AssignmentTypeOK
  <2>2. QED
    BY <1>3, <2>1, ClimbedKept DEF Ladder
<1>6. SessionsClimbed'
  BY <1>3 DEF Ladder, SessionsClimbed, ClimbedIn, Known, Scheduled, TargetOf
<1>7. Carried'
  <2> SUFFICES ASSUME NEW f \in attempts', f.session # 0, f.assignment = None
               PROVE  /\ sStatus'[f.session] = "completed" /\ ~Scheduled(f.session)'
                      /\ f.hint = sHint'[f.session]
                      /\ f.independent => f.hint = 0
    BY DEF Carried
  <2>1. CASE f = e
    <3>1. ~Scheduled(s)
      BY <1>2, <1>4, <2>1, NullAssumption DEF AssignmentOf
    <3>2. sStatus'[s] = "completed"
      BY <1>3, <1>4 DEF Typed, TypeOK, SessionTypeOK
    <3>3. QED
      BY <1>2, <1>3, <2>1, <3>1, <3>2 DEF HintOf, Scheduled
  <2>2. CASE f \in attempts
    <3>1. f.session \in Slots
      BY <2>2, TargetTyped DEF Typed, Origins
    <3>2. sStatus'[f.session] \in {"completed", sStatus[f.session]}
      BY <1>3, <1>4, <3>1 DEF Typed, TypeOK, SessionTypeOK
    <3>3. QED
      BY <1>3, <2>2, <3>2 DEF Ladder, Carried, Scheduled
  <2>3. QED
    BY <1>2, <2>1, <2>2
<1>8. QED
  BY <1>5, <1>6, <1>7 DEF Ladder

LEMMA LadderRecordForAssignment ==
  ASSUME Typed, Ladder, NEW a \in Assignments, NEW id \in EventIds, NEW report \in Reports,
         RecordForAssignment(a, id, report)
  PROVE  Ladder'
<1>1. PICK e, facts : Attempted(e, facts, ProblemOf[a], a, 0, id, report, aHint[a])
                      /\ Transition(a, facts)
  BY AssignmentEvidence
<1>2. attempts' = attempts \cup {e} /\ e.session = 0
  BY <1>1 DEF Attempted, RecordEvidence
<1>3. UNCHANGED <<started, row, sStatus, sHint, sHints, aHints>>
  BY DEF RecordForAssignment, sessionVars
<1>4. \A b \in Assignments : aHint'[b] \in {0, aHint[b]}
  BY <1>1 DEF Transition, Typed, TypeOK, AssignmentTypeOK
<1>5. Climbed'
  BY <1>3, <1>4, ClimbedKept DEF Ladder
<1>6. QED
  BY <1>2, <1>3, <1>5 DEF Ladder, SessionsClimbed, ClimbedIn, Known, Carried, Scheduled, TargetOf

LEMMA LadderNext == Typed /\ Ladder /\ [Next]_vars => Ladder'
<1> SUFFICES ASSUME Typed, Ladder, [Next]_vars PROVE Ladder'
  OBVIOUS
<1>1. CASE \E w \in Work, id \in StartIds \cup {None} : Start(w, id) \/ Continue(w, id)
  BY <1>1, LadderStart, LadderContinue
<1>2. CASE Hinting
  BY <1>2, LadderRevealInSession, LadderRevealForAssignment DEF Hinting
<1>3. CASE Recording
  BY <1>3, LadderRecordForSession, LadderRecordForAssignment DEF Recording
<1>4. CASE (\E s \in Known : Abandon(s)) \/ Coaching \/ UNCHANGED vars
  <2>1. UNCHANGED <<started, row, sHint, sHints, aHint, aHints, attempts>>
    BY <1>4 DEF Abandon, Coaching, CoachInCore, CoachInAI, CoachLost, vars, sessionVars,
       assignmentVars, evidenceVars
  <2>2. \A s \in Known : sStatus[s] = "completed" => sStatus'[s] = "completed"
    BY <1>4, TargetTyped DEF Abandon, Coaching, CoachInCore, CoachInAI, CoachLost, vars, sessionVars,
       Typed, TypeOK, SessionTypeOK
  <2>3. Carried'
    BY <2>1, <2>2, CarriedKept DEF Ladder
  <2>4. QED
    BY <2>1, <2>3 DEF Ladder, Climbed, SessionsClimbed, ClimbedIn, Known, Scheduled, TargetOf
<1>5. QED
  BY <1>1, <1>2, <1>3, <1>4 DEF Next

LEMMA Counted == Typed /\ Ladder => LadderIsClimbedAndCounted
<1> SUFFICES ASSUME Typed, Ladder PROVE LadderIsClimbedAndCounted
  OBVIOUS
<1>1. ASSUME NEW a \in Assignments, NEW l \in aHints[a] PROVE 1..l \subseteq aHints[a]
  <2>1. aHints[a] \subseteq Levels
    BY DEF Typed, TypeOK, AssignmentTypeOK
  <2>2. QED
    BY <1>1, <2>1, ItemsAssumption DEF Ladder, Climbed, Levels
<1>2. ASSUME NEW s \in Known, NEW l \in sHints[s]
      PROVE  1..l \subseteq sHints[s] \cup (IF Scheduled(s) THEN aHints[TargetOf(s)] ELSE {})
  <2>1. s \in Slots /\ sHints[s] \subseteq Levels /\ sHint[s] \in 0..MaxHint
    BY TargetTyped DEF Typed, TypeOK, SessionTypeOK
  <2>2. 1..l \subseteq Levels
    BY <1>2, <2>1, ItemsAssumption DEF Levels
  <2>3. l \in Nat /\ l <= sHint[s]
    BY <1>2, <2>1, ItemsAssumption DEF Ladder, SessionsClimbed, ClimbedIn, Levels
  <2>4. \A k \in 1..l : k \in Levels /\ k <= sHint[s]
    BY <2>1, <2>2, <2>3
  <2>5. QED
    BY <2>4 DEF Ladder, SessionsClimbed, ClimbedIn
<1>3. ASSUME NEW e \in attempts, e.session # 0, e.assignment = None
      PROVE  /\ sHints[e.session] = 1..e.hint
             /\ e.independent => sHints[e.session] = {}
  <2>1. e.session \in Known
    BY <1>3 DEF Typed, Origins
  <2>2. e.hint = sHint[e.session] /\ ~Scheduled(e.session) /\ (e.independent => e.hint = 0)
    BY <1>3 DEF Ladder, Carried
  <2>3. sHints[e.session] \subseteq Levels /\ sHint[e.session] \in 0..MaxHint
    BY <2>1, TargetTyped DEF Typed, TypeOK, SessionTypeOK
  <2>4. \A k \in Levels : k \in sHints[e.session] <=> k <= e.hint
    BY <2>1, <2>2 DEF Ladder, SessionsClimbed, ClimbedIn
  <2>5. sHints[e.session] = 1..e.hint
    <3>1. e.hint \in 0..MaxHint
      BY <2>2, <2>3
    <3>2. \A k : k \in Levels /\ k <= e.hint <=> k \in 1..e.hint
      BY <3>1, ItemsAssumption DEF Levels
    <3>3. QED
      BY <2>3, <2>4, <3>2
  <2>6. ASSUME e.independent PROVE sHints[e.session] = {}
    <3>1. e.hint = 0
      BY <2>2, <2>6
    <3>2. QED
      BY <2>5, <3>1
  <2>7. QED
    BY <2>5, <2>6
<1>4. QED
  BY <1>1, <1>2, <1>3 DEF LadderIsClimbedAndCounted

\* Through two endpoints, a session that was open before a hint and one that starts after it,
\* hints are revealed in order, and extra practice answers for all of its own.
THEOREM LadderIsClimbedAndCountedHolds == Spec => []LadderIsClimbedAndCounted
<1>1. Init => Ladder
  BY ItemsAssumption DEF Init, Ladder, Climbed, SessionsClimbed, Carried, Known, Slots, Levels
<1>2. QED
  BY <1>1, LadderNext, Counted, AlwaysTyped, PTL DEF Spec
=============================================================================
