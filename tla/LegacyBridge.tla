---------------------------- MODULE LegacyBridge ----------------------------
(***************************************************************************)
(* The bridge to the external tracker: the claims of src/app/services.py   *)
(* (begin_claim, run_claimed_legacy_step), the operations that use them    *)
(* (attempts and hints, of a session or of its assignment, in              *)
(* src/app/services.py and src/app/sessions.py) and the importer           *)
(* src/scripts/import_legacy.py.                                           *)
(*                                                                         *)
(* An operation is a transaction that claims it, an external command, a    *)
(* transaction that marks the claim, an import of the tracker's state, and *)
(* a transaction that records the outcome. Requests run these steps        *)
(* concurrently, may be repeated, and may die between any two of them; a   *)
(* Telegram bot uses the same tracker.                                     *)
(*                                                                         *)
(* One assignment, the tracker's active problem, is modelled. The tracker  *)
(* command is not part of the repository: its effect is what the importer  *)
(* reads back. The 60 s a claim may stay pending are one flag, aged.       *)
(*                                                                         *)
(* A definition that precedes another of the same parameters, and that no  *)
(* action uses, is a seeded fault of it, as in AIRuns.                     *)
(***************************************************************************)
EXTENDS Naturals, FiniteSets, FiniteSetsExt

CONSTANTS
  Callers,     \* requests in flight
  Sessions,    \* scheduled sessions of the assignment
  EventIds,    \* event ids clients mint for an attempt
  Facts,       \* what a client may report with one
  MaxHint,     \* number of hint levels (4: H1 to H4)
  MaxLog,      \* bound: attempts the tracker's log may receive
  Faults,      \* what may go wrong beyond a failed command: "crash", "timeout"
  Telegram,    \* whether the bot acts on the tracker meanwhile
  None

ASSUME BridgeAssumption ==
  /\ MaxHint \in Nat /\ MaxLog \in Nat
  /\ Faults \subseteq {"crash", "timeout"}
  /\ Telegram \in BOOLEAN
  /\ None \notin Sessions \cup EventIds

Levels == 1..MaxHint

\* scope and fingerprint of a claim, whose id is the event id or made of the rest
SessionAttempts == [kind : {"sessionAttempt"}, session : Sessions, key : EventIds, facts : Facts]
AssignmentAttempts ==
  [kind : {"assignmentAttempt"}, session : {None}, key : EventIds, facts : Facts]
SessionHints == [kind : {"sessionHint"}, session : Sessions, level : Levels]
AssignmentHints == [kind : {"assignmentHint"}, session : {None}, level : Levels]

AttemptOps == SessionAttempts \cup AssignmentAttempts
HintOps == SessionHints \cup AssignmentHints
Ops == AttemptOps \cup HintOps

ClaimIds == (EventIds \X {0}) \cup ((Sessions \cup {None}) \X Levels)

ASSUME NullAssumption == None \notin ClaimIds \cup Ops

IsAttempt(o) == o.kind \in {"sessionAttempt", "assignmentAttempt"}

ClaimId(o) == IF IsAttempt(o) THEN <<o.key, 0>> ELSE <<o.session, o.level>>

VARIABLES
  claims,            \* request_log: claim id -> [status, op, aged]
  orphaned,          \* claims whose attempt reached the tracker and was never marked (history)
  sStatus, sHint,    \* columns of practice_sessions
  sHints,            \* session -> levels in session_hint_events
  aStatus, aHint,    \* columns of the assignment
  imported,          \* tracker log ids with a row in attempt_events
  link,              \* log id -> session_id of its row (None: NULL)
  log,               \* the tracker: attempts in its log [id, claim, op],
  tOpen, tHint,      \*   whether the assignment is its active problem, its highest hint,
  told,              \*   and every level it was ever told (history)
  pc, op, phase,     \* request-local: program point, operation, begin_claim's answer,
  before, read       \*   attempt rows there were, what the importer has read

claimVars == <<claims, orphaned>>
sessionVars == <<sStatus, sHint, sHints>>
importVars == <<aStatus, aHint, imported>>
trackerVars == <<log, tOpen, tHint, told>>
localVars == <<pc, op, phase, before, read>>
vars == <<claimVars, sessionVars, importVars, link, trackerVars, localVars>>

NoClaim == [status |-> "none", op |-> None, aged |-> FALSE]
NothingRead == [log |-> {}, open |-> FALSE, hint |-> 0]

Init ==
  /\ claims = [i \in ClaimIds |-> NoClaim] /\ orphaned = {}
  /\ sStatus = [s \in Sessions |-> "absent"]
  /\ sHint = [s \in Sessions |-> 0]
  /\ sHints = [s \in Sessions |-> {}]
  /\ aStatus = "active" /\ aHint = 0
  /\ imported = {}
  /\ link = [i \in 1..MaxLog |-> None]
  /\ log = {} /\ tOpen = TRUE /\ tHint = 0 /\ told = {}
  /\ pc = [c \in Callers |-> "idle"]
  /\ op = [c \in Callers |-> None]
  /\ phase = [c \in Callers |-> "none"]
  /\ before = [c \in Callers |-> {}]
  /\ read = [c \in Callers |-> NothingRead]

-----------------------------------------------------------------------------
(* Sessions of the assignment.                                             *)

StartSession(s) ==
  /\ sStatus[s] = "absent"
  /\ aStatus = "active"
  /\ \A t \in Sessions : sStatus[t] # "active"
  /\ sStatus' = [sStatus EXCEPT ![s] = "active"]
  /\ sHint' = [sHint EXCEPT ![s] = aHint]
  /\ UNCHANGED <<sHints, claimVars, importVars, link, trackerVars, localVars>>

ContinueSession(s) ==
  /\ sStatus[s] = "active"
  /\ aStatus = "active"
  /\ aHint > sHint[s]
  /\ sHint' = [sHint EXCEPT ![s] = aHint]
  /\ UNCHANGED <<sStatus, sHints, claimVars, importVars, link, trackerVars, localVars>>

Abandon(s) ==
  /\ sStatus[s] = "active"
  /\ sStatus' = [sStatus EXCEPT ![s] = "abandoned"]
  /\ UNCHANGED <<sHint, sHints, claimVars, importVars, link, trackerVars, localVars>>

-----------------------------------------------------------------------------
(* begin_claim, in the first transaction of an operation.                  *)

OwnerIgnored(o) ==
  LET row == claims[ClaimId(o)] IN
    CASE row.status = "none" -> "action"
      [] row.status = "completed" -> "done"
      [] row.status = "action_done" -> "sync"
      [] row.status = "pending" -> IF row.aged THEN "action" ELSE "conflict"

PendingRuns(o) ==
  LET row == claims[ClaimId(o)] IN
    CASE row.status = "none" -> "action"
      [] row.status # "none" /\ row.op # o -> "conflict"
      [] row.status = "completed" /\ row.op = o -> "done"
      [] row.status = "action_done" /\ row.op = o -> "sync"
      [] row.status = "pending" /\ row.op = o -> "action"

ActsUntilCompleted(o) ==
  LET row == claims[ClaimId(o)] IN
    CASE row.status = "none" -> "action"
      [] row.status # "none" /\ row.op # o -> "conflict"
      [] row.status = "completed" /\ row.op = o -> "done"
      [] row.status = "action_done" /\ row.op = o -> "action"
      [] row.status = "pending" /\ row.op = o -> IF row.aged THEN "action" ELSE "conflict"

PendingSyncs(o) ==
  LET row == claims[ClaimId(o)] IN
    CASE row.status = "none" -> "action"
      [] row.status # "none" /\ row.op # o -> "conflict"
      [] row.status = "completed" /\ row.op = o -> "done"
      [] row.status \in {"pending", "action_done"} /\ row.op = o -> "sync"

ClaimPhase(o) ==
  LET row == claims[ClaimId(o)] IN
    CASE row.status = "none" -> "action"
      [] row.status # "none" /\ row.op # o -> "conflict"
      [] row.status = "completed" /\ row.op = o -> "done"
      [] row.status = "action_done" /\ row.op = o -> "sync"
      [] row.status = "pending" /\ row.op = o -> IF row.aged THEN "action" ELSE "conflict"

\* What the operation itself requires. Only a new hint is claimed.
Allowed(o) ==
  CASE o.kind = "sessionAttempt" ->
         \/ sStatus[o.session] = "active"
         \/ sStatus[o.session] # "absent" /\ claims[ClaimId(o)].status # "none"
    [] o.kind = "assignmentAttempt" -> TRUE
    [] o.kind = "sessionHint" -> sStatus[o.session] = "active" /\ o.level = sHint[o.session] + 1
    [] o.kind = "assignmentHint" -> aStatus = "active" /\ o.level = aHint + 1

FirstStep(o) ==
  CASE ClaimPhase(o) = "action" -> "action"
    [] ClaimPhase(o) = "sync" -> "sync"
    [] ClaimPhase(o) = "done" -> IF o.session = None THEN "answered" ELSE "record"

Begin(c, o) ==
  /\ pc[c] = "idle"
  /\ Allowed(o)
  /\ ClaimPhase(o) # "conflict"
  /\ claims' = IF ClaimPhase(o) = "action"
               THEN [claims EXCEPT ![ClaimId(o)] = [status |-> "pending", op |-> o, aged |-> FALSE]]
               ELSE claims
  /\ pc' = [pc EXCEPT ![c] = FirstStep(o)]
  /\ op' = [op EXCEPT ![c] = o]
  /\ phase' = [phase EXCEPT ![c] = ClaimPhase(o)]
  /\ before' = [before EXCEPT ![c] = IF o.kind = "sessionAttempt" THEN imported ELSE {}]
  /\ UNCHANGED <<orphaned, read, sessionVars, importVars, link, trackerVars>>

\* A level the session already counts is answered without a claim.
RepeatHint(s, l) ==
  /\ sStatus[s] = "active"
  /\ l \in 1..sHint[s] \ sHints[s]
  /\ sHints' = [sHints EXCEPT ![s] = @ \cup {l}]
  /\ UNCHANGED <<sStatus, sHint, claimVars, importVars, link, trackerVars, localVars>>

\* CLAIM_STALE_SECONDS pass. Both external calls time out at 15 s, so the request
\* that holds the claim is gone by then.
Age(i) ==
  /\ claims[i].status = "pending"
  /\ ~claims[i].aged
  /\ \A c \in Callers : pc[c] \in {"action", "mark", "drop"} => ClaimId(op[c]) # i
  /\ claims' = [claims EXCEPT ![i].aged = TRUE]
  /\ UNCHANGED <<orphaned, sessionVars, importVars, link, trackerVars, localVars>>

-----------------------------------------------------------------------------
(* The tracker, external. An attempt closes or reassigns the active        *)
(* problem, and the hints of the next round start over; nothing succeeds   *)
(* without an active problem.                                              *)

AppendAttempt(claim, o) ==
  /\ tOpen
  /\ Cardinality(log) < MaxLog
  /\ log' = log \cup {[id |-> Cardinality(log) + 1, claim |-> claim, op |-> o]}
  /\ tOpen' \in BOOLEAN
  /\ tHint' = 0
  /\ UNCHANGED told

TellHint(l) ==
  /\ tOpen
  /\ tHint' = IF l > tHint THEN l ELSE tHint
  /\ told' = told \cup {l}
  /\ UNCHANGED <<log, tOpen>>

Effect(o) ==
  IF IsAttempt(o) THEN AppendAttempt(ClaimId(o), o) ELSE TellHint(o.level)

BotActs ==
  /\ Telegram
  /\ \/ AppendAttempt(None, None)
     \/ \E l \in Levels : TellHint(l) /\ l > tHint
  /\ UNCHANGED <<claimVars, sessionVars, importVars, link, localVars>>

\* The coach assigns the same problem again.
Reassign ==
  /\ ~tOpen
  /\ tOpen' = TRUE
  /\ UNCHANGED <<log, tHint, told, claimVars, sessionVars, importVars, link, localVars>>

-----------------------------------------------------------------------------
(* run_claimed_legacy_step.                                                *)

Goto(c, point) ==
  /\ pc' = [pc EXCEPT ![c] = point]
  /\ UNCHANGED <<op, phase, before, read>>

\* The request ends, with an answer or an error.
Leave(c) ==
  /\ pc' = [pc EXCEPT ![c] = "idle"]
  /\ op' = [op EXCEPT ![c] = None]
  /\ phase' = [phase EXCEPT ![c] = "none"]
  /\ before' = [before EXCEPT ![c] = {}]
  /\ read' = [read EXCEPT ![c] = NothingRead]

ActionSucceeds(c) ==
  /\ pc[c] = "action"
  /\ Effect(op[c])
  /\ Goto(c, "mark")
  /\ UNCHANGED <<claimVars, sessionVars, importVars, link>>

ActionFails(c) ==
  /\ pc[c] = "action"
  /\ Goto(c, "drop")
  /\ UNCHANGED <<claimVars, sessionVars, importVars, link, trackerVars>>

Orphaned(c) == IF IsAttempt(op[c]) THEN orphaned \cup {ClaimId(op[c])} ELSE orphaned

\* The 15 s pass after the command took effect: an exception like any other.
ActionTimesOut(c) ==
  /\ "timeout" \in Faults
  /\ pc[c] = "action"
  /\ Effect(op[c])
  /\ orphaned' = Orphaned(c)
  /\ Goto(c, "drop")
  /\ UNCHANGED <<claims, sessionVars, importVars, link>>

\* _drop_claim, then the exception.
DropClaim(c) ==
  /\ pc[c] = "drop"
  /\ claims' = [claims EXCEPT ![ClaimId(op[c])] = NoClaim]
  /\ Leave(c)
  /\ UNCHANGED <<orphaned, sessionVars, importVars, link, trackerVars>>

WithStatus(i, status) ==
  IF claims[i].status = "none" THEN claims
  ELSE [claims EXCEPT ![i] = [@ EXCEPT !.status = status, !.aged = FALSE]]

MarkCompleted(c) == WithStatus(ClaimId(op[c]), "completed")

Marked(c) == WithStatus(ClaimId(op[c]), "action_done")

MarkActed(c) ==
  /\ pc[c] = "mark"
  /\ claims' = Marked(c)
  /\ Goto(c, "sync")
  /\ UNCHANGED <<orphaned, sessionVars, importVars, link, trackerVars>>

\* The importer reads the tracker's files before it opens its transaction.
SyncRead(c) ==
  /\ pc[c] = "sync"
  /\ read' = [read EXCEPT ![c] = [log |-> {e.id : e \in log}, open |-> tOpen, hint |-> tHint]]
  /\ pc' = [pc EXCEPT ![c] = "import"]
  /\ UNCHANGED <<op, phase, before, claimVars, sessionVars, importVars, link, trackerVars>>

\* INSERT OR IGNORE: what an earlier import brought stays.
ImportRows(c) == imported \cup read[c].log

SyncCommit(c) ==
  /\ pc[c] = "import"
  /\ aStatus' = IF read[c].open THEN "active" ELSE "completed"
  /\ aHint' = IF read[c].open THEN read[c].hint ELSE aHint
  /\ imported' = ImportRows(c)
  /\ Goto(c, "record")
  /\ UNCHANGED <<claimVars, sessionVars, link, trackerVars>>

\* The importer fails: the claim stays action_done, an instruction to sync only.
SyncFails(c) ==
  /\ pc[c] \in {"sync", "import"}
  /\ Leave(c)
  /\ UNCHANGED <<claimVars, sessionVars, importVars, link, trackerVars>>

-----------------------------------------------------------------------------
(* The last transaction of an operation.                                   *)

LinkedTo(s) == {i \in imported : link[i] = s}

Candidates(c) == {i \in imported : link[i] = None} \ before[c]

\* _link_imported_attempt: the one row that is new since the operation began.
Linked(c) ==
  IF LinkedTo(op[c].session) = {} /\ Cardinality(Candidates(c)) = 1
  THEN [i \in 1..MaxLog |-> IF i \in Candidates(c) THEN op[c].session ELSE link[i]]
  ELSE link

Completed(c) == IF phase[c] = "done" THEN claims ELSE WithStatus(ClaimId(op[c]), "completed")

RecordSessionAttempt(c) ==
  /\ op[c].kind = "sessionAttempt"
  /\ link' = Linked(c)
  /\ sStatus' = [sStatus EXCEPT ![op[c].session] = IF @ = "active" THEN "completed" ELSE @]
  /\ Leave(c)
  /\ UNCHANGED <<sHint, sHints>>

\* is_new was decided before the action.
RecordSessionHint(c) ==
  /\ op[c].kind = "sessionHint"
  /\ sHint' = [sHint EXCEPT ![op[c].session] = op[c].level]
  /\ sHints' = [sHints EXCEPT ![op[c].session] = @ \cup {op[c].level}]
  /\ Leave(c)
  /\ UNCHANGED <<sStatus, link>>

RecordAssignmentOp(c) ==
  /\ op[c].session = None
  /\ Goto(c, "answered")
  /\ UNCHANGED <<sessionVars, link>>

Record(c) ==
  /\ pc[c] = "record"
  /\ claims' = Completed(c)
  /\ RecordSessionAttempt(c) \/ RecordSessionHint(c) \/ RecordAssignmentOp(c)
  /\ UNCHANGED <<orphaned, importVars, trackerVars>>

Answer(c) ==
  /\ pc[c] = "answered"
  /\ Leave(c)
  /\ UNCHANGED <<claimVars, sessionVars, importVars, link, trackerVars>>

\* The process dies, or the database refuses a transaction of the request.
Crash(c) ==
  /\ "crash" \in Faults
  /\ pc[c] \notin {"idle", "answered"}
  /\ orphaned' = IF pc[c] = "mark" THEN Orphaned(c) ELSE orphaned
  /\ Leave(c)
  /\ UNCHANGED <<claims, sessionVars, importVars, link, trackerVars>>

-----------------------------------------------------------------------------
Work(c) ==
  \/ ActionSucceeds(c) \/ ActionFails(c) \/ ActionTimesOut(c)
  \/ DropClaim(c) \/ MarkActed(c)
  \/ SyncRead(c) \/ SyncCommit(c) \/ SyncFails(c)
  \/ Record(c) \/ Answer(c) \/ Crash(c)

Next ==
  \/ \E c \in Callers : Work(c) \/ \E o \in Ops : Begin(c, o)
  \/ \E s \in Sessions : StartSession(s) \/ ContinueSession(s) \/ Abandon(s)
  \/ \E s \in Sessions, l \in Levels : RepeatHint(s, l)
  \/ \E i \in ClaimIds : Age(i)
  \/ BotActs \/ Reassign

Spec == Init /\ [][Next]_vars

-----------------------------------------------------------------------------
(* Properties.                                                             *)

RecordOf(o) == {e \in log : e.op = o}

AttemptClaims == EventIds \X {0}

StatusOf == [i \in AttemptClaims |-> claims[i].status]
OwnerOf == [i \in AttemptClaims |-> claims[i].op]
Receipts == {e \in log : e.claim # None}

Contract == INSTANCE ClaimContract WITH
  Claims <- AttemptClaims, Operations <- AttemptOps, Ids <- 1..MaxLog,
  status <- StatusOf, owner <- OwnerOf, receipts <- Receipts, lost <- orphaned,
  home <- imported

\* Every step of the bridge is a step of the contract of an attempt's claim, or invisible
\* to it: whatever crashes, times out, is repeated or overlaps, a command runs once unless a
\* run of it was lost sight of, what is marked has run and never runs again, and what is
\* completed was imported.
KeepsClaims == Contract!Spec

\* Once an operation is marked, whatever crashes, fails to import or is retried, its
\* command is never run again.
MarkedNeverActsAgain ==
  [][\A e \in log' \ log : e.claim # None =>
       claims[e.claim].status \notin {"action_done", "completed"}]_vars

\* Neither concurrent duplicates nor retries, of whatever failed, make the tracker
\* record two attempts for one claim, unless a request died, lost its database or gave
\* up waiting between the effect of its command and its mark.
NoSecondAction ==
  \A e, f \in log : e.claim # None /\ e.claim = f.claim => e = f \/ e.claim \in orphaned

\* A completed claim speaks the truth: the tracker recorded that very operation, and
\* the importer has brought it in.
CompletedIsRecorded ==
  \A i \in ClaimIds : claims[i].status = "completed" /\ IsAttempt(claims[i].op) =>
    RecordOf(claims[i].op) # {} /\ \E e \in RecordOf(claims[i].op) : e.id \in imported

\* No session is closed without evidence: some attempt that was submitted for it is
\* in the tracker and imported, even if it could not be linked. What is linked is an
\* imported row, and retries and concurrent duplicates link no second one.
ClosedWithEvidence ==
  \A s \in Sessions :
    /\ sStatus[s] = "completed" =>
         \E e \in log : /\ e.op \in SessionAttempts
                        /\ e.op.session = s
                        /\ e.id \in imported
    /\ LET linked == {i \in 1..MaxLog : link[i] = s}
       IN  linked \subseteq imported /\ Cardinality(linked) <= 1

\* A reveal the tracker has not accepted is not recorded: of every level a session has shown
\* the tracker was told, or of a higher one, since the bot need not tell them in order; and it
\* was told the very level the assignment carries.
HintToldFirst ==
  /\ \A s \in Sessions : \A l \in sHints[s] : \E m \in told : l <= m
  /\ aHint > 0 => aHint \in told

-----------------------------------------------------------------------------
(* What comments of the code say, and the code does not do.                *)

\* app/sessions.py: "linkage is never guessed": a linked row is an attempt of the
\* session it is linked to.
LinkedRowIsOwn ==
  \A e \in log : link[e.id] # None => e.op # None /\ e.op.session = link[e.id]

\* app/services.py: "Action failure deletes the claim (nothing durable happened; a
\* retry starts over)".
DroppedClaimDidNothing ==
  \A c \in Callers : pc[c] = "drop" => RecordOf(op[c]) = {}

\* app/sessions.py: "the session must not under-report recorded assistance".
SessionHintNeverFalls ==
  [][\A s \in Sessions : sHint[s] <= sHint'[s]]_vars

\* app/sessions.py, abandon_session: "No attempt event": an abandoned session never
\* looks like completed work.
AbandonedHasNoEvidence ==
  \A s \in Sessions : sStatus[s] = "abandoned" => LinkedTo(s) = {}

\* docs/operations.md: "Web hint/outcome actions go through the same deterministic
\* action.py transitions as Telegram": a request that has just revealed a new hint of
\* the assignment has told the tracker in this round.
RevealedHintIsTold ==
  \A c \in Callers : pc[c] = "answered" /\ op[c].kind = "assignmentHint" =>
    tHint >= op[c].level
=============================================================================
