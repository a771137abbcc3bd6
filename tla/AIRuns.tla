------------------------------- MODULE AIRuns -------------------------------
(***************************************************************************)
(* The durable AI run queue: src/app/ai/repository.py (admission, claims,  *)
(* cancellation, leases) and src/app/ai/worker.py (the worker that answers *)
(* a run), over the tables of src/app/ai/ai_db.py.                         *)
(*                                                                         *)
(* A definition that precedes another of the same parameters, and that no  *)
(* action uses, is a seeded fault of it: PROJECT.json names the property   *)
(* that must fail when it takes the place of the real one.                 *)
(*                                                                         *)
(* Every write happens in one BEGIN IMMEDIATE transaction, so an action is *)
(* one transaction; the worker's autocommit reads, and the points where it *)
(* may stop between two transactions, are actions of their own.            *)
(*                                                                         *)
(* A run is named by its rank in created_at order, the order claim() uses. *)
(* Wall-clock time is abstracted to the one comparison the code makes,     *)
(* lease_until < now: a lease lapses at any moment and a renewal undoes it.*)
(***************************************************************************)
EXTENDS Naturals, FiniteSets, FiniteSetsExt

CONSTANTS
  Workers,      \* worker processes; a crashed one is restarted by its supervisor
  Requests,     \* accepted HTTP payloads: [kind, scope, key, body, cache, input]
  CacheKeys,    \* values of the artifact digest
  Usages,       \* what a provider may report: [input, output, text]
  MaxRuns,      \* bound: rows the runs table may receive
  MaxAttempts,  \* max_retries + 1
  MaxInput,     \* max_input_tokens
  MaxOutput,    \* max_output_tokens
  Budget,       \* monthly_token_budget
  None          \* SQL NULL

Kinds == {"chat", "lesson", "visualization", "diagnosis"}

ASSUME SizesAssumption ==
  /\ MaxRuns \in Nat
  /\ MaxAttempts \in Nat \ {0}
  /\ MaxInput \in Nat /\ MaxOutput \in Nat \ {0} /\ Budget \in Nat

ASSUME RequestsAssumption ==
  \A q \in Requests : /\ q.kind \in Kinds
                      /\ q.cache \in CacheKeys \cup {None}
                      /\ q.input \in Nat \ {0}

ASSUME UsagesAssumption ==
  \A u \in Usages : u.input \in Nat /\ u.output \in Nat /\ u.text \in Nat \ {0}

ASSUME NoneAssumption ==
  None \notin Workers \cup Requests \cup CacheKeys

Runs == 1..MaxRuns
Open == {"queued", "running"}
Terminal == {"completed", "failed", "cancelled"}

VARIABLES
  created,          \* number of rows in runs
  requestOf,        \* run -> the request it was accepted for
  status, attempts, generation, owner,   \* columns of runs
  lapsed,           \* lease_until < now
  cancelRequested, reserved,             \* columns of runs
  events, nextEvent,\* run_events of a run, and the id its next row gets
  outputs,          \* assistant messages and artifacts
  cache,            \* cache_entries: digest -> run whose artifact it serves (0: none)
  ledger,           \* usage_ledger: run -> total_tokens (0: no row)
  thisMonth,        \* runs whose ledger row is dated in the current month
  reply,            \* request -> run returned by its last accepted POST (0: none)
  pc, claim, lost   \* worker-local: program point, claimed row, lost.is_set()

rowVars == <<status, attempts, generation, owner, lapsed, cancelRequested, reserved>>
eventVars == <<events, nextEvent>>
resultVars == <<outputs, cache, ledger, thisMonth>>
apiVars == <<created, requestOf, reply>>
workerVars == <<pc, claim, lost>>
vars == <<apiVars, rowVars, eventVars, resultVars, workerVars>>

NoClaim == [run |-> 0, generation |-> 0, attempts |-> 0]

Init ==
  /\ created = 0
  /\ requestOf = [r \in Runs |-> None]
  /\ status = [r \in Runs |-> "absent"]
  /\ attempts = [r \in Runs |-> 0]
  /\ generation = [r \in Runs |-> 0]
  /\ owner = [r \in Runs |-> None]
  /\ lapsed = [r \in Runs |-> FALSE]
  /\ cancelRequested = [r \in Runs |-> FALSE]
  /\ reserved = [r \in Runs |-> 0]
  /\ events = [r \in Runs |-> {}]
  /\ nextEvent = [r \in Runs |-> 1]
  /\ outputs = {}
  /\ cache = [k \in CacheKeys |-> 0]
  /\ ledger = [r \in Runs |-> 0]
  /\ thisMonth = {}
  /\ reply = [q \in Requests |-> 0]
  /\ pc = [w \in Workers |-> "poll"]
  /\ claim = [w \in Workers |-> NoClaim]
  /\ lost = [w \in Workers |-> FALSE]

-----------------------------------------------------------------------------
(* Event log: INSERT INTO run_events.                                      *)

EventRow(r, offset, type, gen) ==
  [id |-> nextEvent[r] + offset, type |-> type, generation |-> gen]

AddEvent(r, type, gen) ==
  /\ events' = [events EXCEPT ![r] = @ \cup {EventRow(r, 0, type, gen)}]
  /\ nextEvent' = [nextEvent EXCEPT ![r] = @ + 1]

TextRows(r) == {e \in events[r] : e.type = "text"}

KeepText(r) == events[r]

WithoutText(r) == events[r] \ TextRows(r)

CompletionRowsSwapped(r, gen) ==
  {EventRow(r, 0, "completed", gen), EventRow(r, 1, "usage", gen)}

CompletionRows(r, gen) == {EventRow(r, 0, "usage", gen), EventRow(r, 1, "completed", gen)}

-----------------------------------------------------------------------------
(* The row of a run that leaves the queue for good: terminal status, lease  *)
(* and reservation cleared.                                                *)

CloseRunKeepingReservation(r, final) ==
  /\ status' = [status EXCEPT ![r] = final]
  /\ owner' = [owner EXCEPT ![r] = None]
  /\ lapsed' = [lapsed EXCEPT ![r] = FALSE]
  /\ UNCHANGED reserved

CloseRun(r, final) ==
  /\ status' = [status EXCEPT ![r] = final]
  /\ owner' = [owner EXCEPT ![r] = None]
  /\ lapsed' = [lapsed EXCEPT ![r] = FALSE]
  /\ reserved' = [reserved EXCEPT ![r] = 0]

-----------------------------------------------------------------------------
(* Admission: enqueue, with its idempotency, cache and budget checks.      *)

Accepted == 1..created

SameKey(q, r) ==
  LET p == requestOf[r] IN p.kind = q.kind /\ p.scope = q.scope /\ p.key = q.key

EarlierSamePayload(q) == {r \in Accepted : requestOf[r] = q}

Earlier(q) == {r \in Accepted : SameKey(q, r)}

CacheServes(q) == q.cache # None /\ cache[q.cache] # 0

\* SELECT SUM(f) over the rows of S.
SumOver(f, S) == MapThenSumSet(LAMBDA r : f[r], S)

MonthUsage == SumOver(ledger, thisMonth)

OpenRuns == {r \in Runs : status[r] \in Open}

ReservedTokens == SumOver(reserved, OpenRuns)

Reservation(q) == q.input + MaxOutput

WithinBudgetOfAnswers(q) == MonthUsage + Reservation(q) <= Budget

WithinBudget(q) == MonthUsage + ReservedTokens + Reservation(q) <= Budget

\* A key used before returns its run; with another body the POST is refused
\* (409) and nothing changes.
Replay(q) ==
  /\ \E r \in Earlier(q) : /\ requestOf[r].body = q.body
                           /\ reply' = [reply EXCEPT ![q] = r]
  /\ UNCHANGED <<created, requestOf, rowVars, eventVars, resultVars, workerVars>>

ServeFromCache(q) ==
  /\ Earlier(q) = {}
  /\ CacheServes(q)
  /\ reply' = [reply EXCEPT ![q] = cache[q.cache]]
  /\ UNCHANGED <<created, requestOf, rowVars, eventVars, resultVars, workerVars>>

Enqueue(q) ==
  /\ Earlier(q) = {}
  /\ ~CacheServes(q)
  /\ q.input <= MaxInput
  /\ WithinBudget(q)
  /\ created < MaxRuns
  /\ created' = created + 1
  /\ LET r == created + 1 IN
       /\ requestOf' = [requestOf EXCEPT ![r] = q]
       /\ status' = [status EXCEPT ![r] = "queued"]
       /\ reserved' = [reserved EXCEPT ![r] = Reservation(q)]
       /\ reply' = [reply EXCEPT ![q] = r]
       /\ AddEvent(r, "queued", 0)
  /\ UNCHANGED <<attempts, generation, owner, lapsed, cancelRequested, resultVars, workerVars>>

-----------------------------------------------------------------------------
(* Cancellation: request_cancel.                                           *)

CancelQueued(r) ==
  /\ status[r] = "queued"
  /\ CloseRun(r, "cancelled")
  /\ cancelRequested' = [cancelRequested EXCEPT ![r] = TRUE]
  /\ AddEvent(r, "cancelled", generation[r])
  /\ UNCHANGED <<attempts, generation, apiVars, resultVars, workerVars>>

FlagRunning(r) ==
  /\ status[r] = "running"
  /\ ~cancelRequested[r]
  /\ cancelRequested' = [cancelRequested EXCEPT ![r] = TRUE]
  /\ UNCHANGED <<status, attempts, generation, owner, lapsed, reserved,
                 apiVars, eventVars, resultVars, workerVars>>

RequestCancel(r) == CancelQueued(r) \/ FlagRunning(r)

-----------------------------------------------------------------------------
(* Claims and leases: claim, renew_lease.                                  *)

Exhausted ==
  {r \in Runs : status[r] = "running" /\ lapsed[r] /\ attempts[r] >= MaxAttempts}

ClaimableQueuedOnly ==
  {r \in Runs : ~cancelRequested[r] /\ attempts[r] < MaxAttempts /\ status[r] = "queued"}

ClaimableWithoutBound ==
  {r \in Runs : /\ ~cancelRequested[r]
                /\ status[r] = "queued" \/ (status[r] = "running" /\ lapsed[r])}

ClaimableWhenNotLeased ==
  {r \in Accepted : /\ ~cancelRequested[r]
                    /\ attempts[r] < MaxAttempts
                    /\ status[r] # "running" \/ lapsed[r]}

Claimable ==
  {r \in Runs : /\ ~cancelRequested[r]
                /\ attempts[r] < MaxAttempts
                /\ status[r] = "queued" \/ (status[r] = "running" /\ lapsed[r])}

SameGeneration(r) == generation[r]

NextGeneration(r) == generation[r] + 1

\* The transaction of claim(): fail every exhausted run, then hand run r to
\* worker w; r = 0 when no run is claimable and only the sweep commits.
ClaimTransaction(w, r) ==
  /\ status' = [s \in Runs |-> IF s = r THEN "running"
                               ELSE IF s \in Exhausted THEN "failed" ELSE status[s]]
  /\ owner' = [s \in Runs |-> IF s = r THEN w
                              ELSE IF s \in Exhausted THEN None ELSE owner[s]]
  /\ lapsed' = [s \in Runs |-> lapsed[s] /\ s # r /\ s \notin Exhausted]
  /\ reserved' = [s \in Runs |-> IF s \in Exhausted THEN 0 ELSE reserved[s]]
  /\ attempts' = [s \in Runs |-> IF s = r THEN attempts[s] + 1 ELSE attempts[s]]
  /\ generation' = [s \in Runs |-> IF s = r THEN NextGeneration(s) ELSE generation[s]]
  /\ events' = [s \in Runs |->
       IF s = r THEN WithoutText(s) \cup {EventRow(s, 0, "started", NextGeneration(s))}
       ELSE IF s \in Exhausted THEN events[s] \cup {EventRow(s, 0, "failed", generation[s])}
       ELSE events[s]]
  /\ nextEvent' = [s \in Runs |-> IF s = r \/ s \in Exhausted THEN nextEvent[s] + 1
                                  ELSE nextEvent[s]]
  /\ UNCHANGED <<cancelRequested, apiVars, resultVars>>

Claim(w, r) ==
  /\ pc[w] = "poll"
  /\ r \in Claimable
  /\ \A s \in Claimable : r <= s
  /\ ClaimTransaction(w, r)
  /\ claim' = [claim EXCEPT ![w] = [run |-> r, generation |-> NextGeneration(r),
                                    attempts |-> attempts[r] + 1]]
  /\ pc' = [pc EXCEPT ![w] = "claimed"]
  /\ UNCHANGED lost

SweepOnly(w) ==
  /\ pc[w] = "poll"
  /\ Claimable = {}
  /\ Exhausted # {}
  /\ ClaimTransaction(w, 0)
  /\ UNCHANGED workerVars

\* Time passes the lease of a run.
Lapse(r) ==
  /\ status[r] = "running"
  /\ ~lapsed[r]
  /\ lapsed' = [lapsed EXCEPT ![r] = TRUE]
  /\ UNCHANGED <<status, attempts, generation, owner, cancelRequested, reserved,
                 apiVars, eventVars, resultVars, workerVars>>

-----------------------------------------------------------------------------
(* The worker: Worker.run_once and the transactions it makes for its claim. *)

OwnsWhateverRuns(w) == claim[w].run # 0 /\ status[claim[w].run] = "running"

Owns(w) ==
  LET r == claim[w].run IN
    /\ r # 0
    /\ status[r] = "running"
    /\ owner[r] = w
    /\ generation[r] = claim[w].generation

\* run_once returns: the worker polls again.
Release(w) ==
  /\ pc' = [pc EXCEPT ![w] = "poll"]
  /\ claim' = [claim EXCEPT ![w] = NoClaim]
  /\ lost' = [lost EXCEPT ![w] = FALSE]

Goto(w, point) ==
  /\ pc' = [pc EXCEPT ![w] = point]
  /\ UNCHANGED <<claim, lost>>

\* The autocommit read of cancel_requested that follows the claim.
ReadCancel(w) ==
  /\ pc[w] = "claimed"
  /\ Goto(w, IF cancelRequested[claim[w].run] THEN "cancel" ELSE "generate")
  /\ UNCHANGED <<apiVars, rowVars, eventVars, resultVars>>

\* One turn of _renew_loop, concurrent with the provider call.
Renew(w) ==
  /\ pc[w] = "generate"
  /\ ~lost[w]
  /\ IF Owns(w) THEN /\ lapsed' = [lapsed EXCEPT ![claim[w].run] = FALSE]
                     /\ UNCHANGED lost
                ELSE /\ lost' = [lost EXCEPT ![w] = TRUE]
                     /\ UNCHANGED lapsed
  /\ UNCHANGED <<status, attempts, generation, owner, cancelRequested, reserved,
                 pc, claim, apiVars, eventVars, resultVars>>

\* _text_event. Bound: the coalesced deltas of one generation are one row.
EmitText(w) ==
  LET r == claim[w].run IN
  /\ pc[w] = "generate"
  /\ IF Owns(w)
     THEN /\ \A e \in TextRows(r) : e.generation # claim[w].generation
          /\ AddEvent(r, "text", claim[w].generation)
          /\ UNCHANGED workerVars
     ELSE /\ Release(w)
          /\ UNCHANGED eventVars
  /\ UNCHANGED <<apiVars, rowVars, resultVars>>

\* The provider has answered: the check that ends _generate_with_renewal.
Answered(w) ==
  /\ pc[w] = "generate"
  /\ IF lost[w] \/ ~Owns(w) THEN Release(w) ELSE Goto(w, "finalize")
  /\ UNCHANGED <<apiVars, rowVars, eventVars, resultVars>>

\* A ProviderError marked transient.
TransientError(w) ==
  /\ pc[w] = "generate"
  /\ Goto(w, "failTransient")
  /\ UNCHANGED <<apiVars, rowVars, eventVars, resultVars>>

\* Any other exception of run_once: a permanent ProviderError, an invalid
\* artifact, a database error of the renewer, of _cancel or of _finalize (whose
\* transaction rolls back).
PermanentError(w) ==
  /\ pc[w] \in {"claimed", "cancel", "generate", "finalize"}
  /\ Goto(w, "failPermanent")
  /\ UNCHANGED <<apiVars, rowVars, eventVars, resultVars>>

NeverRereadCancel(w) == FALSE

\* _finalize reads cancel_requested again, inside its transaction.
CancelPending(w) == cancelRequested[claim[w].run]

\* _cancel_in, in the transaction of _cancel or of _finalize.
CancelClaimed(w) ==
  LET r == claim[w].run IN
  /\ \/ pc[w] = "cancel"
     \/ pc[w] = "finalize" /\ CancelPending(w)
  /\ Owns(w)
  /\ CloseRun(r, "cancelled")
  /\ AddEvent(r, "cancelled", claim[w].generation)
  /\ Release(w)
  /\ UNCHANGED <<attempts, generation, cancelRequested, apiVars, resultVars>>

\* input_tokens + output_tokens of _finalize, with the conservative estimates
\* that replace what the provider did not report.
ChargeReportedOnly(q, u) == u.input + u.output

Charge(q, u) ==
  (IF u.input > 0 THEN u.input ELSE q.input) + (IF u.output > 0 THEN u.output ELSE u.text)

SameShelf(q, o) == o.kind = q.kind /\ o.scope = q.scope

\* v = MAX(version) + 1 over the artifacts of this kind and scope; a chat answer
\* is a message and has no version.
LatestVersion(q, v) ==
  LET shelf == {o \in outputs : SameShelf(q, o)} IN
    IF q.kind = "chat" THEN v = 0
    ELSE /\ v > 0
         /\ \A o \in shelf : o.version <= v
         /\ v > 1 => \E o \in shelf : o.version = v

NextVersion(q, v) ==
  LET shelf == {o \in outputs : SameShelf(q, o)} IN
    IF q.kind = "chat" THEN v = 0
    ELSE /\ v > 0
         /\ \A o \in shelf : o.version < v
         /\ v > 1 => \E o \in shelf : o.version = v - 1

Cached(q, r) == IF q.cache = None THEN cache ELSE [cache EXCEPT ![q.cache] = r]

Complete(w, u, v) ==
  LET r == claim[w].run
      q == requestOf[r] IN
  /\ pc[w] = "finalize"
  /\ Owns(w)
  /\ ~CancelPending(w)
  /\ NextVersion(q, v)
  /\ outputs' = outputs \cup {[run |-> r, kind |-> q.kind, scope |-> q.scope, version |-> v,
                               generation |-> claim[w].generation]}
  /\ cache' = Cached(q, r)
  /\ ledger' = [ledger EXCEPT ![r] = Charge(q, u)]
  /\ thisMonth' = thisMonth \cup {r}
  /\ events' = [events EXCEPT ![r] = @ \cup CompletionRows(r, claim[w].generation)]
  /\ nextEvent' = [nextEvent EXCEPT ![r] = @ + 2]
  /\ CloseRun(r, "completed")
  /\ Release(w)
  /\ UNCHANGED <<attempts, generation, cancelRequested, apiVars>>

Retries(w) == pc[w] = "failTransient" /\ claim[w].attempts < MaxAttempts

\* _failure while attempts remain: back to the queue, the reservation kept and
\* the deltas of this attempt deleted.
Requeue(w) ==
  LET r == claim[w].run
      g == claim[w].generation IN
  /\ Retries(w)
  /\ Owns(w)
  /\ status' = [status EXCEPT ![r] = "queued"]
  /\ owner' = [owner EXCEPT ![r] = None]
  /\ lapsed' = [lapsed EXCEPT ![r] = FALSE]
  /\ events' = [events EXCEPT ![r] = {e \in @ : e.type # "text" \/ e.generation # g}
                                       \cup {EventRow(r, 0, "retry", g)}]
  /\ nextEvent' = [nextEvent EXCEPT ![r] = @ + 1]
  /\ Release(w)
  /\ UNCHANGED <<attempts, generation, cancelRequested, reserved, apiVars, resultVars>>

\* _failure otherwise.
FailForGood(w) ==
  /\ pc[w] \in {"failTransient", "failPermanent"}
  /\ ~Retries(w)
  /\ Owns(w)
  /\ CloseRun(claim[w].run, "failed")
  /\ AddEvent(claim[w].run, "failed", claim[w].generation)
  /\ Release(w)
  /\ UNCHANGED <<attempts, generation, cancelRequested, apiVars, resultVars>>

\* A transaction of a claim that was superseded (StaleClaim, or a silent return)
\* writes nothing.
DiscardStale(w) ==
  /\ pc[w] \in {"cancel", "finalize", "failTransient", "failPermanent"}
  /\ ~Owns(w)
  /\ Release(w)
  /\ UNCHANGED <<apiVars, rowVars, eventVars, resultVars>>

\* _failure swallows a database error: the run stays running until its lease lapses.
DropFailure(w) ==
  /\ pc[w] \in {"failTransient", "failPermanent"}
  /\ Release(w)
  /\ UNCHANGED <<apiVars, rowVars, eventVars, resultVars>>

\* The process dies; the supervisor restarts it under a fresh owner uuid, which
\* like a worker without a claim owns nothing.
Crash(w) ==
  /\ pc[w] # "poll"
  /\ Release(w)
  /\ UNCHANGED <<apiVars, rowVars, eventVars, resultVars>>

\* The calendar month turns: month_usage no longer counts the older rows.
NewMonth ==
  /\ thisMonth # {}
  /\ thisMonth' = {}
  /\ UNCHANGED <<outputs, cache, ledger, apiVars, rowVars, eventVars, workerVars>>

-----------------------------------------------------------------------------
Submit(q) == Replay(q) \/ ServeFromCache(q) \/ Enqueue(q)

Poll(w) == SweepOnly(w) \/ \E r \in Runs : Claim(w, r)

\* What a live worker always gets to: httpx bounds the provider call by 60 s.
Generated(w) == Answered(w) \/ TransientError(w) \/ PermanentError(w)

Settle(w) ==
  \/ CancelClaimed(w)
  \/ \E u \in Usages, v \in 0..MaxRuns : Complete(w, u, v)
  \/ Requeue(w)
  \/ FailForGood(w)
  \/ DiscardStale(w)
  \/ DropFailure(w)

Worker(w) ==
  Poll(w) \/ ReadCancel(w) \/ Renew(w) \/ EmitText(w) \/ Generated(w) \/ Settle(w) \/ Crash(w)

Next ==
  \/ \E q \in Requests : Submit(q)
  \/ \E r \in Runs : RequestCancel(r) \/ Lapse(r)
  \/ \E w \in Workers : Worker(w)
  \/ NewMonth

Spec == Init /\ [][Next]_vars

-----------------------------------------------------------------------------
(* Fairness. Compose restarts the worker service, serve() polls for ever,   *)
(* httpx gives a provider call 60 s, and wall-clock time passes every lease. *)
(* A crash, a renewal, a text delta or a client's request is never owed.     *)

Fairness ==
  /\ \A w \in Workers : /\ WF_vars(Poll(w))
                        /\ WF_vars(ReadCancel(w))
                        /\ WF_vars(Generated(w))
                        /\ WF_vars(Settle(w))
  /\ \A r \in Runs : WF_vars(Lapse(r))

FairSpec == Spec /\ Fairness

-----------------------------------------------------------------------------
(* Properties.                                                             *)

EventTypes == {"queued", "started", "text", "usage", "retry"} \cup Terminal

EventRows == [id : Nat, type : EventTypes, generation : Nat]
Answers == [run : Runs, kind : Kinds, scope : {q.scope : q \in Requests},
            version : Nat, generation : Nat]
Claims == [run : {0} \cup Runs, generation : Nat, attempts : Nat]
Points == {"poll", "claimed", "cancel", "generate", "finalize", "failTransient", "failPermanent"}

ApiTypeOK ==
  /\ created \in 0..MaxRuns
  /\ requestOf \in [Runs -> Requests \cup {None}]
  /\ reply \in [Requests -> {0} \cup Runs]

RowTypeOK ==
  /\ status \in [Runs -> {"absent"} \cup Open \cup Terminal]
  /\ attempts \in [Runs -> 0..MaxAttempts]
  /\ generation \in [Runs -> Nat]
  /\ owner \in [Runs -> Workers \cup {None}]
  /\ lapsed \in [Runs -> BOOLEAN]
  /\ cancelRequested \in [Runs -> BOOLEAN]
  /\ reserved \in [Runs -> Nat]

EventTypeOK ==
  /\ events \in [Runs -> SUBSET EventRows]
  /\ nextEvent \in [Runs -> Nat]

ResultTypeOK ==
  /\ outputs \subseteq Answers
  /\ cache \in [CacheKeys -> {0} \cup Runs]
  /\ ledger \in [Runs -> Nat]
  /\ thisMonth \subseteq Runs

WorkerTypeOK ==
  /\ pc \in [Workers -> Points]
  /\ claim \in [Workers -> Claims]
  /\ lost \in [Workers -> BOOLEAN]

\* Every variable has its type, and no run is attempted more than max_retries + 1
\* times.
TypeOK == ApiTypeOK /\ RowTypeOK /\ EventTypeOK /\ ResultTypeOK /\ WorkerTypeOK

\* claim_generation is a fencing token: whatever leases lapsed and were taken
\* over, no two workers hold the same run under the same generation, and one that
\* holds a running run under the row's generation is the row's lease_owner.
FencingToken ==
  \A w \in Workers : claim[w].run # 0 =>
    LET r == claim[w].run IN
      /\ claim[w].generation <= generation[r]
      /\ claim[w].generation = generation[r] /\ status[r] = "running" => owner[r] = w
      /\ \A x \in Workers \ {w} : claim[x].run = r => claim[x].generation # claim[w].generation

\* A run has an answer exactly when it is completed, one answer only, written by
\* its last claim, and is charged exactly then: the unique indexes on run_id of
\* messages, artifacts and usage_ledger are never what stops a second one.
AnsweredOnce ==
  /\ \A o \in outputs : status[o.run] = "completed" /\ o.generation = generation[o.run]
  /\ \A o, p \in outputs : o.run = p.run => o = p
  /\ \A r \in Runs : status[r] = "completed" => /\ \E o \in outputs : o.run = r
                                                /\ ledger[r] > 0
  /\ \A r \in Runs : ledger[r] > 0 => status[r] = "completed"

\* A cancellation the queue has acknowledged wins over an answer that arrives
\* later: a flagged run is never answered and never charged.
CancelBeatsAnswer ==
  \A r \in Runs : cancelRequested[r] =>
    ledger[r] = 0 /\ \A o \in outputs : o.run # r

\* Deltas of a failed or superseded attempt are gone once the run is queued again
\* or claimed again: the text rows of a run are all of its current claim.
TextOfOneAttempt ==
  \A r \in Runs : \A e \in TextRows(r) :
    status[r] # "queued" /\ e.generation = generation[r]

\* The event log tells the run's story: one terminal event, the last one, exactly
\* when the run is terminal, and of its status; one "started" per attempt, however
\* the attempts ended.
LogAgrees ==
  \A r \in Runs :
    /\ \A e \in events[r] : e.type \in Terminal =>
         e.type = status[r] /\ \A f \in events[r] : f = e \/ f.id < e.id
    /\ status[r] \in Terminal => \E e \in events[r] : e.type = status[r]
    /\ Cardinality({e \in events[r] : e.type = "started"}) = attempts[r]

\* Every path out of queued and running releases the whole reservation, and no
\* path between them (claim, takeover, retry) touches it.
ReservationHeld ==
  \A r \in Runs :
    reserved[r] = IF status[r] \in Open THEN Reservation(requestOf[r]) ELSE 0

\* What of an answer the reservation it had has covered.
Covered ==
  [r \in thisMonth |-> IF ledger[r] > Reservation(requestOf[r]) THEN Reservation(requestOf[r])
                       ELSE ledger[r]]

\* The admission ceiling: this month's answers, each counted up to what was
\* reserved for it, and the work in flight never exceed the budget. What a
\* provider reports beyond the reservation is the only overrun.
BudgetHeld == SumOver(Covered, thisMonth) + ReservedTokens <= Budget

\* One idempotency key, one run: a POST repeated after a lost answer never makes
\* a second run, and gets back the run it made.
OneRunPerKey ==
  \A r \in Accepted :
    /\ reply[requestOf[r]] = r
    /\ \A s \in Accepted : SameKey(requestOf[r], s) => r = s

\* Whichever worker finishes first, what a generation leaves can be found: a cache entry
\* serves a run that was asked for that very digest and whose artifact exists, and the
\* artifacts of one kind and scope are numbered 1, 2, ... without gap or repetition.
ArtifactsAreFound ==
  /\ \A k \in CacheKeys : cache[k] # 0 =>
       /\ requestOf[cache[k]].cache = k
       /\ \E o \in outputs : o.run = cache[k]
  /\ \A o \in {x \in outputs : x.kind # "chat"} :
       LET shelf == {p \in outputs : SameShelf(o, p)} IN
         /\ \A p \in shelf : p.version = o.version => p = o
         /\ o.version \in 1..Cardinality(shelf)

\* A run that is settled stays as it was settled: no later claim, cancellation,
\* sweep or stale worker changes its row, its events, its answer or its charge.
SettledIsFinal ==
  [][\A r \in Runs : status[r] \in Terminal =>
       /\ status'[r] = status[r] /\ reserved'[r] = reserved[r]
       /\ cancelRequested'[r] = cancelRequested[r] /\ generation'[r] = generation[r]
       /\ events'[r] = events[r] /\ ledger'[r] = ledger[r]
       /\ {o \in outputs' : o.run = r} = {o \in outputs : o.run = r}]_vars

Superseded(w) == LET r == claim[w].run IN
  status[r] # "running" \/ generation[r] # claim[w].generation

\* A worker whose claim was superseded leaves without writing anything.
StaleWritesNothing ==
  [][\A w \in Workers : pc[w] # "poll" /\ pc'[w] = "poll" /\ Superseded(w) =>
       UNCHANGED <<rowVars, eventVars, resultVars>>]_vars

\* Crashes, takeovers, transient errors and dropped failures notwithstanding,
\* every run nobody cancels is answered or fails.
Settles ==
  \A r \in Runs :
    (status[r] \in Open) ~> (status[r] \in Terminal \/ cancelRequested[r])

-----------------------------------------------------------------------------
(* The contract the queue keeps.                                           *)

Phase == [r \in Runs |-> IF status[r] \in Open THEN "open" ELSE status[r]]

Contract == INSTANCE JobContract WITH
  Jobs <- Runs, phase <- Phase, hold <- reserved, charged <- ledger,
  answered <- {o.run : o \in outputs}

\* Every step of the queue is a step of the contract or invisible to the client.
KeepsContract == Contract!Spec

-----------------------------------------------------------------------------
(* What a document says of a cancellation, and the code does not do.       *)

\* docs/community-ai-operations.md: "running cancellation is cooperative and durable", so a run whose
\* cancellation was acknowledged ends, whoever was working on it.
CancelTakesEffect ==
  \A r \in Runs : cancelRequested[r] ~> (status[r] \in Terminal)

=============================================================================
