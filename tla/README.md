# A verification development of Interview Prep OS

Interview Prep OS is a self-hosted trainer for coding interviews: a FastAPI web process over a
core SQLite database (problems, a queue, assignments, practice sessions, attempts, a learner model),
an optional AI coach whose runs are queued in a second SQLite database and answered by a separate
worker process, importers of curricula and of a starter pack, and an optional bridge to an older
command-line tracker ("legacy", also driven by a Telegram bot) whose state is imported.

This directory holds TLA+ modules translated from that code, TLC configurations that check them on
small instances, and theorems that TLAPS proves for every value of the constants. `PROJECT.json`
lists the runs, maps each definition to the lines it models, and names the hazards the properties
are for.

    tlc -workers 2 -config AIRuns_lifecycle.cfg MC_AIRuns     # one run
    tlapm Sessions_proofs.tla                                 # the proofs of one module

## 1. Inventory

| part | code | state | operations | hard because |
|---|---|---|---|---|
| AI run queue | `app/ai/repository.py`, `ai_db.py` | `runs`, `run_events`, `cache_entries`, `usage_ledger`, `messages`, `artifacts` in ai.db | enqueue, claim, renew lease, request cancel | duplicated POSTs, leases that lapse under a live worker, budget shared by everything in flight |
| AI worker | `app/ai/worker.py` | its claim, `lost` flag; several processes may run | claim, stream, renew in a second task, finalize, fail, cancel | crashes between transactions, takeover, cancellation that races an answer |
| AI HTTP API | `app/ai/api.py` | none of its own | submit (commits to two databases), cancel, event stream | two commits, a stream that polls two tables without a transaction |
| Practice sessions | `app/sessions.py` | `practice_sessions`, `session_hint_events` | start, continue, reveal, record attempt, abandon | two kinds of session and the older assignment endpoints write the same facts |
| Assignments, attempts | `app/services.py`, `app/attempts.py`, `app/scheduler.py` | `assignments`, `attempt_events`, `memory_states`, `reviews` | reveal, record, transition, schedule | idempotency keys chosen by the client, normalisation of evidence |
| Legacy bridge | `app/services.py`, `app/sessions.py`, `scripts/import_legacy.py` | `request_log` claims, imported rows | claim, run external command, import, record | an external process that can fail, time out or act twice, and other writers of its log |
| Learner model | `app/learning.py` | none (reads evidence; stores decisions) | observations, states of skills, gates, traps, recommendation | long chains of derived beliefs, fed by web, tracker and restarts in any order |
| Schema | `app/db.py`, `ai_db.py` | `schema_migrations`, `ai_schema_migrations` | migrate at start | several processes and releases start at once, and die between steps |
| Catalogue and queue | `app/repository.py`, `curriculum.py`, `community.py`, `scripts/import_*.py`, `services.py` | `problems`, `problem_skills`, `curriculum_items`, `queue_items` | seed, import, edit | sources that name a problem differently, in any order, again and again |
| Backup | `scripts/community_data.py` | an archive | backup, restore | runs beside the application |
| Lesson resolver | `app/content.py`, `lessons.py`, `roadmap.py` | none | parse, resolve | none of the kinds above |
| Read models, HTTP | `main.py`, `api.py` | none | queries | none |
| Web client | `frontend/src` | pending AI run in local storage | post, follow, resume | a reload between POST and answer |

How they interact. The web process writes core.db, and ai.db when a run is submitted or cancelled;
the worker sees ai.db only; importers write core.db beside the web process. Every write is one
`BEGIN IMMEDIATE` transaction, so the writers of one database are serialised; what interleaves are
transactions, autocommit reads, the provider call and the external command between them. Clients poll
or stream events and repeat a POST whose answer they did not see.

What makes each part correct:

* queue and worker: a run is answered and charged at most once, by the holder of its last claim;
  an acknowledged cancellation wins; every accepted run settles; the budget is never overcommitted;
  a key or a digest never yields two runs or somebody else's answer;
* event stream: what a client accumulates is the answer, and the stream ends with its last event;
* sessions: one open session per piece of work, one attempt per completed session, hints unlocked in
  order, and evidence that is never more independent than what happened;
* bridge: an operation reaches the tracker at most once and is recorded if it did, and evidence
  imported for somebody else is not taken for one's own;
* learner model: what is believed moves the way the evidence points, no reported failure is lost,
  and what is remembered is of the latest attempt here, whatever an import wrote before it;
* schema: markers and schema never part, whoever migrates, and the newest release ends up serving;
* catalogue: what was filed under a name stays where the name leads, repeated imports change nothing,
  and none undoes what the learner decided.

## 2. Modules

| module | models | composed of |
|---|---|---|
| `JobContract` | what the queue promises to whoever submits a job (abstract) | - |
| `ClaimContract` | what the bridge promises for an attempt it submits to the tracker (abstract) | - |
| `AIRuns` | the run queue and its workers | implements `JobContract` (`KeepsContract`) |
| `EventStream` | a client that follows one run by server-sent events | extends `AIRuns`, whose steps interleave with the reader's |
| `Sessions` | sessions, assignments, evidence, and the acceptance of coaching across two databases | - |
| `LegacyBridge` | claims, external command, import and record, with the tracker and its bot as environment | implements `ClaimContract` (`KeepsClaims`) |
| `LearnerModel` | the evidence, and everything that is believed because of it | - |
| `Catalogue` | problems, queue, placements and skills under every importer, a restart and the learner's edits | - |
| `Migrations` | concurrent migration of both databases, backup and restore | - |
| `*_proofs` | theorems about `AIRuns` (two modules), `EventStream`, `Sessions`, `LegacyBridge`, `LearnerModel`, `Catalogue`, `Migrations` | extend these |
| `MC_*` | small instances of the above | extend these |

A definition that precedes another of the same parameters, and that no action uses, is a seeded fault
of it: `PROJECT.json` pairs each property with the fault that breaks it.

### AIRuns

The columns of `runs` are variables indexed by run (`status`, `attempts`, `generation`, `owner`,
`cancelRequested`, `reserved`), a run being its rank in `created_at` order, the order `claim()`
uses. `lapsed[r]` stands for `lease_until < now`, the only use of time: `Lapse` may happen at any
moment to a running run, a renewal undoes it. `events` is `run_events`, `ledger` is
`usage_ledger`, `outputs` the assistant messages and artifacts, `cache` is `cache_entries`,
`thisMonth` the ledger rows `month_usage` counts. `pc`, `claim` and `lost` are local to a worker.

| code | actions |
|---|---|
| `repository.enqueue` | `Replay`, `ServeFromCache`, `Enqueue`; a refusal (409, 429) changes nothing and is no step |
| `repository.request_cancel` | `CancelQueued`, `FlagRunning` |
| `repository.claim` with its sweep | `Claim`, `SweepOnly`, sharing `ClaimTransaction` |
| `Worker.run_once` | `ReadCancel`, then `Answered`, `TransientError` or `PermanentError`, then `Settle` |
| `_renew_loop` in its own task | `Renew`, interleaved with the provider call |
| `_text_event` | `EmitText` |
| `_finalize` / `_cancel` / `_failure` | `Complete`, `CancelClaimed` / `CancelClaimed` / `Requeue`, `FailForGood`, `DropFailure` (its swallowed database error); `DiscardStale` when the ownership check refuses |
| process death at any point | `Crash` |

What is abstracted: prompts, answers and digests are values of small sets; a provider reports one of
`Usages` (nothing, or more than it was allowed); all deltas of one attempt are one row.

### EventStream

`stream_events` is a loop of two autocommit statements, `ReadRows` and `ReadStatus`, then `Send` for
each row fetched. `Connect` starts it at the cursor the client sends as Last-Event-ID; `Drop` ends it
anywhere with its fetched rows. Heartbeats are left out.

### Sessions

Each operation is one transaction, so one action: `Start`, `Continue`, `RevealInSession`,
`RecordForSession`, `Abandon` of `sessions.py`, `RevealForAssignment` and `RecordForAssignment` of the
older endpoints in `services.py`. What an operation answers (created, continued, replayed, duplicate,
conflict) is an operator (`StartAnswer`, `SessionAnswer`, `AssignmentAnswer`), so that properties can
say what a *retry* would be answered in any reachable state. `Normalized`, `Counts` and `Completes`
are `record_attempt_evidence` and `apply_assignment_transition`. The acceptance of coaching is two
actions, `CoachInCore` then `CoachInAI`, or `CoachLost`: `post_message` opens a transaction on ai.db
and commits one on core.db inside it. Dates, durations, explanation scores and memory arithmetic are
abstracted here; a report is its result and its claim of independence.

### LegacyBridge

An operation (`Ops`) is an attempt or a hint, of a session or of its assignment. A request runs
`Begin` (the first transaction, with `begin_claim`), the external command (`ActionSucceeds`,
`ActionFails`, `ActionTimesOut`), `MarkActed` or `DropClaim`, the import in two steps (`SyncRead`
reads the files, `SyncCommit` is the importer's transaction) and `Record`. `Crash` may end a request
between any two. `before` and `phase` are the local variables the code carries from the first
transaction to the last one, and they are stale by then: this is where most counterexamples to
comments are.

The tracker's script and the bot are not in the repository. They are modelled by what the code in
`src/` relies on and imports: an outcome appends one event to the log and ends the round of the
active problem, so that the next round starts without hints and may be of the same assignment; a
hint raises the active problem's highest hint; nothing succeeds without an active problem. The
importer's two files are read in one step.

`ClaimContract` forgets requests, sessions, hints and the importer's files. A claim has a status and an
owner; commands leave receipts (the tracker's rows that have a claim), of which some were brought home
(imported) and some were lost sight of (`orphaned`). What the contract adds to the invariants is the
order: run, mark, bring home, complete, each only after the one before it for the very same operation,
and giving up only while no run is known of.

### LearnerModel

Facts change by four actions: `Attempt` (`record_attempt_evidence`: normalisation, the row, its
classification, and `schedule`), `Import` (the tracker's log and its state file), `Seed` (a start of
the web process, which classifies) and `Sleep` (days). `events`, `classified`, `memory` are
`attempt_events`, `attempt_errors` and `memory_states`.

The two files an import reads are independent of each other. A line of the log (`Logged`) has the
date it was logged with, today or an earlier one, so it may come to stand anywhere among the rows
that are there. `Copy` overwrites the memory of every problem that `problem_memory` of the state file
names, with or without a line in the log, and of no other. Nothing is checked on the way: `States` has
whatever the file may hold, a missing date becomes today's (`Filled`), and a row without a memory, or a
memory without a row, is an ordinary state. An import that brings several new lines is several
imports. Of a line the model assumes that its fields are those of `Outcome`, which the importer does
not validate. `copied` is a history variable: the problems whose memory an import wrote and no
attempt here has rewritten since.

Everything `learning.py` derives is an operator, as it is a computation there: `Signal` and
`Observations` (`derive_observations`), `Proven`, `Decays`, `Naive` (`_dimension_state`),
`SkillState` (`compute_skill_states`, with the blocking by weak prerequisites), `Readiness`, `Gated`,
`NextGate`, `TrapEvidence`. The arithmetic is on integers: stabilities in thousandths of a day,
readiness in hundredths, and the exponential decay as the comparison
with the elapsed time at which it crosses the target. Half-way rounding of Python, which rounds to even, differs from
`(s + 500) \div 1000` only in the interval of a memory, and no property compares intervals. An
explanation score, a number from 0 to 5, counts in tenths; `learning.py` only asks whether it is at least
4 or at least 3. The scores that rank problems of one class
are left open, so that whatever holds of a selection holds of every ranking.

### Catalogue

A run of an importer is one transaction made of statements (`PlanEntry`, `Release`, `Active`, `Event`,
`Item`, `Converge`, `StarterProblem`, `Seed`), taken one at a time by `Step` until `Commit`;
`Jobs` are the importers, of which `Run` names and statements are, and `UpdateQueue` is the learner;
`last` is the run that nothing has come after, a ghost for the property about repetition. `Found`, `RowOf` and `Merged` are
`ensure_problem`: first the LeetCode id, then the slug. A reference is an id, a slug and a pattern;
titles, levels, positions and source URLs are left out. An event of the log that is known keeps its
problem. Of an imported assignment the model keeps the problem: two assignments of the tracker with
one id and different problems are not represented.

### Migrations

A start reads the applied versions outside of any transaction (`Start`) and then runs one transaction
per pending version (`Apply`), which fails on a marker that is there or a column that exists
(`Collide`). `MigrateAI` is the single transaction on ai.db. `Crash` may kill a process between any
two; `BackupCheck` and `BackupCopy` are the two reads of a backup, `Restore` needs everything stopped,
as the documentation asks. A file is the set of versions it is marked with and the set whose script
has changed it, so that the model can tell a marker from a schema.

## 3. Runs

| run | instance | what it shows |
|---|---|---|
| `lifecycle` | 2 workers, a chat and a lesson, 2 attempts | types, fencing, one answer and one charge, cancellation wins, text of one attempt, log and reservation agree with the row; a settled run is final, a superseded worker writes nothing, `AIRuns` implements `JobContract` |
| `admission` | 4 payloads sharing keys, a digest and a shelf, one too large to admit, 2 runs, 2 attempts, tight budget, 2 workers | the budget is never overcommitted, a key never makes two runs; whichever worker finishes first, an artifact has a version of its own, and a digest leads to its answer |
| `progress` | 1 worker that may crash, 2 runs, 2 attempts, fair | a run nobody cancels settles, whatever state the other one is stuck in |
| `stream` | 2 workers, 1 run, batches of 2, a lost connection, fair | nothing behind the cursor was missed, a restart is announced, the stream ends |
| `sessions` | 1 assignment, 2 sessions, 2 event ids, 2 hint levels, green and skipped reports | see below |
| `bridge_claims` | 2 requests that may die, 2 sets of facts, the bot, 3 log entries | a completed claim and a closed session have evidence, no command runs twice unless its request died or gave up before marking it, and `LegacyBridge` implements `ClaimContract`, so what is marked has run and never runs again |
| `bridge_hints` | 2 requests that may die, 2 levels, the bot | no session shows a level beyond what the tracker was told, and the assignment carries one it was told |
| `learner` | 2 problems, 2 skills, one needs the other; 6 reports, a log with a failure or a proof, a state file with a long and a short undated memory or with none, 3 attempts, 3 days | readiness and gates move with the evidence only; reported failures count at once, skips in no trap; memory is of the latest attempt here until an import writes it |
| `catalogue` | 2 problems under 3 slugs, three importers, starts of the web process, 5 runs, 2 edits | references keep their row, a repeated import changes nothing, what was shelved stays so |
| `migrations` | an older and a newer web process, an importer, the worker; fresh file or version 2; 2 deaths, a restore; fair | markers tell the schema, versions in order, who is up is migrated, the newest ends up serving |
| `cancel` | 1 worker, 1 run, fair | finding 1 |
| `hinted_green` | 1 session | finding 2 |

The `sessions` run has one instance for all of `Sessions`, because its operations touch the same rows:
at most one open session per piece of work; a session is completed by exactly one attempt, an
assignment by exactly one independent green, and both for good; a retried start or attempt is answered by
what the first one made; evidence counts agree with the attempts; hints unlock in order on every
endpoint and count against extra practice; and coaching that was accepted is never followed by an
independent attempt of its session, whatever is lost between the two commits.

`ReadinessFollowsEvidence` of the `learner` run is the property of the learner model that no unit test
states: it compares every cell of every skill, and every gate, before and after a step. An attempt
that only failed may lower and block, also skills that depend on it; it may not raise anything,
though it resets the memory that decay is computed from. An attempt that only proved something may
not lower anything, with two exceptions. The first is a red attempt that is blamed on communication and
explained well, within three days of the previous one: it proves the explanation and nothing else, yet
the memory of its skill shrinks, and an old proof decays sooner. (The proof of the theorem found this
exception; the bounds of the run are too small for it.) The second is the first memory of a skill:
what was proven in imported rows only does not decay (`app/learning.py:294` wants a stability), until a
clean attempt here leaves a memory of some two days, by which a proof of testing, explanation or
retention that is older is decaying at once. Of the core dimensions there is no such exception, because
a clean attempt proves them itself. Mixed attempts may do both and are not constrained.

`MemoryFollowsEvidence` says what survives the importer, which checks nothing: from the first attempt
here on that is no skip, a memory is sound again and as of the latest attempt here, until the next
import writes it; and no line of the log, no skip makes a memory by itself. While a memory is the
importer's nothing is claimed of it (see `LearnerModel_memory` in section 6).

Bounds. `MaxRuns`, `MaxSessions`, `MaxLog`, `MaxDrops`, `MaxAttempts`, `MaxDay`, `MaxEdits`,
`MaxCrashes` and `MaxRestores` cap counters that only grow; each is large enough for the hazard it
serves. Two workers and two attempts contain a takeover, a return of the first worker, a retry and an
exhausted run. Two runs suffice for the claim order, for one run being stuck, and for two versions of one
shelf: of one digest and published in either order, or of two bodies one after the other. In `admission`
the second submission is a replay, a conflict, a hit of the cache, one that fits beside the first, one
that does not fit before the first has ended or the month is over, or one that is too large. Two event
ids are needed to record through both endpoints, two hint levels for their order. A hinted green is recorded yellow, which ends as red does,
and a coached green is not independent, so green and skipped reports reach every outcome. Three log
entries hold a session's attempt, its duplicate and one of the bot. The attempts and the hints of the
bridge are checked apart, because together they are too many states; in `bridge_hints` nobody records
an attempt, so the round does not end. Three attempts and three days hold two proofs (the threshold) and
a failure or a third proof, with a gap that counts for retention and a decay, on two problems that share
a skill. Five
runs of importers hold every order of two of them, each repeated, after a third. In `migrations` the
older release knows 2 versions, the newer 3, of which the last two add a column, so that a collision
and a newer file both occur; two deaths can hit the same version twice. Symmetry is used only where no
liveness is checked.

Deadlock is checked in `migrations`, where a backup can always be taken, and not elsewhere: the other
systems may stop, when the bounded requests are used up and nothing is queued.

## 4. Fairness

`AIRuns!Fairness` asks that a worker that could poll, read the cancel flag, hear from its provider
or settle what it has, does so, and that time passes every lease. The worker service is restarted by
compose, `serve()` polls for ever, and httpx bounds the provider call. A crash, a renewal, a delta and every
request of a client are never owed. `DropFailure` is one of the ways to settle, so the swallowed database error is
not assumed away. Retries are bounded by `attempts`, which is why no strong fairness is needed.
`EventStream!StreamFairness` asks that the event loop runs the generator and that a client that
still waits reconnects. `Migrations!Fairness` asks that a process that runs gets on, and that compose
restarts a web process (`restart: unless-stopped`); nobody restarts an importer, and a death is never
owed. The other modules state no liveness: their operations happen when a client or an operator asks.

## 5. Proofs

Eight modules; each theorem holds for every value of the constants that satisfies the named assumptions
of its module: sizes and bounds are natural numbers, `None` is no value, and requests, reports and
sources are of the shape the code admits. Between them the theorems state every invariant, action property
and refinement that a passing run checks.

`AIRuns_proofs`: `TypeCorrect`, `Fenced`, `NoSecondAnswer`, `CancelWins`, `NoMixedText`,
`NoReservationLeak`, `Settled` (no action
touches a settled run) and `ImplementsContract` (the refinement of `JobContract`). The argument is one
inductive invariant, `IInv == TypeOK /\ StateInv`. The properties are not inductive alone: that a
worker passing the ownership check is at a row that exists needs `RowsInv`, that a new generation is
nobody's needs `ClaimsInv` (a worker has a claim exactly while it is not polling), and that an answer
is the only one of its run needs the fence and `AnsweredOnce` together. `TypeStep` and `StateStep`
have one step per action; actions that share a shape go through frame lemmas. `ContractStep` maps
each action to `Accept`, `Answer`, `GiveUp` (a whole sweep), `Cancel` or a stutter under the mapping
of `Phase`.

`AIRunsResults_proofs`, on top of that invariant: `BudgetHeldHolds`, `StaleWritesNothingHolds`,
`OneRunPerKeyHolds`, `ArtifactsAreFoundHolds` and `LogAgreesHolds`. `BudgetHeld` is about sums over sets that
change one run at a time: `SumOver` is the fold of the community modules, so the recursive function it
is defined by is first shown to exist, and what it returns for a set with one element more or less is then
an induction on cardinality, taken as a least counterexample because the library's induction rules are
out of the provers' reach. `BudgetInv` adds that what is charged this month is settled, so that a run
leaves the reserved part exactly when it enters the charged one, with no more than it had reserved. A worker that returns to polling was the owner of its run
or wrote nothing (`SilentFrame`). `OneRunPerKey` is inductive. `Shelved` adds to `ArtifactsAreFound` that
the outputs are finitely many, so that one more artifact raises the count that bounds its version.
`Logged` adds to `LogAgrees` that every row has an id below the next one and that the started rows are
finitely many: an appended row is then the last, and `LogAppend` serves every action that writes one.

`EventStream_proofs`, on top of both: `NothingSkippedHolds` and `RestartIsAnnouncedHolds`, whatever the
batch size and the number of lost connections. `OrderedRun` says what a reader may rely on in a log
from which deltas are deleted (ids are below the next one, a delta has the start of its attempt before
it), `LogGoesOn` what one step of the queue may do behind its back: only text goes, and whatever comes has a higher id.
Of the reader, `InSequence` says that a fetched batch has no gap after the cursor that the log could
still fill, and `Announced` that the starts of fetched deltas are in the log at the right place. The
properties then follow for a client that reconnects anywhere, because the cursor moves with the events.

`LegacyBridge_proofs`: the types, all properties of the runs `bridge_claims` and `bridge_hints`, and
`MarkedNeverActsAgain`, for any number of requests. `Owning` is the invariant of the claims: a request between its `begin_claim` and
its mark is alone on its claim, which is pending and not old, and after its mark the claim is acted on.
`Accounted` adds that an entry of the log belongs to an acted claim, to the request that is about to
mark it, or to one that died; so a command that runs finds no entry. `Evident` carries the evidence from
the mark over the import into the claim, `Closed` from there into the session, and `Told` does the same
for the levels of hints, through what a request has read of the tracker. `KeepsClaimsHolds` is the
refinement of `ClaimContract`: a request that is about to run its command, or to drop its claim, finds it
clear (`HeldIsClear`, from `Accounted` and from being alone on it), one that is about to mark it, or dies
there, has a receipt of its own operation (`MarkedHasRun`, from `Evident`), and receipts are numbered by
the rows there were (`Numbered`). A claim that is taken over because it is old, or completed twice, is a
stutter. `ExactlyOnceWithoutFaults` says what is left of the two comments that fail under time-outs and crashes:
without them (`Faults = {}`) a claim is at most one row and a dropped one is none, whatever else overlaps.

`Sessions_proofs`: the types and all eight properties of the `sessions` run. `Typed` says what a row
refers to (`Rows`, `Origins`); each property then has a strengthening of its own that is preserved on
top of it. `Requests`: request ids are unique. `Closing` and `Completing`: the set of attempts that
closed a session, or completed an assignment, has exactly one member if its status says so, and none
otherwise. `Counting`: the attempts are finitely many and counted one by one. `Assisting`: a session
with an accepted run is marked in core.db first. `Ladder`: the levels of an assignment are closed
downwards, a scheduled session counts no more than its assignment was shown, an extra one counts
exactly what it revealed.

`LearnerModel_proofs`: types, `ReportedFailuresCountHolds`, `MemoryFollowsEvidenceHolds`,
`ReadinessFollowsEvidenceHolds`. `ScheduleBounds`
is the arithmetic of `schedule()`, for every stability and day. The first property needs
`SkipsAreUntagged`: a later start classifies whatever has a tag, so a skip must have lost its own when
it was recorded. The second assumes nothing of what the state file holds; it needs `DatedByNow` (no row
is of a later day than today), says what a row in the log (`RowInserted`) and one recorded here
(`DaysAppended`) change in the days a problem was attempted here, and that a memory nobody wrote stands
(`MemoryStands`). The third compares every cell of every skill before and after
a step: a cell hears of one attempt or of nothing (`CellOfAttempt`); a skill decays if every one of its memories
is forgotten (`ForgottenMonotone`). A red attempt shrinks one or leaves a day's stability, which is over for
whatever was forgotten before (`RedShrinks`, `ForgottenIsOfYesterday`, `RedForgets`); a clean one lengthens
one, unless it is the skill's first (`CleanRemembers`); an attempt that says only
failures is red, and one that only proves is clean or red (`AttemptSays`). So every cell `Sinks`, or every
cell that is not exempt `Climbs`, and blocking by weak prerequisites and the gates are monotone in the cells they read
(`AllSink`, `AllClimb`).

`Catalogue_proofs`: types, `ReferencesKeepTheirRowHolds`, `ShelvedStaysHolds`, `RerunChangesNothingHolds`. A reference is `Settled` in a
row if the row has its id, or, for one without an id, its slug; `Ensured` shows that `ensure_problem`
settles its reference, unsettles none and keeps slugs and ids unique. This rests on `Known`, an
assumption on the sources that no line of the code checks: none gives a slug two ids. `StatementKeeps` has one case per statement. For the repetition, `Filed`, `Kept` and `Marked` say what a statement
leaves behind that makes it idle when it is taken again, and that the statements after it do not undo
this; `InProgress` carries it through a first run and `Repeatable` to the second one. `Mirrored` says when the
backfill of skills has nothing left to do, and `DeepDone` when the convergence of levels has not.

`Migrations_proofs`: `MarkersTellTheSchemaHolds`, `VersionsInOrderHolds`, `UpIsMigratedHolds`, for any
number of processes, releases and versions. `LocalInv` says what the list read at the start is worth
later; `LowerVersionsMarked` is the heart: the smallest version a process believes pending has all
lower ones marked, because what it believes applied is applied, and markers are never taken away
while a process is up.

Only model-checked: `Settles`, `StreamEnds` and `NewestServes`, because liveness under fairness is out of
the prover's reach.

## 6. Findings

Each is the only property of a run whose counterexample is the described behaviour.

1. `CancelTakesEffect` - a run whose cancellation was acknowledged while it was running is nobody's
   once its worker dies or its provider fails: it stays running, or queued, with its reservation.
2. `HintedIsNotIndependent` - after a blind retry a hint shown in the session no longer counts
   against the session's green.

Further configurations, each of which TLC ends with a counterexample to what a comment or a document
says; run them as `tlc -config <configuration> MC_<module>`:

| configuration | property | behaviour |
|---|---|---|
| `EventStream_race` | `EndIsDelivered` | the run ends between the two reads of a poll, and the stream ends without its last events (`docs/community-ai-architecture.md` calls the stream durable) |
| `Sessions_outcome` | `OutcomeReachesCoach` | once a session has an outcome, its snapshot raises, so nothing can be asked about it (`docs/community-ai-architecture.md:28`) |
| `Sessions_retry` | `AssignmentRetryIsAnswered` | the retry of a green that completed its assignment is a conflict (`app/attempts.py:58-59` calls retries idempotent) |
| `Sessions_coached` | `CoachedWorkIsNotIndependent` | `POST /attempts` records coached work as independent (`app/db.py:298-299`) |
| `LegacyBridge_link` | `LinkedRowIsOwn` | a session may be linked to the bot's attempt (`app/sessions.py:564`: linkage "is never guessed") |
| `LegacyBridge_timeout` | `DroppedClaimDidNothing` | a command that times out may have taken effect, and its claim is dropped (`app/services.py:204`: "nothing durable happened"); it holds without faults, by `ExactlyOnceWithoutFaults` |
| `LegacyBridge_regress` | `SessionHintNeverFalls` | a slow reveal writes its level over a higher one (`app/sessions.py:273-274`) |
| `LegacyBridge_abandon` | `AbandonedHasNoEvidence` | an attempt is linked to a session abandoned meanwhile (`app/sessions.py:402-403`) |
| `LegacyBridge_reveal` | `RevealedHintIsTold` | the claim of a hint outlives its round, so the hint is shown and the tracker is not told (`docs/operations.md:100`). It rests on the tracker starting a round without hints, which the importer's `highest_hint=excluded.highest_hint` provides for |
| `LearnerModel_gate` | `GateTellsTheWay` | a cell that failed last has its independent completions already: "0 more to go", yet it is not independent (`app/learning.py:793`) |
| `LearnerModel_seen` | `FailuresAreSeen` | a failure the importer inserts is classified by the next start or import only (`app/attempts.py:11`: seen "without a restart") |
| `LearnerModel_memory` | `MemoryIsOfTheLastRow` | an import sets the memory of a problem back behind a later ad hoc attempt (`docs/architecture.md:68`) |
| `Catalogue_commitment` | `TodayIsTheCommitment` | the assigned problem was shelved, so Today recommends other work than the Solve room holds (`app/learning.py:862-863`) |
| `Catalogue_rank` | `OuttalentOutranks` | the study plan, imported later, takes the place of an Outtalent item in the queue (`app/curriculum.py:15`) |
| `Catalogue_overlap` | `OverlapIsShared` | a problem with two slugs, known first by the second one without an id, becomes two rows that share no evidence (`docs/architecture.md:90-91`) |
| `Catalogue_mirror` | `MirrorInSync` | problems the tracker's import classifies have no skill row until the next run (`app/db.py:427-428`) |
| `Migrations_stale` | `NeverServesNewer` | an older process that read the versions before a newer one migrated comes up on the newer file (`app/db.py:512-513`) |
| `Migrations_backup` | `BackupRestores` | a migration between the manifest and the snapshot makes an archive that no restore accepts (`docs/community-install.md:74`) |

## 7. Not modelled, and why

* Prompt assembly, JSON validation, DNS pinning and encryption of AI providers: data formatting
  without state; the queue sees an answer, a transient or a permanent error.
* The lesson resolver, read models, HTTP plumbing, rendering: they change no state. What a session
  sees of the resolver is a constant, and so is what an importer sees of the parsed roadmap.
* The scores that rank candidates of one class in `learning.py`, their weights and texts: a sum of
  constants per candidate whose order no document promises beyond the gate, which is modelled.
* Notes: an upsert of free text, the last one wins.
* Community set-up, secrets, deployment scripts, checksums of archives: sequential file operations by
  an operator. The restore of ai.db, which replaces a second file after the first.
* Of the bridge: coaching (`ai_assisted`) on the legacy path. Imports that overlap are in `LegacyBridge`
  (the log, the active problem), not in `Catalogue` and `LearnerModel`, where a run is never interleaved.

## 8. Plan

What would come next, in this order; each step ends with its runs and mutants, proofs after TLC agrees.

1. `LegacyBridge`: coaching (`ai_assisted`) on the legacy path.
2. `CoachPanel`: the pending request kept in local storage over a reload, composed with `AIRuns`
   admission.
3. Restore of both databases with a failure between them; in `Catalogue` and `LearnerModel`, imports that
   read their files before another one commits.
