--------------------------- MODULE AIRuns_proofs ---------------------------
(***************************************************************************)
(* What holds of the run queue for every number of workers, runs and       *)
(* attempts, every budget and every set of requests.                       *)
(***************************************************************************)
EXTENDS AIRuns, TLAPS

\* The rows 1..created exist, each with its request; the others are blank.
RowsInv ==
  \A r \in Runs :
    /\ r <= created => requestOf[r] \in Requests /\ status[r] # "absent"
    /\ r > created => /\ status[r] = "absent" /\ generation[r] = 0
                      /\ ~cancelRequested[r] /\ events[r] = {}

\* A worker holds a claim exactly while it is not polling, on an existing row,
\* under a generation the row has reached.
ClaimsInv ==
  \A w \in Workers :
    /\ pc[w] = "poll" <=> claim[w].run = 0
    /\ claim[w].run # 0 => status[claim[w].run] # "absent"

\* The inductive invariant. The fence and the rows give every transaction of a
\* worker the row it expects; the rest are the properties themselves.
StateInv ==
  /\ RowsInv
  /\ ClaimsInv
  /\ FencingToken
  /\ AnsweredOnce
  /\ CancelBeatsAnswer
  /\ TextOfOneAttempt
  /\ ReservationHeld

IInv == TypeOK /\ StateInv

LEMMA InitIInv == Init => IInv
  <1> SUFFICES ASSUME Init PROVE IInv
    OBVIOUS
  <1> USE SizesAssumption DEF Init, Runs, NoClaim
  <1>1. TypeOK
    BY DEF TypeOK, ApiTypeOK, RowTypeOK, EventTypeOK, ResultTypeOK, WorkerTypeOK,
           Claims, Points
  <1>2. RowsInv
    BY DEF RowsInv
  <1>3. ClaimsInv /\ FencingToken
    BY DEF ClaimsInv, FencingToken
  <1>4. AnsweredOnce /\ CancelBeatsAnswer /\ TextOfOneAttempt /\ ReservationHeld
    BY DEF AnsweredOnce, CancelBeatsAnswer, TextOfOneAttempt, TextRows, ReservationHeld, Open
  <1>5. QED
    BY <1>1, <1>2, <1>3, <1>4 DEF IInv, StateInv

-----------------------------------------------------------------------------
(* What the shared pieces of the transactions keep typed.                  *)

LEMMA FunctionTyped ==
  ASSUME NEW S, NEW T, NEW f, f = [s \in S |-> f[s]], \A s \in S : f[s] \in T
  PROVE f \in [S -> T]
  OBVIOUS

LEMMA EventRowTyped ==
  ASSUME EventTypeOK, NEW r \in Runs, NEW n \in Nat, NEW t \in EventTypes, NEW g \in Nat
  PROVE EventRow(r, n, t, g) \in EventRows
  BY DEF EventTypeOK, EventRow, EventRows

LEMMA AddEventTyped ==
  ASSUME EventTypeOK, NEW r \in Runs, NEW t \in EventTypes, NEW g \in Nat, AddEvent(r, t, g)
  PROVE EventTypeOK'
  <1>1. EventRow(r, 0, t, g) \in EventRows
    BY EventRowTyped
  <1>2. QED
    BY <1>1 DEF EventTypeOK, AddEvent

LEMMA CloseRunTyped ==
  ASSUME RowTypeOK, NEW r \in Runs, NEW s \in Terminal, CloseRun(r, s),
         UNCHANGED <<attempts, generation>>, cancelRequested' \in [Runs -> BOOLEAN]
  PROVE RowTypeOK'
  BY DEF RowTypeOK, CloseRun

LEMMA ReleaseTyped ==
  ASSUME WorkerTypeOK, NEW w \in Workers, Release(w)
  PROVE WorkerTypeOK'
  <1>1. NoClaim \in Claims /\ "poll" \in Points
    BY DEF NoClaim, Claims, Points
  <1>2. QED
    BY <1>1 DEF WorkerTypeOK, Release

LEMMA GotoTyped ==
  ASSUME WorkerTypeOK, NEW w \in Workers, NEW p \in Points, Goto(w, p)
  PROVE WorkerTypeOK'
  BY DEF WorkerTypeOK, Goto

LEMMA ClaimTyped ==
  ASSUME WorkerTypeOK, NEW w \in Workers
  PROVE claim[w].run \in {0} \cup Runs /\ claim[w].generation \in Nat /\ claim[w].attempts \in Nat
  BY DEF WorkerTypeOK, Claims

\* A worker that passes the ownership check holds an existing row.
LEMMA OwnedRun ==
  ASSUME TypeOK, RowsInv, NEW w \in Workers, Owns(w)
  PROVE /\ claim[w].run \in Runs
        /\ requestOf[claim[w].run] \in Requests
        /\ status[claim[w].run] = "running"
        /\ generation[claim[w].run] = claim[w].generation
        /\ owner[claim[w].run] = w
  BY ClaimTyped, SizesAssumption
  DEF TypeOK, WorkerTypeOK, ApiTypeOK, RowsInv, Owns, Runs

LEMMA ClaimTransactionTyped ==
  ASSUME RowTypeOK, EventTypeOK, NEW w \in Workers, NEW r \in {0} \cup Runs,
         r # 0 => attempts[r] < MaxAttempts, ClaimTransaction(w, r)
  PROVE RowTypeOK' /\ EventTypeOK'
  <1> USE SizesAssumption, NoneAssumption
  <1>1. RowTypeOK'
    <2> USE DEF RowTypeOK, ClaimTransaction, NextGeneration, Open, Terminal
    <2>1. status' \in [Runs -> {"absent"} \cup Open \cup Terminal]
      OBVIOUS
    <2>2. attempts' \in [Runs -> 0..MaxAttempts]
      BY DEF Runs
    <2>3. generation' \in [Runs -> Nat]
      OBVIOUS
    <2>4. owner' \in [Runs -> Workers \cup {None}]
      OBVIOUS
    <2>5. lapsed' \in [Runs -> BOOLEAN]
      OBVIOUS
    <2>6. reserved' \in [Runs -> Nat]
      OBVIOUS
    <2>7. cancelRequested' \in [Runs -> BOOLEAN]
      OBVIOUS
    <2>8. QED
      BY <2>1, <2>2, <2>3, <2>4, <2>5, <2>6, <2>7
  <1>2. \A s \in Runs : /\ EventRow(s, 0, "started", NextGeneration(s)) \in EventRows
                        /\ EventRow(s, 0, "failed", generation[s]) \in EventRows
    BY EventRowTyped DEF RowTypeOK, NextGeneration, EventTypes, Terminal
  <1>3. \A s \in Runs : events'[s] \in SUBSET EventRows /\ nextEvent'[s] \in Nat
    BY <1>2 DEF ClaimTransaction, EventTypeOK, WithoutText
  <1>4. /\ events' = [s \in Runs |-> events'[s]]
        /\ nextEvent' = [s \in Runs |-> nextEvent'[s]]
    BY Zenon DEF ClaimTransaction
  <1>5. EventTypeOK'
    <2>1. events' \in [Runs -> SUBSET EventRows]
      BY <1>3, <1>4, FunctionTyped, Zenon
    <2>2. nextEvent' \in [Runs -> Nat]
      BY <1>3, <1>4, FunctionTyped, Zenon
    <2>3. QED
      BY <2>1, <2>2 DEF EventTypeOK
  <1>6. QED
    BY <1>1, <1>5

-----------------------------------------------------------------------------
LEMMA TypeStep == TypeOK /\ RowsInv /\ [Next]_vars => TypeOK'
  <1> SUFFICES ASSUME TypeOK, RowsInv, [Next]_vars PROVE TypeOK'
    OBVIOUS
  <1>0. ApiTypeOK /\ RowTypeOK /\ EventTypeOK /\ ResultTypeOK /\ WorkerTypeOK
    BY DEF TypeOK
  <1> USE <1>0
  <1>1. ASSUME NEW q \in Requests, Replay(q) PROVE TypeOK'
    <2>1. ApiTypeOK'
      BY <1>1, SizesAssumption DEF Replay, Earlier, Accepted, Runs, ApiTypeOK
    <2>2. QED
      BY <1>1, <2>1
      DEF Replay, TypeOK, RowTypeOK, EventTypeOK, ResultTypeOK, WorkerTypeOK,
          rowVars, eventVars, resultVars, workerVars
  <1>2. ASSUME NEW q \in Requests, ServeFromCache(q) PROVE TypeOK'
    <2>1. ApiTypeOK'
      BY <1>2, RequestsAssumption
      DEF ServeFromCache, CacheServes, ApiTypeOK, ResultTypeOK
    <2>2. QED
      BY <1>2, <2>1
      DEF ServeFromCache, TypeOK, RowTypeOK, EventTypeOK, ResultTypeOK, WorkerTypeOK,
          rowVars, eventVars, resultVars, workerVars
  <1>3. ASSUME NEW q \in Requests, Enqueue(q) PROVE TypeOK'
    <2>1. created + 1 \in Runs /\ "queued" \in EventTypes /\ Reservation(q) \in Nat
      BY <1>3, SizesAssumption, RequestsAssumption
      DEF Enqueue, ApiTypeOK, Runs, EventTypes, Reservation
    <2>2. ApiTypeOK'
      BY <1>3, <2>1, SizesAssumption DEF Enqueue, ApiTypeOK, Runs
    <2>3. RowTypeOK'
      BY <1>3, <2>1 DEF Enqueue, RowTypeOK, Open
    <2>4. EventTypeOK'
      BY <1>3, <2>1, AddEventTyped DEF Enqueue
    <2>5. ResultTypeOK' /\ WorkerTypeOK'
      BY <1>3 DEF Enqueue, ResultTypeOK, WorkerTypeOK, resultVars, workerVars
    <2>6. QED
      BY <2>2, <2>3, <2>4, <2>5 DEF TypeOK
  <1>4. ASSUME NEW r \in Runs, CancelQueued(r) PROVE TypeOK'
    <2>1. RowTypeOK'
      <3>1. cancelRequested' \in [Runs -> BOOLEAN]
        BY <1>4 DEF CancelQueued, RowTypeOK
      <3>2. QED
        BY <1>4, <3>1, CloseRunTyped DEF CancelQueued, Terminal
    <2>2. EventTypeOK'
      BY <1>4, AddEventTyped DEF CancelQueued, EventTypes, Terminal, RowTypeOK
    <2>3. ApiTypeOK' /\ ResultTypeOK' /\ WorkerTypeOK'
      BY <1>4 DEF CancelQueued, ApiTypeOK, ResultTypeOK, WorkerTypeOK, apiVars, resultVars, workerVars
    <2>4. QED
      BY <2>1, <2>2, <2>3 DEF TypeOK
  <1>5. ASSUME NEW r \in Runs, FlagRunning(r) PROVE TypeOK'
    BY <1>5
    DEF FlagRunning, TypeOK, ApiTypeOK, RowTypeOK, EventTypeOK, ResultTypeOK, apiVars, rowVars, eventVars, resultVars, workerVars, WorkerTypeOK
  <1>6. ASSUME NEW r \in Runs, Lapse(r) PROVE TypeOK'
    BY <1>6
    DEF Lapse, TypeOK, ApiTypeOK, RowTypeOK, EventTypeOK, ResultTypeOK, apiVars, rowVars, eventVars, resultVars, workerVars, WorkerTypeOK
  <1>7. ASSUME NEW w \in Workers, SweepOnly(w) PROVE TypeOK'
    <2>1. RowTypeOK' /\ EventTypeOK'
      BY <1>7, ClaimTransactionTyped DEF SweepOnly
    <2>2. ApiTypeOK' /\ ResultTypeOK'
      BY <1>7 DEF SweepOnly, ClaimTransaction, ApiTypeOK, ResultTypeOK, apiVars, resultVars
    <2>3. WorkerTypeOK'
      BY <1>7 DEF SweepOnly, workerVars, WorkerTypeOK
    <2>4. QED
      BY <2>1, <2>2, <2>3 DEF TypeOK
  <1>8. ASSUME NEW w \in Workers, NEW r \in Runs, Claim(w, r) PROVE TypeOK'
    <2>1. RowTypeOK' /\ EventTypeOK'
      BY <1>8, ClaimTransactionTyped DEF Claim, Claimable
    <2>2. ApiTypeOK' /\ ResultTypeOK'
      BY <1>8 DEF Claim, ClaimTransaction, ApiTypeOK, ResultTypeOK, apiVars, resultVars
    <2>3. WorkerTypeOK'
      <3>1. [run |-> r, generation |-> NextGeneration(r), attempts |-> attempts[r] + 1] \in Claims
        BY SizesAssumption DEF Claims, NextGeneration, RowTypeOK
      <3>2. QED
        BY <1>8, <3>1 DEF Claim, WorkerTypeOK, Points
    <2>4. QED
      BY <2>1, <2>2, <2>3 DEF TypeOK
  <1>9. ASSUME NEW w \in Workers, ReadCancel(w) PROVE TypeOK'
    <2>1. ApiTypeOK' /\ RowTypeOK' /\ EventTypeOK' /\ ResultTypeOK'
      BY <1>9 DEF ReadCancel, ApiTypeOK, RowTypeOK, EventTypeOK, ResultTypeOK, apiVars, rowVars, eventVars, resultVars
    <2>2. WorkerTypeOK'
      BY <1>9, GotoTyped DEF ReadCancel, Points
    <2>3. QED
      BY <2>1, <2>2 DEF TypeOK
  <1>10. ASSUME NEW w \in Workers, Renew(w) PROVE TypeOK'
    BY <1>10
    DEF Renew, TypeOK, ApiTypeOK, RowTypeOK, EventTypeOK, ResultTypeOK, WorkerTypeOK,
        apiVars, eventVars, resultVars
  <1>11. ASSUME NEW w \in Workers, EmitText(w) PROVE TypeOK'
    <2>1. ApiTypeOK' /\ RowTypeOK' /\ ResultTypeOK'
      BY <1>11 DEF EmitText, ApiTypeOK, RowTypeOK, ResultTypeOK, apiVars, rowVars, resultVars
    <2>2. CASE Owns(w)
      <3>1. EventTypeOK'
        BY <1>11, <2>2, OwnedRun, ClaimTyped, AddEventTyped DEF EmitText, EventTypes, TypeOK
      <3>2. WorkerTypeOK'
        BY <1>11, <2>2 DEF EmitText, WorkerTypeOK, workerVars
      <3>3. QED
        BY <2>1, <3>1, <3>2 DEF TypeOK
    <2>3. CASE ~Owns(w)
      <3>1. EventTypeOK'
        BY <1>11, <2>3 DEF EmitText, EventTypeOK, eventVars
      <3>2. WorkerTypeOK'
        BY <1>11, <2>3, ReleaseTyped DEF EmitText
      <3>3. QED
        BY <2>1, <3>1, <3>2 DEF TypeOK
    <2>4. QED
      BY <2>2, <2>3
  <1>12. ASSUME NEW w \in Workers, Answered(w) PROVE TypeOK'
    <2>1. ApiTypeOK' /\ RowTypeOK' /\ EventTypeOK' /\ ResultTypeOK'
      BY <1>12 DEF Answered, ApiTypeOK, RowTypeOK, EventTypeOK, ResultTypeOK, apiVars, rowVars, eventVars, resultVars
    <2>2. WorkerTypeOK'
      BY <1>12, GotoTyped, ReleaseTyped DEF Answered, Points
    <2>3. QED
      BY <2>1, <2>2 DEF TypeOK
  <1>13. ASSUME NEW w \in Workers, TransientError(w) PROVE TypeOK'
    <2>1. ApiTypeOK' /\ RowTypeOK' /\ EventTypeOK' /\ ResultTypeOK'
      BY <1>13 DEF TransientError, ApiTypeOK, RowTypeOK, EventTypeOK, ResultTypeOK, apiVars, rowVars, eventVars, resultVars
    <2>2. WorkerTypeOK'
      BY <1>13, GotoTyped DEF TransientError, Points
    <2>3. QED
      BY <2>1, <2>2 DEF TypeOK
  <1>14. ASSUME NEW w \in Workers, PermanentError(w) PROVE TypeOK'
    <2>1. ApiTypeOK' /\ RowTypeOK' /\ EventTypeOK' /\ ResultTypeOK'
      BY <1>14 DEF PermanentError, ApiTypeOK, RowTypeOK, EventTypeOK, ResultTypeOK, apiVars, rowVars, eventVars, resultVars
    <2>2. WorkerTypeOK'
      BY <1>14, GotoTyped DEF PermanentError, Points
    <2>3. QED
      BY <2>1, <2>2 DEF TypeOK
  <1>15. ASSUME NEW w \in Workers, CancelClaimed(w) PROVE TypeOK'
    <2>1. claim[w].run \in Runs /\ claim[w].generation \in Nat
      BY <1>15, OwnedRun, ClaimTyped DEF CancelClaimed, TypeOK
    <2>2. RowTypeOK'
      <3>1. cancelRequested' \in [Runs -> BOOLEAN]
        BY <1>15 DEF CancelClaimed, RowTypeOK
      <3>2. QED
        BY <1>15, <2>1, <3>1, CloseRunTyped DEF CancelClaimed, Terminal
    <2>3. EventTypeOK'
      BY <1>15, <2>1, AddEventTyped DEF CancelClaimed, EventTypes, Terminal
    <2>4. WorkerTypeOK'
      BY <1>15, ReleaseTyped DEF CancelClaimed
    <2>5. ApiTypeOK' /\ ResultTypeOK'
      BY <1>15 DEF CancelClaimed, ApiTypeOK, ResultTypeOK, apiVars, resultVars
    <2>6. QED
      BY <2>2, <2>3, <2>4, <2>5 DEF TypeOK
  <1>16. ASSUME NEW w \in Workers, NEW u \in Usages, NEW v \in 0..MaxRuns, Complete(w, u, v) PROVE TypeOK'
    <2> DEFINE r == claim[w].run
               q == requestOf[r]
    <2>1. r \in Runs /\ claim[w].generation \in Nat /\ q \in Requests
      BY <1>16, OwnedRun, ClaimTyped DEF Complete, TypeOK
    <2>2. RowTypeOK'
      <3>1. cancelRequested' \in [Runs -> BOOLEAN]
        BY <1>16 DEF Complete, RowTypeOK
      <3>2. QED
        BY <1>16, <2>1, <3>1, CloseRunTyped DEF Complete, Terminal
    <2>3. EventTypeOK'
      <3>1. CompletionRows(r, claim[w].generation) \in SUBSET EventRows
        BY <2>1, EventRowTyped DEF CompletionRows, EventTypes, Terminal
      <3>2. QED
        BY <1>16, <2>1, <3>1 DEF Complete, EventTypeOK
    <2>4. WorkerTypeOK'
      BY <1>16, ReleaseTyped DEF Complete
    <2>5. ResultTypeOK'
      <3>1. [run |-> r, kind |-> q.kind, scope |-> q.scope, version |-> v,
             generation |-> claim[w].generation] \in Answers
        BY <2>1, RequestsAssumption, SizesAssumption DEF Answers
      <3>2. Charge(q, u) \in Nat
        BY <2>1, RequestsAssumption, UsagesAssumption DEF Charge
      <3>3. Cached(q, r) \in [CacheKeys -> {0} \cup Runs]
        BY <2>1 DEF Cached, ResultTypeOK
      <3>4. QED
        BY <1>16, <2>1, <3>1, <3>2, <3>3 DEF Complete, ResultTypeOK
    <2>6. ApiTypeOK'
      BY <1>16 DEF Complete, ApiTypeOK, apiVars
    <2>7. QED
      BY <2>2, <2>3, <2>4, <2>5, <2>6 DEF TypeOK
  <1>17. ASSUME NEW w \in Workers, Requeue(w) PROVE TypeOK'
    <2>1. claim[w].run \in Runs /\ claim[w].generation \in Nat
      BY <1>17, OwnedRun, ClaimTyped DEF Requeue, TypeOK
    <2>2. RowTypeOK'
      BY <1>17, <2>1 DEF Requeue, RowTypeOK, Open
    <2>3. EventTypeOK'
      <3>1. EventRow(claim[w].run, 0, "retry", claim[w].generation) \in EventRows
        BY <2>1, EventRowTyped DEF EventTypes
      <3>2. QED
        BY <1>17, <2>1, <3>1 DEF Requeue, EventTypeOK
    <2>4. WorkerTypeOK'
      BY <1>17, ReleaseTyped DEF Requeue
    <2>5. ApiTypeOK' /\ ResultTypeOK'
      BY <1>17 DEF Requeue, ApiTypeOK, ResultTypeOK, apiVars, resultVars
    <2>6. QED
      BY <2>2, <2>3, <2>4, <2>5 DEF TypeOK
  <1>18. ASSUME NEW w \in Workers, FailForGood(w) PROVE TypeOK'
    <2>1. claim[w].run \in Runs /\ claim[w].generation \in Nat
      BY <1>18, OwnedRun, ClaimTyped DEF FailForGood, TypeOK
    <2>2. RowTypeOK'
      <3>1. cancelRequested' \in [Runs -> BOOLEAN]
        BY <1>18 DEF FailForGood, RowTypeOK
      <3>2. QED
        BY <1>18, <2>1, <3>1, CloseRunTyped DEF FailForGood, Terminal
    <2>3. EventTypeOK'
      BY <1>18, <2>1, AddEventTyped DEF FailForGood, EventTypes, Terminal
    <2>4. WorkerTypeOK'
      BY <1>18, ReleaseTyped DEF FailForGood
    <2>5. ApiTypeOK' /\ ResultTypeOK'
      BY <1>18 DEF FailForGood, ApiTypeOK, ResultTypeOK, apiVars, resultVars
    <2>6. QED
      BY <2>2, <2>3, <2>4, <2>5 DEF TypeOK
  <1>19. ASSUME NEW w \in Workers, DiscardStale(w) PROVE TypeOK'
    <2>1. ApiTypeOK' /\ RowTypeOK' /\ EventTypeOK' /\ ResultTypeOK'
      BY <1>19 DEF DiscardStale, ApiTypeOK, RowTypeOK, EventTypeOK, ResultTypeOK, apiVars, rowVars, eventVars, resultVars
    <2>2. WorkerTypeOK'
      BY <1>19, ReleaseTyped DEF DiscardStale
    <2>3. QED
      BY <2>1, <2>2 DEF TypeOK
  <1>20. ASSUME NEW w \in Workers, DropFailure(w) PROVE TypeOK'
    <2>1. ApiTypeOK' /\ RowTypeOK' /\ EventTypeOK' /\ ResultTypeOK'
      BY <1>20 DEF DropFailure, ApiTypeOK, RowTypeOK, EventTypeOK, ResultTypeOK, apiVars, rowVars, eventVars, resultVars
    <2>2. WorkerTypeOK'
      BY <1>20, ReleaseTyped DEF DropFailure
    <2>3. QED
      BY <2>1, <2>2 DEF TypeOK
  <1>21. ASSUME NEW w \in Workers, Crash(w) PROVE TypeOK'
    <2>1. ApiTypeOK' /\ RowTypeOK' /\ EventTypeOK' /\ ResultTypeOK'
      BY <1>21 DEF Crash, ApiTypeOK, RowTypeOK, EventTypeOK, ResultTypeOK, apiVars, rowVars, eventVars, resultVars
    <2>2. WorkerTypeOK'
      BY <1>21, ReleaseTyped DEF Crash
    <2>3. QED
      BY <2>1, <2>2 DEF TypeOK
  <1>22. CASE NewMonth
    BY <1>22
    DEF NewMonth, TypeOK, ApiTypeOK, RowTypeOK, EventTypeOK, ResultTypeOK, apiVars, rowVars, eventVars, resultVars, workerVars, WorkerTypeOK
  <1>23. CASE UNCHANGED vars
    BY <1>23
    DEF vars, TypeOK, ApiTypeOK, RowTypeOK, EventTypeOK, ResultTypeOK, apiVars, rowVars, eventVars, resultVars, workerVars, WorkerTypeOK
  <1>24. QED
    BY <1>1, <1>2, <1>3, <1>4, <1>5, <1>6, <1>7, <1>8, <1>9, <1>10, <1>11, <1>12, <1>13, <1>14, <1>15, <1>16, <1>17, <1>18, <1>19, <1>20, <1>21, <1>22, <1>23
    DEF Next, Submit, RequestCancel, Worker, Poll, Generated, Settle

-----------------------------------------------------------------------------
(* Frames: what the steps that do not matter to an invariant have in common. *)

\* Only blank rows are left alone, and a row that exists goes on existing.
LEMMA RowsFrame ==
  ASSUME TypeOK, RowsInv, UNCHANGED <<created, requestOf>>,
         \A r \in Runs : status[r] # "absent" => status'[r] # "absent",
         \A r \in Runs : status[r] = "absent" =>
           /\ status'[r] = status[r] /\ generation'[r] = generation[r]
           /\ cancelRequested'[r] = cancelRequested[r] /\ events'[r] = events[r]
  PROVE RowsInv'
  BY SizesAssumption DEF TypeOK, ApiTypeOK, RowsInv, Runs

\* No claim is made; some workers may drop theirs, and a run that is still
\* running has the owner it had.
LEMMA FenceFrame ==
  ASSUME TypeOK, ClaimsInv, FencingToken, UNCHANGED generation,
         \A r \in Runs : /\ status[r] # "absent" => status'[r] # "absent"
                         /\ status'[r] = "running" => status[r] = "running" /\ owner'[r] = owner[r],
         \A w \in Workers : \/ claim'[w] = claim[w] /\ (pc'[w] = "poll" <=> pc[w] = "poll")
                            \/ claim'[w] = NoClaim /\ pc'[w] = "poll"
  PROVE ClaimsInv' /\ FencingToken'
  <1> USE SizesAssumption DEF Runs, NoClaim
  <1>0. \A w \in Workers : claim[w].run \in {0} \cup Runs
    BY ClaimTyped DEF TypeOK
  <1>1. ClaimsInv'
    BY <1>0 DEF ClaimsInv
  <1>2. FencingToken'
    BY <1>0 DEF FencingToken
  <1>3. QED
    BY <1>1, <1>2

\* No run becomes completed, or stops being it, and none that is completed is
\* claimed or flagged.
LEMMA AnswersFrame ==
  ASSUME AnsweredOnce, CancelBeatsAnswer, outputs \subseteq Answers, ledger \in [Runs -> Nat],
         UNCHANGED <<outputs, ledger>>,
         \A r \in Runs : /\ status'[r] = "completed" <=> status[r] = "completed"
                         /\ status[r] = "completed" => /\ generation'[r] = generation[r]
                                                       /\ cancelRequested'[r] = cancelRequested[r]
  PROVE AnsweredOnce' /\ CancelBeatsAnswer'
  <1>1. \A o \in outputs : o.run \in Runs
    BY DEF Answers
  <1>2. AnsweredOnce'
    BY <1>1 DEF AnsweredOnce
  <1>3. CancelBeatsAnswer'
    BY <1>1 DEF AnsweredOnce, CancelBeatsAnswer
  <1>4. QED
    BY <1>2, <1>3

\* A run gains no text; it keeps its claim and stays out of the queue, or loses
\* what text it has.
LEMMA TextFrame ==
  ASSUME TextOfOneAttempt,
         \A r \in Runs :
           \/ TextRows(r)' = {}
           \/ /\ TextRows(r)' = TextRows(r) /\ generation'[r] = generation[r]
              /\ status'[r] = "queued" => status[r] = "queued"
  PROVE TextOfOneAttempt'
  BY DEF TextOfOneAttempt

\* A run keeps both its place among the open ones and its reservation, or is
\* closed and holds nothing.
LEMMA ReservationFrame ==
  ASSUME ReservationHeld,
         \A r \in Runs :
           \/ /\ requestOf'[r] = requestOf[r] /\ reserved'[r] = reserved[r]
              /\ status'[r] \in Open <=> status[r] \in Open
           \/ status'[r] \notin Open /\ reserved'[r] = 0
  PROVE ReservationHeld'
  BY DEF ReservationHeld, Reservation

-----------------------------------------------------------------------------
(* A step of a worker leaves the claims of the others alone and its own alone *)
(* or dropped; only Claim makes one.                                         *)

NoNewClaim ==
  \A w \in Workers : \/ claim'[w] = claim[w] /\ (pc'[w] = "poll" <=> pc[w] = "poll")
                     \/ claim'[w] = NoClaim /\ pc'[w] = "poll"

LEMMA ReleaseMakesNoClaim ==
  ASSUME TypeOK, NEW w \in Workers, Release(w)
  PROVE NoNewClaim
  BY DEF NoNewClaim, Release, TypeOK, WorkerTypeOK

LEMMA GotoMakesNoClaim ==
  ASSUME TypeOK, NEW w \in Workers, pc[w] # "poll", NEW p \in Points \ {"poll"}, Goto(w, p)
  PROVE NoNewClaim
  BY DEF NoNewClaim, Goto, TypeOK, WorkerTypeOK

LEMMA UnchangedMakesNoClaim ==
  ASSUME UNCHANGED <<pc, claim>>
  PROVE NoNewClaim
  BY DEF NoNewClaim

\* A step that touches neither the rows' columns nor what a run leaves behind.
LEMMA QuietStep ==
  ASSUME IInv, NoNewClaim,
         UNCHANGED <<created, requestOf, status, generation, owner, cancelRequested,
                     reserved, events, outputs, ledger>>
  PROVE StateInv'
  <1> USE DEF IInv, StateInv
  <1>1. RowsInv'
    BY RowsFrame
  <1>2. ClaimsInv' /\ FencingToken'
    BY FenceFrame DEF NoNewClaim
  <1>3. AnsweredOnce' /\ CancelBeatsAnswer'
    BY AnswersFrame DEF TypeOK, ResultTypeOK
  <1>4. TextOfOneAttempt'
    BY TextFrame DEF TextRows
  <1>5. ReservationHeld'
    BY ReservationFrame
  <1>6. QED
    BY <1>1, <1>2, <1>3, <1>4, <1>5

\* A step that closes an open run without an answer.
LEMMA CloseStep ==
  ASSUME IInv, NoNewClaim, NEW r \in Runs, status[r] \in Open,
         NEW final \in Terminal \ {"completed"}, NEW g, CloseRun(r, final), AddEvent(r, final, g),
         cancelRequested' \in {cancelRequested, [cancelRequested EXCEPT ![r] = TRUE]},
         UNCHANGED <<created, requestOf, generation, outputs, ledger>>
  PROVE StateInv'
  <1> USE DEF IInv, StateInv, TypeOK, RowTypeOK, EventTypeOK, ResultTypeOK
  <1>0. final \notin Open /\ final \notin {"absent", "completed", "running", "text", "queued"}
    BY DEF Open, Terminal
  <1>1. RowsInv'
    BY <1>0, RowsFrame DEF CloseRun, AddEvent, Open
  <1>2. ClaimsInv' /\ FencingToken'
    BY <1>0, FenceFrame DEF NoNewClaim, CloseRun
  <1>3. AnsweredOnce' /\ CancelBeatsAnswer'
    BY <1>0, AnswersFrame DEF CloseRun, Open
  <1>4. TextOfOneAttempt'
    <2>1. EventRow(r, 0, final, g).type # "text"
      BY <1>0 DEF EventRow
    <2>2. \A s \in Runs : TextRows(s)' = TextRows(s)
      BY <2>1 DEF AddEvent, TextRows
    <2>3. QED
      BY <1>0, <2>2, TextFrame DEF CloseRun
  <1>5. ReservationHeld'
    BY <1>0, ReservationFrame DEF CloseRun
  <1>6. QED
    BY <1>1, <1>2, <1>3, <1>4, <1>5

LEMMA EnqueueStep ==
  ASSUME IInv, NEW q \in Requests, Enqueue(q)
  PROVE StateInv'
  <1> USE SizesAssumption DEF IInv, StateInv, TypeOK, ApiTypeOK, RowTypeOK
  <1> DEFINE r == created + 1
  <1>0. r \in Runs /\ status[r] = "absent" /\ events[r] = {} /\ ~cancelRequested[r]
    BY DEF Enqueue, Runs, RowsInv
  <1>1. RowsInv'
    BY <1>0 DEF Enqueue, RowsInv, Runs, AddEvent, EventTypeOK
  <1>2. ClaimsInv' /\ FencingToken'
    BY <1>0, FenceFrame, UnchangedMakesNoClaim DEF Enqueue, NoNewClaim, workerVars
  <1>3. AnsweredOnce' /\ CancelBeatsAnswer'
    BY <1>0, AnswersFrame DEF Enqueue, ResultTypeOK, resultVars
  <1>4. TextOfOneAttempt'
    <2>1. EventRow(r, 0, "queued", 0).type # "text"
      BY DEF EventRow
    <2>2. \A s \in Runs : TextRows(s)' = TextRows(s) /\ TextRows(r) = {}
      BY <1>0, <2>1 DEF Enqueue, AddEvent, TextRows, EventTypeOK
    <2>3. QED
      BY <1>0, <2>2, TextFrame DEF Enqueue
  <1>5. ReservationHeld'
    BY <1>0 DEF Enqueue, ReservationHeld, Reservation, Open
  <1>6. QED
    BY <1>1, <1>2, <1>3, <1>4, <1>5

LEMMA FlagStep ==
  ASSUME IInv, NEW r \in Runs, FlagRunning(r)
  PROVE StateInv'
  <1> USE DEF IInv, StateInv, TypeOK, RowTypeOK, FlagRunning
  <1>1. RowsInv'
    BY RowsFrame DEF apiVars, eventVars
  <1>2. ClaimsInv' /\ FencingToken'
    BY FenceFrame, UnchangedMakesNoClaim DEF NoNewClaim, workerVars
  <1>3. AnsweredOnce' /\ CancelBeatsAnswer'
    BY AnswersFrame DEF ResultTypeOK, resultVars
  <1>4. TextOfOneAttempt'
    BY TextFrame DEF TextRows, eventVars
  <1>5. ReservationHeld'
    BY ReservationFrame DEF apiVars
  <1>6. QED
    BY <1>1, <1>2, <1>3, <1>4, <1>5

\* What the transaction of claim() does to the rows it does not hand out: those
\* the sweep fails are running, so none of them is blank, queued or completed.
LEMMA ClaimTransactionFrame ==
  ASSUME IInv, NEW w \in Workers, NEW r \in {0} \cup Claimable, ClaimTransaction(w, r)
  PROVE RowsInv' /\ AnsweredOnce' /\ CancelBeatsAnswer' /\ TextOfOneAttempt' /\ ReservationHeld'
  <1> USE DEF IInv, StateInv, TypeOK
  <1>0. /\ r # 0 => r \in Runs /\ status[r] \in Open
        /\ \A s \in Exhausted : status[s] = "running"
        /\ r \notin Exhausted /\ 0 \notin Runs
    BY SizesAssumption DEF Claimable, Exhausted, Open, Runs, RowTypeOK
  <1>1. RowsInv'
    <2>1. \A s \in Runs : /\ status[s] # "absent" => status'[s] # "absent"
                          /\ status[s] = "absent" => s # r /\ s \notin Exhausted
      BY <1>0 DEF ClaimTransaction, Open
    <2>2. QED
      BY <2>1, RowsFrame DEF ClaimTransaction, apiVars
  <1>2. AnsweredOnce' /\ CancelBeatsAnswer'
    BY <1>0, AnswersFrame DEF ClaimTransaction, ResultTypeOK, resultVars, Open
  <1>3. TextOfOneAttempt'
    <2>1. \A s \in Runs : /\ EventRow(s, 0, "started", NextGeneration(s)).type # "text"
                          /\ EventRow(s, 0, "failed", generation[s]).type # "text"
      BY DEF EventRow
    <2>2. r # 0 => TextRows(r)' = {}
      BY <1>0, <2>1 DEF ClaimTransaction, TextRows, WithoutText
    <2>3. \A s \in Runs \ {r} : TextRows(s)' = TextRows(s)
      BY <1>0, <2>1 DEF ClaimTransaction, TextRows
    <2>4. \A s \in Runs \ {r} : /\ generation'[s] = generation[s]
                                /\ status'[s] = "queued" => status[s] = "queued"
      BY DEF ClaimTransaction
    <2>5. QED
      BY <1>0, <2>2, <2>3, <2>4, TextFrame
  <1>4. ReservationHeld'
    <2>1. \A s \in Runs : /\ requestOf'[s] = requestOf[s]
                          /\ s \in Exhausted => status'[s] = "failed" /\ reserved'[s] = 0
                          /\ s \notin Exhausted => /\ reserved'[s] = reserved[s]
                                                   /\ status'[s] \in Open <=> status[s] \in Open
      BY <1>0 DEF ClaimTransaction, apiVars, Open
    <2>2. "failed" \notin Open
      BY DEF Open
    <2>3. QED
      BY <2>1, <2>2, ReservationFrame
  <1>5. QED
    BY <1>1, <1>2, <1>3, <1>4

LEMMA SweepStep ==
  ASSUME IInv, NEW w \in Workers, SweepOnly(w)
  PROVE StateInv'
  <1>0. ClaimTransaction(w, 0) /\ NoNewClaim
    BY UnchangedMakesNoClaim DEF SweepOnly, workerVars
  <1>1. ClaimsInv' /\ FencingToken'
    <2>1. \A s \in Runs : s # 0
      BY DEF Runs
    <2>2. generation' = generation
      BY <1>0, <2>1 DEF ClaimTransaction, IInv, TypeOK, RowTypeOK
    <2>3. QED
      BY <1>0, <2>1, <2>2, FenceFrame
      DEF ClaimTransaction, NoNewClaim, Exhausted, IInv, StateInv
  <1>2. QED
    BY <1>0, <1>1, ClaimTransactionFrame DEF StateInv

\* The token moves: the new claim has the row's new generation, which no worker
\* has seen, and every older claim of the run falls behind it.
LEMMA ClaimStep ==
  ASSUME IInv, NEW w \in Workers, NEW r \in Runs, Claim(w, r)
  PROVE StateInv'
  <1> USE DEF IInv, StateInv
  <1>0. ClaimTransaction(w, r) /\ r \in Claimable /\ pc[w] = "poll"
    BY DEF Claim
  <1>1. /\ claim'[w].run = r /\ claim'[w].generation = generation[r] + 1 /\ pc'[w] # "poll"
        /\ \A x \in Workers \ {w} : claim'[x] = claim[x] /\ pc'[x] = pc[x]
    BY DEF Claim, NextGeneration, TypeOK, WorkerTypeOK
  <1>2. /\ generation'[r] = generation[r] + 1 /\ status'[r] = "running" /\ owner'[r] = w
        /\ \A s \in Runs \ {r} : /\ generation'[s] = generation[s]
                                 /\ status[s] # "absent" => status'[s] # "absent"
                                 /\ status'[s] = "running" => status[s] = "running" /\ owner'[s] = owner[s]
    BY <1>0 DEF ClaimTransaction, NextGeneration
  <1>3. \A x \in Workers : claim[x].run \in {0} \cup Runs /\ claim[x].generation \in Nat
    BY ClaimTyped DEF TypeOK
  <1>4. \A s \in Runs : s # 0 /\ generation[s] \in Nat
    BY DEF Runs, TypeOK, RowTypeOK
  <1>5. ClaimsInv'
    BY <1>1, <1>2, <1>3, <1>4 DEF ClaimsInv
  <1>6. FencingToken'
    <2> SUFFICES ASSUME NEW x \in Workers, claim'[x].run # 0
                 PROVE LET s == claim'[x].run IN
                   /\ claim'[x].generation <= generation'[s]
                   /\ claim'[x].generation = generation'[s] /\ status'[s] = "running" => owner'[s] = x
                   /\ \A y \in Workers \ {x} :
                        claim'[y].run = s => claim'[y].generation # claim'[x].generation
      BY DEF FencingToken
    <2>1. CASE x = w
      BY <2>1, <1>1, <1>2, <1>3, <1>4 DEF FencingToken
    <2>2. CASE x # w /\ claim[x].run = r
      BY <2>2, <1>1, <1>2, <1>3, <1>4 DEF FencingToken
    <2>3. CASE x # w /\ claim[x].run # r
      BY <2>3, <1>1, <1>2, <1>3, <1>4 DEF FencingToken
    <2>4. QED
      BY <2>1, <2>2, <2>3
  <1>7. QED
    BY <1>0, <1>5, <1>6, ClaimTransactionFrame

\* A delta of the owner carries the row's generation.
LEMMA EmitStep ==
  ASSUME IInv, NEW w \in Workers, EmitText(w), Owns(w)
  PROVE StateInv'
  <1> USE DEF IInv, StateInv
  <1> DEFINE r == claim[w].run
  <1>0. /\ r \in Runs /\ status[r] = "running" /\ generation[r] = claim[w].generation
        /\ AddEvent(r, "text", claim[w].generation)
        /\ UNCHANGED <<created, requestOf, status, generation, owner, cancelRequested, reserved,
                       outputs, ledger, pc, claim>>
    BY OwnedRun DEF EmitText, apiVars, rowVars, resultVars, workerVars
  <1>1. RowsInv'
    BY <1>0, RowsFrame DEF AddEvent, TypeOK, EventTypeOK
  <1>2. ClaimsInv' /\ FencingToken'
    BY <1>0, FenceFrame
  <1>3. AnsweredOnce' /\ CancelBeatsAnswer'
    BY <1>0, AnswersFrame DEF TypeOK, ResultTypeOK
  <1>4. TextOfOneAttempt'
    <2>1. EventRow(r, 0, "text", claim[w].generation).generation = generation[r]
      BY <1>0 DEF EventRow
    <2>2. QED
      BY <1>0, <2>1 DEF TextOfOneAttempt, TextRows, AddEvent, TypeOK, EventTypeOK
  <1>5. ReservationHeld'
    BY <1>0, ReservationFrame
  <1>6. QED
    BY <1>1, <1>2, <1>3, <1>4, <1>5

\* The owner of an unflagged running run answers it: nobody answered it before,
\* and its generation is the claim's.
LEMMA CompleteStep ==
  ASSUME IInv, NEW w \in Workers, NEW u \in Usages, NEW v \in 0..MaxRuns, Complete(w, u, v)
  PROVE StateInv'
  <1> USE DEF IInv, StateInv
  <1> DEFINE r == claim[w].run
             q == requestOf[r]
             answer == [run |-> r, kind |-> q.kind, scope |-> q.scope, version |-> v,
                        generation |-> claim[w].generation]
  <1>0. /\ r \in Runs /\ status[r] = "running" /\ generation[r] = claim[w].generation
        /\ q \in Requests /\ ~cancelRequested[r]
        /\ CloseRun(r, "completed") /\ NoNewClaim
        /\ UNCHANGED <<created, requestOf, generation, cancelRequested>>
    BY OwnedRun, ReleaseMakesNoClaim DEF Complete, CancelPending, apiVars
  <1>1. RowsInv'
    <2>1. /\ status' = [status EXCEPT ![r] = "completed"]
          /\ \A s \in Runs \ {r} : events'[s] = events[s]
      BY <1>0 DEF Complete, CloseRun, TypeOK, EventTypeOK
    <2>2. QED
      BY <1>0, <2>1, RowsFrame DEF TypeOK, RowTypeOK
  <1>2. ClaimsInv' /\ FencingToken'
    BY <1>0, FenceFrame DEF CloseRun, NoNewClaim, TypeOK, RowTypeOK
  <1>3. Charge(q, u) \in Nat \ {0}
    BY <1>0, RequestsAssumption, UsagesAssumption DEF Charge
  <1>4. /\ outputs' = outputs \cup {answer} /\ answer.run = r /\ answer.generation = generation'[r]
        /\ ledger' = [ledger EXCEPT ![r] = Charge(q, u)]
        /\ status' = [status EXCEPT ![r] = "completed"]
    BY <1>0 DEF Complete, CloseRun
  <1>5. \A o \in outputs : o.run \in Runs /\ o.run # r
    BY <1>0 DEF AnsweredOnce, TypeOK, ResultTypeOK, Answers
  <1>w. ledger'[r] > 0 /\ answer \in outputs' /\ answer.run = r
    BY <1>0, <1>3, <1>4 DEF TypeOK, ResultTypeOK
  <1>6. AnsweredOnce'
    <2> USE <1>0, <1>3, <1>4, <1>5 DEF TypeOK, RowTypeOK, ResultTypeOK
    <2>1. \A o \in outputs' : status'[o.run] = "completed" /\ o.generation = generation'[o.run]
      BY DEF AnsweredOnce
    <2>2. \A o, p \in outputs' : o.run = p.run => o = p
      BY DEF AnsweredOnce
    <2>3. ASSUME NEW s \in Runs, status'[s] = "completed"
          PROVE  (\E o \in outputs' : o.run = s) /\ ledger'[s] > 0
      <3>1. CASE s = r
        BY <1>w, <3>1
      <3>2. CASE s # r
        <4>1. status[s] = "completed" /\ ledger'[s] = ledger[s] /\ outputs \subseteq outputs'
          BY <2>3, <3>2
        <4>2. QED
          BY <4>1 DEF AnsweredOnce
      <3>3. QED
        BY <3>1, <3>2
    <2>4. \A s \in Runs : ledger'[s] > 0 => status'[s] = "completed"
      BY DEF AnsweredOnce
    <2>5. QED
      BY <2>1, <2>2, <2>3, <2>4 DEF AnsweredOnce
  <1>7. CancelBeatsAnswer'
    BY <1>0, <1>4, <1>5 DEF CancelBeatsAnswer, TypeOK, ResultTypeOK
  <1>8. TextOfOneAttempt'
    <2>1. \A e \in CompletionRows(r, claim[w].generation) : e.type # "text"
      BY DEF CompletionRows, EventRow
    <2>2. events' = [events EXCEPT ![r] = @ \cup CompletionRows(r, claim[w].generation)]
      BY DEF Complete
    <2>3. \A s \in Runs : TextRows(s)' = TextRows(s)
      BY <2>1, <2>2 DEF TextRows, TypeOK, EventTypeOK
    <2>4. QED
      BY <1>0, <1>4, <2>3, TextFrame DEF TypeOK, RowTypeOK
  <1>9. ReservationHeld'
    BY <1>0, ReservationFrame DEF CloseRun, Open, TypeOK, RowTypeOK
  <1>10. QED
    BY <1>1, <1>2, <1>6, <1>7, <1>8, <1>9

\* What the requeue deletes, the deltas of the claim's generation, is every delta.
LEMMA RequeueStep ==
  ASSUME IInv, NEW w \in Workers, Requeue(w)
  PROVE StateInv'
  <1> USE DEF IInv, StateInv
  <1> DEFINE r == claim[w].run
  <1>0. /\ r \in Runs /\ status[r] = "running" /\ generation[r] = claim[w].generation
        /\ status' = [status EXCEPT ![r] = "queued"] /\ owner' = [owner EXCEPT ![r] = None]
        /\ NoNewClaim
        /\ UNCHANGED <<created, requestOf, generation, cancelRequested, reserved, outputs, ledger>>
    BY OwnedRun, ReleaseMakesNoClaim DEF Requeue, apiVars, resultVars
  <1>1. RowsInv'
    BY <1>0, RowsFrame DEF Requeue, TypeOK, RowTypeOK, EventTypeOK
  <1>2. ClaimsInv' /\ FencingToken'
    BY <1>0, FenceFrame DEF NoNewClaim, TypeOK, RowTypeOK
  <1>3. AnsweredOnce' /\ CancelBeatsAnswer'
    BY <1>0, AnswersFrame DEF TypeOK, RowTypeOK, ResultTypeOK
  <1>4. TextOfOneAttempt'
    <2>1. EventRow(r, 0, "retry", claim[w].generation).type # "text"
      BY DEF EventRow
    <2> DEFINE kept == {e \in events[r] : e.type # "text" \/ e.generation # claim[w].generation}
    <2>2. /\ events'[r] = kept \cup {EventRow(r, 0, "retry", claim[w].generation)}
          /\ \A s \in Runs \ {r} : events'[s] = events[s]
      BY <1>0 DEF Requeue, TypeOK, EventTypeOK
    <2>3. \A e \in events[r] : e.type = "text" => e.generation = claim[w].generation
      BY <1>0 DEF TextOfOneAttempt, TextRows
    <2>4. \A s \in Runs : s = r => TextRows(s)' = {}
      BY <2>1, <2>2, <2>3 DEF TextRows
    <2>5. \A s \in Runs \ {r} : TextRows(s)' = TextRows(s)
      BY <2>2 DEF TextRows
    <2>6. QED
      BY <1>0, <2>4, <2>5, TextFrame DEF TypeOK, RowTypeOK
  <1>5. ReservationHeld'
    BY <1>0, ReservationFrame DEF Open, TypeOK, RowTypeOK
  <1>6. QED
    BY <1>1, <1>2, <1>3, <1>4, <1>5

LEMMA StateStep == IInv /\ [Next]_vars => StateInv'
  <1> SUFFICES ASSUME IInv, [Next]_vars PROVE StateInv'
    OBVIOUS
  <1>0. TypeOK /\ RowsInv
    BY DEF IInv, StateInv
  <1> USE <1>0 DEF apiVars, rowVars, eventVars, resultVars, workerVars
  <1>1. ASSUME NEW q \in Requests, Replay(q) \/ ServeFromCache(q) PROVE StateInv'
    BY <1>1, QuietStep, UnchangedMakesNoClaim DEF Replay, ServeFromCache
  <1>2. ASSUME NEW q \in Requests, Enqueue(q) PROVE StateInv'
    BY <1>2, EnqueueStep
  <1>3. ASSUME NEW r \in Runs, CancelQueued(r) PROVE StateInv'
    BY <1>3, CloseStep, UnchangedMakesNoClaim DEF CancelQueued, Open, Terminal
  <1>4. ASSUME NEW r \in Runs, FlagRunning(r) PROVE StateInv'
    BY <1>4, FlagStep
  <1>5. ASSUME NEW r \in Runs, Lapse(r) PROVE StateInv'
    BY <1>5, QuietStep, UnchangedMakesNoClaim DEF Lapse
  <1>6. ASSUME NEW w \in Workers, SweepOnly(w) PROVE StateInv'
    BY <1>6, SweepStep
  <1>7. ASSUME NEW w \in Workers, NEW r \in Runs, Claim(w, r) PROVE StateInv'
    BY <1>7, ClaimStep
  <1>8. ASSUME NEW w \in Workers, ReadCancel(w) PROVE StateInv'
    BY <1>8, QuietStep, GotoMakesNoClaim DEF ReadCancel, Points
  <1>9. ASSUME NEW w \in Workers, Renew(w) PROVE StateInv'
    BY <1>9, QuietStep, UnchangedMakesNoClaim DEF Renew
  <1>10. ASSUME NEW w \in Workers, EmitText(w) PROVE StateInv'
    <2>1. CASE Owns(w)
      BY <1>10, <2>1, EmitStep
    <2>2. CASE ~Owns(w)
      BY <1>10, <2>2, QuietStep, ReleaseMakesNoClaim DEF EmitText
    <2>3. QED
      BY <2>1, <2>2
  <1>11. ASSUME NEW w \in Workers, Generated(w) PROVE StateInv'
    <2>1. NoNewClaim
      BY <1>11, ReleaseMakesNoClaim, GotoMakesNoClaim
      DEF Generated, Answered, TransientError, PermanentError, Points
    <2>2. QED
      BY <1>11, <2>1, QuietStep DEF Generated, Answered, TransientError, PermanentError
  <1>12. ASSUME NEW w \in Workers, CancelClaimed(w) PROVE StateInv'
    BY <1>12, CloseStep, OwnedRun, ReleaseMakesNoClaim DEF CancelClaimed, Open, Terminal
  <1>13. ASSUME NEW w \in Workers, NEW u \in Usages, NEW v \in 0..MaxRuns, Complete(w, u, v)
         PROVE StateInv'
    BY <1>13, CompleteStep
  <1>14. ASSUME NEW w \in Workers, Requeue(w) PROVE StateInv'
    BY <1>14, RequeueStep
  <1>15. ASSUME NEW w \in Workers, FailForGood(w) PROVE StateInv'
    BY <1>15, CloseStep, OwnedRun, ReleaseMakesNoClaim DEF FailForGood, Open, Terminal
  <1>16. ASSUME NEW w \in Workers, DiscardStale(w) \/ DropFailure(w) \/ Crash(w) PROVE StateInv'
    BY <1>16, QuietStep, ReleaseMakesNoClaim DEF DiscardStale, DropFailure, Crash
  <1>17. CASE NewMonth \/ UNCHANGED vars
    BY <1>17, QuietStep, UnchangedMakesNoClaim DEF NewMonth, vars
  <1>18. QED
    BY <1>1, <1>2, <1>3, <1>4, <1>5, <1>6, <1>7, <1>8, <1>9, <1>10, <1>11, <1>12, <1>13,
       <1>14, <1>15, <1>16, <1>17
    DEF Next, Submit, RequestCancel, Worker, Poll, Settle

-----------------------------------------------------------------------------
\* Every state of the queue satisfies the inductive invariant.
THEOREM Invariance == Spec => []IInv
  <1>1. IInv /\ [Next]_vars => IInv'
    BY TypeStep, StateStep DEF IInv, StateInv
  <1>2. QED
    BY InitIInv, <1>1, PTL DEF Spec

\* The tables and the workers' variables keep their types, and claim() never
\* starts an attempt beyond max_retries + 1, for any number of workers and runs.
THEOREM TypeCorrect == Spec => []TypeOK
  <1>1. IInv => TypeOK
    BY DEF IInv
  <1>2. QED
    BY Invariance, <1>1, PTL

\* Any number of workers, any takeovers: claim_generation fences each run, so at
\* most one worker passes the check of _owns and _owns_in.
THEOREM Fenced == Spec => []FencingToken
  <1>1. IInv => FencingToken
    BY DEF IInv, StateInv
  <1>2. QED
    BY Invariance, <1>1, PTL

\* A run is answered at most once and charged exactly when it is answered.
THEOREM NoSecondAnswer == Spec => []AnsweredOnce
  <1>1. IInv => AnsweredOnce
    BY DEF IInv, StateInv
  <1>2. QED
    BY Invariance, <1>1, PTL

\* An acknowledged cancellation is never followed by an answer or a charge.
THEOREM CancelWins == Spec => []CancelBeatsAnswer
  <1>1. IInv => CancelBeatsAnswer
    BY DEF IInv, StateInv
  <1>2. QED
    BY Invariance, <1>1, PTL

\* The stored deltas of a run are all of one attempt.
THEOREM NoMixedText == Spec => []TextOfOneAttempt
  <1>1. IInv => TextOfOneAttempt
    BY DEF IInv, StateInv
  <1>2. QED
    BY Invariance, <1>1, PTL

\* A reservation is held in full from acceptance to the end of the run, whatever
\* way it ends.
THEOREM NoReservationLeak == Spec => []ReservationHeld
  <1>1. IInv => ReservationHeld
    BY DEF IInv, StateInv
  <1>2. QED
    BY Invariance, <1>1, PTL

-----------------------------------------------------------------------------
(* A settled run: no action finds it in the state it requires.              *)

SettledUntouched ==
  \A r \in Runs : status[r] \in Terminal =>
    /\ status'[r] = status[r] /\ reserved'[r] = reserved[r]
    /\ cancelRequested'[r] = cancelRequested[r] /\ generation'[r] = generation[r]
    /\ events'[r] = events[r] /\ ledger'[r] = ledger[r]
    /\ {o \in outputs' : o.run = r} = {o \in outputs : o.run = r}

\* A step that leaves the results alone and touches open or blank rows only.
LEMMA SettledFrame ==
  ASSUME UNCHANGED <<outputs, ledger>>,
         \A r \in Runs : status[r] \in Terminal =>
           /\ status'[r] = status[r] /\ reserved'[r] = reserved[r]
           /\ cancelRequested'[r] = cancelRequested[r] /\ generation'[r] = generation[r]
           /\ events'[r] = events[r]
  PROVE SettledUntouched
  BY DEF SettledUntouched

LEMMA SettledStep == IInv /\ [Next]_vars => SettledUntouched
  <1> SUFFICES ASSUME IInv, [Next]_vars PROVE SettledUntouched
    OBVIOUS
  <1>0. TypeOK /\ RowsInv /\ RowTypeOK /\ EventTypeOK /\ ResultTypeOK
        /\ {"absent", "queued", "running"} \cap Terminal = {}
    BY DEF IInv, StateInv, TypeOK, Terminal
  <1>1. ASSUME UNCHANGED <<status, generation, cancelRequested, reserved, events, outputs, ledger>>
        PROVE SettledUntouched
    BY <1>1, SettledFrame
  <1>2. ASSUME NEW q \in Requests, Replay(q) \/ ServeFromCache(q) \/ Enqueue(q)
        PROVE SettledUntouched
    <2>1. CASE Enqueue(q)
      <3>1. created + 1 \in Runs /\ status[created + 1] = "absent"
        BY <1>0, <2>1, SizesAssumption DEF Enqueue, RowsInv, Runs, TypeOK, ApiTypeOK
      <3>2. QED
        BY <1>0, <2>1, <3>1, SettledFrame
        DEF Enqueue, AddEvent, RowTypeOK, EventTypeOK, resultVars
    <2>2. QED
      BY <1>1, <1>2, <2>1 DEF Replay, ServeFromCache, rowVars, eventVars, resultVars
  <1>3. ASSUME NEW r \in Runs, RequestCancel(r) \/ Lapse(r) PROVE SettledUntouched
    BY <1>0, <1>3, SettledFrame
    DEF RequestCancel, CancelQueued, FlagRunning, Lapse, CloseRun, AddEvent,
        RowTypeOK, EventTypeOK, resultVars, eventVars
  <1>4. ASSUME NEW w \in Workers, NEW r \in {0} \cup Claimable, ClaimTransaction(w, r)
        PROVE SettledUntouched
    <2>1. \A s \in Runs : status[s] \in Terminal => s # r /\ s \notin Exhausted
      BY <1>0 DEF Claimable, Exhausted, Runs
    <2>2. QED
      BY <1>4, <2>1, SettledFrame DEF ClaimTransaction, resultVars, RowTypeOK
  <1>5. ASSUME NEW w \in Workers, ReadCancel(w) \/ Renew(w) \/ Generated(w) PROVE SettledUntouched
    BY <1>1, <1>5
    DEF ReadCancel, Renew, Generated, Answered, TransientError, PermanentError,
        rowVars, eventVars, resultVars
  <1>6. ASSUME NEW w \in Workers, EmitText(w) PROVE SettledUntouched
    <2>1. CASE Owns(w)
      BY <1>0, <1>6, <2>1, OwnedRun, SettledFrame
      DEF EmitText, AddEvent, EventTypeOK, rowVars, resultVars
    <2>2. CASE ~Owns(w)
      BY <1>1, <1>6, <2>2 DEF EmitText, rowVars, eventVars, resultVars
    <2>3. QED
      BY <2>1, <2>2
  <1>7. ASSUME NEW w \in Workers, CancelClaimed(w) \/ FailForGood(w) PROVE SettledUntouched
    BY <1>0, <1>7, OwnedRun, SettledFrame
    DEF CancelClaimed, FailForGood, CloseRun, AddEvent, RowTypeOK, EventTypeOK, resultVars
  <1>8. ASSUME NEW w \in Workers, NEW u \in Usages, NEW v \in 0..MaxRuns, Complete(w, u, v)
        PROVE SettledUntouched
    <2> DEFINE r == claim[w].run
    <2>1. r \in Runs /\ status[r] = "running"
      BY <1>0, <1>8, OwnedRun DEF Complete
    <2>2. PICK answer : answer.run = r /\ outputs' = outputs \cup {answer}
      BY <1>8 DEF Complete
    <2>3. \A s \in Runs \ {r} : /\ status'[s] = status[s] /\ reserved'[s] = reserved[s]
                                /\ events'[s] = events[s] /\ ledger'[s] = ledger[s]
      BY <1>0, <1>8, <2>1 DEF Complete, CloseRun, RowTypeOK, EventTypeOK, ResultTypeOK
    <2>4. UNCHANGED <<cancelRequested, generation>>
      BY <1>8 DEF Complete
    <2>5. QED
      BY <1>0, <2>1, <2>2, <2>3, <2>4 DEF SettledUntouched
  <1>9. ASSUME NEW w \in Workers, Requeue(w) PROVE SettledUntouched
    BY <1>0, <1>9, OwnedRun, SettledFrame DEF Requeue, RowTypeOK, EventTypeOK, resultVars
  <1>10. ASSUME NEW w \in Workers, DiscardStale(w) \/ DropFailure(w) \/ Crash(w)
         PROVE SettledUntouched
    BY <1>1, <1>10 DEF DiscardStale, DropFailure, Crash, rowVars, eventVars, resultVars
  <1>11. CASE NewMonth \/ UNCHANGED vars
    BY <1>1, <1>11 DEF NewMonth, vars, rowVars, eventVars, resultVars
  <1>12. ASSUME NEW w \in Workers, Poll(w) PROVE SettledUntouched
    BY <1>4, <1>12 DEF Poll, SweepOnly, Claim
  <1>13. QED
    BY <1>2, <1>3, <1>5, <1>6, <1>7, <1>8, <1>9, <1>10, <1>11, <1>12
    DEF Next, Submit, Worker, Settle

\* Whatever a stale worker, a late cancellation or a sweep does, a run that is
\* completed, failed or cancelled is never touched again.
THEOREM Settled == Spec => SettledIsFinal
  <1>1. IInv /\ [Next]_vars => [SettledUntouched]_vars
    BY SettledStep
  <1>2. QED
    BY Invariance, <1>1, PTL DEF Spec, SettledIsFinal, SettledUntouched

-----------------------------------------------------------------------------
(* The queue keeps the contract of JobContract.                             *)

ContractVars == <<Phase, reserved, ledger, {o.run : o \in outputs}>>

LEMMA ContractInit == Init => Contract!Init
  <1> SUFFICES ASSUME Init PROVE Contract!Init
    OBVIOUS
  <1>1. Phase = [r \in Runs |-> "absent"]
    BY DEF Init, Phase, Open
  <1>2. QED
    BY <1>1 DEF Init, Contract!Init

\* Steps the client cannot see.
LEMMA Invisible ==
  ASSUME UNCHANGED <<reserved, ledger, outputs>>,
         \A r \in Runs : \/ status'[r] = status[r]
                         \/ status[r] \in Open /\ status'[r] \in Open
  PROVE UNCHANGED ContractVars
  <1>1. Phase' = Phase
    BY DEF Phase
  <1>2. QED
    BY <1>1 DEF ContractVars

\* Closing an open run moves its phase.
LEMMA ClosedPhase ==
  ASSUME RowTypeOK, NEW r \in Runs, status[r] \in Open, NEW final \in Terminal, CloseRun(r, final)
  PROVE /\ Phase[r] = "open"
        /\ Phase' = [Phase EXCEPT ![r] = final]
        /\ reserved' = [reserved EXCEPT ![r] = 0]
  <1>1. final \notin Open
    BY DEF Open, Terminal
  <1>2. Phase' = [s \in Runs |-> IF s = r THEN final ELSE Phase[s]]
    BY <1>1 DEF CloseRun, Phase, RowTypeOK
  <1>3. QED
    BY <1>2 DEF CloseRun, Phase

LEMMA ContractStep == IInv /\ [Next]_vars => Contract!Next \/ UNCHANGED ContractVars
  <1> SUFFICES ASSUME IInv, [Next]_vars PROVE Contract!Next \/ UNCHANGED ContractVars
    OBVIOUS
  <1>0. TypeOK /\ RowsInv /\ ApiTypeOK /\ RowTypeOK /\ ResultTypeOK
    BY DEF IInv, StateInv, TypeOK
  <1>1. ASSUME UNCHANGED <<status, reserved, ledger, outputs>> PROVE UNCHANGED ContractVars
    BY <1>1, Invisible
  <1>2. ASSUME NEW q \in Requests, Enqueue(q) PROVE Contract!Next
    <2> DEFINE r == created + 1
    <2>1. r \in Runs /\ status[r] = "absent"
      BY <1>0, <1>2, SizesAssumption DEF Enqueue, RowsInv, Runs, ApiTypeOK
    <2>2. Reservation(q) \in Nat \ {0}
      BY RequestsAssumption, SizesAssumption DEF Reservation
    <2>3. Phase[r] = "absent" /\ Phase' = [Phase EXCEPT ![r] = "open"]
      BY <1>0, <1>2, <2>1 DEF Enqueue, Phase, Open, RowTypeOK
    <2>4. reserved'[r] \in Nat \ {0} /\ reserved' = [reserved EXCEPT ![r] = reserved'[r]]
      BY <1>0, <1>2, <2>1, <2>2 DEF Enqueue, RowTypeOK
    <2>5. \A j \in Runs : j = r => Contract!Accept(j)
      BY <1>2, <2>3, <2>4 DEF Enqueue, Contract!Accept, resultVars
    <2>6. QED
      BY <2>1, <2>5 DEF Contract!Next
  <1>3. ASSUME NEW r \in Runs, status[r] \in Open, CloseRun(r, "cancelled"),
               UNCHANGED <<ledger, outputs>>
        PROVE Contract!Next
    <2>1. Contract!Cancel(r)
      BY <1>0, <1>3, ClosedPhase DEF Contract!Cancel, Terminal
    <2>2. QED
      BY <2>1 DEF Contract!Next
  <1>4. ASSUME NEW w \in Workers, NEW r \in {0} \cup Claimable, ClaimTransaction(w, r)
        PROVE Contract!Next
    <2>1. /\ Exhausted \in SUBSET Runs /\ r \notin Exhausted
          /\ \A s \in Exhausted : Phase[s] = "open"
          /\ \A s \in Runs : s = r => Phase[s] = "open"
      BY <1>0, SizesAssumption DEF Exhausted, Claimable, Phase, Open, RowTypeOK, Runs
    <2>2. Phase' = [s \in Runs |-> IF s \in Exhausted THEN "failed" ELSE Phase[s]]
      BY <1>4, <2>1 DEF ClaimTransaction, Phase, Open
    <2>3. Contract!GiveUp(Exhausted)
      BY <1>4, <2>1, <2>2 DEF ClaimTransaction, Contract!GiveUp, resultVars
    <2>4. QED
      BY <2>1, <2>3 DEF Contract!Next
  <1>5. ASSUME NEW w \in Workers, FailForGood(w) PROVE Contract!Next
    <2> DEFINE r == claim[w].run
    <2>1. r \in Runs /\ status[r] \in Open
      BY <1>0, <1>5, OwnedRun DEF FailForGood, Open
    <2>2. /\ Phase[r] = "open"
          /\ Phase' = [Phase EXCEPT ![r] = "failed"]
          /\ reserved' = [reserved EXCEPT ![r] = 0]
      BY <1>0, <1>5, <2>1, ClosedPhase DEF FailForGood, Terminal
    <2>3. /\ Phase' = [j \in Runs |-> IF j \in {r} THEN "failed" ELSE Phase[j]]
          /\ reserved' = [j \in Runs |-> IF j \in {r} THEN 0 ELSE reserved[j]]
      BY <1>0, <2>1, <2>2 DEF Phase, RowTypeOK
    <2>4. \A S \in SUBSET Runs : S = {r} => Contract!GiveUp(S)
      BY <1>5, <2>1, <2>2, <2>3 DEF FailForGood, Contract!GiveUp, resultVars
    <2>5. QED
      BY <2>1, <2>4 DEF Contract!Next
  <1>6. ASSUME NEW w \in Workers, NEW u \in Usages, NEW v \in 0..MaxRuns, Complete(w, u, v)
        PROVE Contract!Next
    <2> DEFINE r == claim[w].run
    <2>1. r \in Runs /\ status[r] \in Open /\ requestOf[r] \in Requests
      BY <1>0, <1>6, OwnedRun DEF Complete, Open
    <2>2. /\ Phase[r] = "open"
          /\ Phase' = [Phase EXCEPT ![r] = "completed"]
          /\ reserved' = [reserved EXCEPT ![r] = 0]
      BY <1>0, <1>6, <2>1, ClosedPhase DEF Complete, Terminal
    <2>3. Charge(requestOf[r], u) \in Nat \ {0}
      BY <2>1, RequestsAssumption, UsagesAssumption DEF Charge
    <2>4. ledger'[r] \in Nat \ {0} /\ ledger' = [ledger EXCEPT ![r] = ledger'[r]]
      BY <1>0, <1>6, <2>1, <2>3 DEF Complete, ResultTypeOK
    <2>5. {o.run : o \in outputs'} = {o.run : o \in outputs} \cup {r}
      <3>1. PICK answer : answer.run = r /\ outputs' = outputs \cup {answer}
        BY <1>6 DEF Complete
      <3>2. QED
        BY <3>1
    <2>6. \A j \in Runs : j = r => Contract!Answer(j)
      BY <2>2, <2>4, <2>5 DEF Contract!Answer
    <2>7. QED
      BY <2>1, <2>6 DEF Contract!Next
  <1>7. ASSUME NEW w \in Workers, Requeue(w) PROVE UNCHANGED ContractVars
    BY <1>0, <1>7, OwnedRun, Invisible DEF Requeue, Open, RowTypeOK, resultVars
  <1>8. ASSUME NEW w \in Workers, CancelClaimed(w) PROVE Contract!Next
    BY <1>0, <1>3, <1>8, OwnedRun DEF CancelClaimed, Open, resultVars
  <1>9. ASSUME NEW r \in Runs, RequestCancel(r) PROVE Contract!Next \/ UNCHANGED ContractVars
    BY <1>1, <1>3, <1>9 DEF RequestCancel, CancelQueued, FlagRunning, Open, resultVars
  <1>10. ASSUME NEW w \in Workers, Poll(w) PROVE Contract!Next
    BY <1>4, <1>10 DEF Poll, SweepOnly, Claim
  <1>11. ASSUME NEW w \in Workers,
                ReadCancel(w) \/ Renew(w) \/ EmitText(w) \/ Generated(w) \/ DiscardStale(w)
                  \/ DropFailure(w) \/ Crash(w)
         PROVE UNCHANGED ContractVars
    BY <1>1, <1>11
    DEF ReadCancel, Renew, EmitText, Generated, Answered, TransientError, PermanentError,
        DiscardStale, DropFailure, Crash, rowVars, resultVars
  <1>12. ASSUME \/ \E q \in Requests : Replay(q) \/ ServeFromCache(q)
                \/ \E r \in Runs : Lapse(r)
                \/ NewMonth \/ UNCHANGED vars
         PROVE UNCHANGED ContractVars
    BY <1>1, <1>12 DEF Replay, ServeFromCache, Lapse, NewMonth, vars, rowVars, resultVars
  <1>13. QED
    BY <1>2, <1>5, <1>6, <1>7, <1>8, <1>9, <1>10, <1>11, <1>12
    DEF Next, Submit, Worker, Settle

\* The queue, its leases, retries and crashes implement JobContract: the client
\* sees a job accepted, then answered, failed or cancelled once.
THEOREM ImplementsContract == Spec => KeepsContract
  <1>1. Init => Contract!Init
    BY ContractInit
  <1>2. IInv /\ [Next]_vars => [Contract!Next]_(Contract!jobVars)
    BY ContractStep DEF Contract!jobVars, ContractVars
  <1>3. QED
    BY Invariance, <1>1, <1>2, PTL DEF Spec, KeepsContract, Contract!Spec

=============================================================================
