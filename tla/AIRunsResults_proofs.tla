----------------------- MODULE AIRunsResults_proofs -----------------------
(***************************************************************************)
(* What a submission, an answer and a log are worth, for every number of   *)
(* workers and runs: more theorems of AIRuns, on top of the invariant of   *)
(* AIRuns_proofs.                                                          *)
(***************************************************************************)
EXTENDS AIRuns_proofs, FiniteSetTheorems, WellFoundedInduction

-----------------------------------------------------------------------------
(* A superseded worker.                                                    *)

StaleSilent ==
  \A w \in Workers : pc[w] # "poll" /\ pc'[w] = "poll" /\ Superseded(w) =>
    UNCHANGED <<rowVars, eventVars, resultVars>>

\* A step after which only w may have come back to polling, which it does as the owner of
\* its run or without writing.
LEMMA SilentFrame ==
  ASSUME NEW w \in Workers, \A x \in Workers \ {w} : pc'[x] = pc[x],
         \/ Owns(w)
         \/ pc'[w] # "poll"
         \/ UNCHANGED <<rowVars, eventVars, resultVars>>
  PROVE  StaleSilent
  BY DEF StaleSilent, Superseded, Owns

LEMMA OthersStay ==
  ASSUME WorkerTypeOK, NEW w \in Workers, Release(w) \/ \E point \in Points : Goto(w, point)
  PROVE  \A x \in Workers \ {w} : pc'[x] = pc[x]
  BY DEF WorkerTypeOK, Release, Goto

LEMMA SilentStep == IInv /\ [Next]_vars => StaleSilent
  <1> SUFFICES ASSUME IInv, [Next]_vars PROVE StaleSilent
    OBVIOUS
  <1>0. WorkerTypeOK
    BY DEF IInv, TypeOK
  <1>1. ASSUME UNCHANGED pc PROVE StaleSilent
    BY <1>1 DEF StaleSilent
  <1>2. ASSUME NEW q \in Requests, Submit(q) PROVE StaleSilent
    BY <1>1, <1>2 DEF Submit, Replay, ServeFromCache, Enqueue, workerVars
  <1>3. ASSUME NEW r \in Runs, RequestCancel(r) \/ Lapse(r) PROVE StaleSilent
    BY <1>1, <1>3 DEF RequestCancel, CancelQueued, FlagRunning, Lapse, workerVars
  <1>4. ASSUME NEW w \in Workers, Poll(w) PROVE StaleSilent
    <2>1. CASE SweepOnly(w)
      BY <1>1, <2>1 DEF SweepOnly, workerVars
    <2>2. ASSUME NEW r \in Runs, Claim(w, r) PROVE StaleSilent
      BY <1>0, <2>2, SilentFrame DEF Claim, WorkerTypeOK
    <2> QED BY <1>4, <2>1, <2>2 DEF Poll
  <1>5. ASSUME NEW w \in Workers, ReadCancel(w) PROVE StaleSilent
    BY <1>0, <1>5, SilentFrame DEF ReadCancel, Goto, WorkerTypeOK
  <1>6. ASSUME NEW w \in Workers, Renew(w) PROVE StaleSilent
    BY <1>1, <1>6 DEF Renew
  <1>7. ASSUME NEW w \in Workers, EmitText(w) PROVE StaleSilent
    <2>1. CASE Owns(w)
      BY <1>1, <1>7, <2>1 DEF EmitText, workerVars
    <2>2. CASE ~Owns(w)
      BY <1>0, <1>7, <2>2, OthersStay, SilentFrame DEF EmitText
    <2> QED BY <2>1, <2>2
  <1>8. ASSUME NEW w \in Workers, Generated(w) PROVE StaleSilent
    <2>1. UNCHANGED <<rowVars, eventVars, resultVars>>
      BY <1>8 DEF Generated, Answered, TransientError, PermanentError
    <2> QED BY <2>1 DEF StaleSilent
  <1>9. ASSUME NEW w \in Workers, Settle(w) PROVE StaleSilent
    <2>1. CASE DiscardStale(w) \/ DropFailure(w)
      BY <2>1 DEF DiscardStale, DropFailure, StaleSilent
    <2>2. CASE ~(DiscardStale(w) \/ DropFailure(w))
      <3>1. Owns(w) /\ Release(w)
        BY <1>9, <2>2 DEF Settle, CancelClaimed, Complete, Requeue, FailForGood
      <3> QED BY <1>0, <3>1, OthersStay, SilentFrame
    <2> QED BY <2>1, <2>2
  <1>10. ASSUME NEW w \in Workers, Crash(w) PROVE StaleSilent
    BY <1>10 DEF Crash, StaleSilent
  <1>11. CASE NewMonth \/ UNCHANGED vars
    BY <1>1, <1>11 DEF NewMonth, vars, workerVars
  <1> QED
    BY <1>2, <1>3, <1>4, <1>5, <1>6, <1>7, <1>8, <1>9, <1>10, <1>11 DEF Next, Worker

\* However often a run was taken over, a worker whose claim was superseded leaves without
\* having written anything.
THEOREM StaleWritesNothingHolds == Spec => StaleWritesNothing
  <1>1. IInv /\ [Next]_vars => [StaleSilent]_vars
    BY SilentStep
  <1>2. QED
    BY Invariance, <1>1, PTL DEF Spec, StaleWritesNothing, StaleSilent

-----------------------------------------------------------------------------
(* Idempotency keys.                                                       *)

LEMMA AcceptedRequests ==
  ASSUME TypeOK, RowsInv, NEW r \in Accepted
  PROVE  r \in Runs /\ requestOf[r] \in Requests
  BY SizesAssumption DEF TypeOK, ApiTypeOK, RowsInv, Accepted, Runs

\* Only a submission touches what clients were answered.
LEMMA AnsweredClients ==
  ASSUME [Next]_vars
  PROVE  UNCHANGED apiVars \/ \E q \in Requests : Submit(q)
  <1>1. ASSUME NEW w \in Workers, Poll(w) \/ ReadCancel(w) \/ Renew(w) \/ EmitText(w) \/ Crash(w)
        PROVE  UNCHANGED apiVars
    BY <1>1 DEF Poll, SweepOnly, Claim, ClaimTransaction, ReadCancel, Renew, EmitText, Crash
  <1>2. ASSUME NEW w \in Workers, Generated(w) PROVE UNCHANGED apiVars
    BY <1>2 DEF Generated, Answered, TransientError, PermanentError
  <1>3. ASSUME NEW w \in Workers, Settle(w) PROVE UNCHANGED apiVars
    BY <1>3
    DEF Settle, CancelClaimed, Complete, Requeue, FailForGood, DiscardStale, DropFailure
  <1>4. ASSUME NEW r \in Runs, RequestCancel(r) \/ Lapse(r) PROVE UNCHANGED apiVars
    BY <1>4 DEF RequestCancel, CancelQueued, FlagRunning, Lapse
  <1>5. CASE NewMonth \/ UNCHANGED vars
    BY <1>5 DEF NewMonth, vars
  <1> QED BY <1>1, <1>2, <1>3, <1>4, <1>5 DEF Next, Worker

LEMMA KeysNext == IInv /\ OneRunPerKey /\ [Next]_vars => OneRunPerKey'
  <1> SUFFICES ASSUME IInv, OneRunPerKey, [Next]_vars PROVE OneRunPerKey'
    OBVIOUS
  <1>0. /\ TypeOK /\ RowsInv /\ reply \in [Requests -> {0} \cup Runs]
        /\ \A r \in Accepted : r \in Runs /\ requestOf[r] \in Requests
    BY AcceptedRequests DEF IInv, StateInv, TypeOK, ApiTypeOK
  <1>1. CASE UNCHANGED apiVars
    BY <1>1 DEF apiVars, OneRunPerKey, Accepted, SameKey
  <1>2. ASSUME NEW q \in Requests, Replay(q) PROVE OneRunPerKey'
    <2>1. PICK r \in Earlier(q) : reply' = [reply EXCEPT ![q] = r]
      BY <1>2 DEF Replay
    <2>2. UNCHANGED <<created, requestOf>>
      BY <1>2 DEF Replay
    <2>3. ASSUME NEW s \in Accepted PROVE reply'[requestOf[s]] = s
      <3>1. CASE requestOf[s] = q
        <4>1. r = s
          BY <2>1, <2>3, <3>1 DEF Earlier, OneRunPerKey
        <4> QED BY <1>0, <2>1, <3>1, <4>1
      <3>2. CASE requestOf[s] # q
        BY <1>0, <2>1, <2>3, <3>2 DEF OneRunPerKey
      <3> QED BY <3>1, <3>2
    <2> QED BY <2>2, <2>3 DEF OneRunPerKey, Accepted, SameKey
  <1>3. ASSUME NEW q \in Requests, Earlier(q) = {} PROVE \A s \in Accepted : requestOf[s] # q
    BY <1>3 DEF Earlier, SameKey
  <1>4. ASSUME NEW q \in Requests, ServeFromCache(q) PROVE OneRunPerKey'
    <2>1. UNCHANGED <<created, requestOf>> /\ reply' = [reply EXCEPT ![q] = cache[q.cache]]
      BY <1>4 DEF ServeFromCache
    <2>2. \A s \in Accepted : reply'[requestOf[s]] = reply[requestOf[s]]
      BY <1>0, <1>3, <1>4, <2>1 DEF ServeFromCache
    <2> QED BY <2>1, <2>2 DEF OneRunPerKey, Accepted, SameKey
  <1>5. ASSUME NEW q \in Requests, Enqueue(q) PROVE OneRunPerKey'
    <2> DEFINE r == created + 1
    <2>1. /\ created' = r /\ created \in Nat /\ r \in Runs
          /\ requestOf' = [requestOf EXCEPT ![r] = q] /\ reply' = [reply EXCEPT ![q] = r]
      BY <1>0, <1>5, SizesAssumption DEF Enqueue, TypeOK, ApiTypeOK, Runs
    <2>2. requestOf'[r] = q /\ reply'[q] = r
      BY <1>0, <2>1 DEF TypeOK, ApiTypeOK
    <2>3. Accepted' = Accepted \cup {r} /\ r \notin Accepted
      BY <2>1 DEF Accepted
    <2> HIDE DEF r
    <2>4. \A s \in Accepted : requestOf'[s] = requestOf[s] /\ requestOf[s] # q
      BY <1>0, <1>3, <1>5, <2>1, <2>3 DEF Enqueue, TypeOK, ApiTypeOK
    <2>5. \A s \in Accepted : ~SameKey(q, s)
      BY <1>5 DEF Enqueue, Earlier
    <2>6. ASSUME NEW s \in Accepted' PROVE reply'[requestOf'[s]] = s
      <3>1. CASE s = r
        BY <2>2, <3>1
      <3>2. CASE s \in Accepted
        BY <1>0, <2>1, <2>4, <3>2 DEF OneRunPerKey
      <3> QED BY <2>3, <2>6, <3>1, <3>2
    <2>7. ASSUME NEW s \in Accepted', NEW t \in Accepted', SameKey(requestOf[s], t)'
          PROVE  s = t
      <3>1. CASE s \in Accepted /\ t \in Accepted
        BY <2>4, <2>7, <3>1 DEF OneRunPerKey, SameKey
      <3>2. CASE s = r /\ t \in Accepted
        BY <2>2, <2>4, <2>5, <2>7, <3>2 DEF SameKey
      <3>3. CASE s \in Accepted /\ t = r
        BY <2>2, <2>4, <2>5, <2>7, <3>3 DEF SameKey
      <3> QED BY <2>3, <3>1, <3>2, <3>3
    <2> QED BY <2>6, <2>7 DEF OneRunPerKey
  <1> QED BY <1>1, <1>2, <1>4, <1>5, AnsweredClients DEF Submit

\* A key is never of two runs, and a repeated POST is answered with the run it made.
THEOREM OneRunPerKeyHolds == Spec => []OneRunPerKey
  <1>1. Init => OneRunPerKey
    BY DEF Init, OneRunPerKey, Accepted
  <1>2. QED
    BY Invariance, <1>1, KeysNext, PTL DEF Spec

-----------------------------------------------------------------------------
(* Cache entries and artifact versions.                                    *)

Shelf(o) == {p \in outputs : SameShelf(o, p)}

CachedFound ==
  \A k \in CacheKeys : cache[k] # 0 =>
    /\ requestOf[cache[k]].cache = k
    /\ \E o \in outputs : o.run = cache[k]

Numbered ==
  \A o \in outputs : o.kind # "chat" =>
    /\ \A p \in Shelf(o) : p.version = o.version => p = o
    /\ o.version \in 1..Cardinality(Shelf(o))

Shelved == IsFiniteSet(outputs) /\ CachedFound /\ Numbered

LEMMA ShelvedIsFound == Shelved => ArtifactsAreFound
  BY DEF Shelved, CachedFound, Numbered, ArtifactsAreFound, Shelf

\* A step that adds no output and changes the request of none.
LEMMA ShelvedFrame ==
  ASSUME Shelved, outputs' = outputs, cache' = cache,
         \A o \in outputs : requestOf'[o.run] = requestOf[o.run]
  PROVE  Shelved'
  BY DEF Shelved, CachedFound, Numbered, Shelf, SameShelf

LEMMA CompleteIsFound ==
  ASSUME IInv, Shelved, NEW w \in Workers, NEW u \in Usages, NEW v \in 0..MaxRuns,
         Complete(w, u, v)
  PROVE  Shelved'
  <1> DEFINE r == claim[w].run
             q == requestOf[r]
             a == [run |-> r, kind |-> q.kind, scope |-> q.scope, version |-> v,
                   generation |-> claim[w].generation]
             shelf == {p \in outputs : SameShelf(q, p)}
  <1>1. /\ r \in Runs /\ status[r] = "running" /\ q \in Requests
        /\ requestOf' = requestOf /\ cache' = Cached(q, r) /\ NextVersion(q, v)
        /\ outputs' = outputs \cup {a}
    BY OwnedRun DEF IInv, StateInv, Complete, apiVars
  <1>2. a \notin outputs /\ a.run = r /\ a.kind = q.kind /\ a.scope = q.scope /\ a.version = v
    BY <1>1 DEF IInv, StateInv, AnsweredOnce
  <1>3. IsFiniteSet(outputs')
    BY <1>1, FS_AddElement DEF Shelved
  <1>4. CachedFound'
    <2>1. cache \in [CacheKeys -> {0} \cup Runs]
      BY DEF IInv, TypeOK, ResultTypeOK
    <2>2. ASSUME NEW k \in CacheKeys, cache'[k] # 0
          PROVE  requestOf[cache'[k]].cache = k /\ \E o \in outputs' : o.run = cache'[k]
      <3>1. CASE q.cache # None /\ k = q.cache
        <4>1. cache'[k] = r
          BY <1>1, <2>1, <3>1 DEF Cached
        <4> QED BY <1>1, <1>2, <3>1, <4>1
      <3>2. CASE q.cache = None \/ k # q.cache
        <4>1. cache'[k] = cache[k]
          BY <1>1, <2>1, <3>2 DEF Cached
        <4>2. requestOf[cache[k]].cache = k /\ \E o \in outputs : o.run = cache[k]
          BY <2>2, <4>1 DEF Shelved, CachedFound
        <4> QED BY <1>1, <4>1, <4>2
      <3> QED BY <3>1, <3>2
    <2> QED BY <1>1, <2>2 DEF CachedFound
  <1> HIDE DEF a
  <1>5. \A o \in outputs' :
          Shelf(o)' = IF SameShelf(q, o) THEN Shelf(o) \cup {a} ELSE Shelf(o)
    BY <1>1, <1>2 DEF Shelf, SameShelf
  <1>6. \A o \in outputs' : SameShelf(q, o) => Shelf(o) = shelf
    BY DEF Shelf, SameShelf
  <1>7. IsFiniteSet(shelf) /\ Cardinality(shelf) \in Nat
        /\ \A o \in outputs : IsFiniteSet(Shelf(o)) /\ Cardinality(Shelf(o)) \in Nat
    BY FS_Subset, FS_CardinalityType DEF Shelved, Shelf
  <1>8. Cardinality(shelf \cup {a}) = Cardinality(shelf) + 1
    BY <1>2, <1>7, FS_AddElement
  <1> HIDE DEF shelf
  <1>9. ASSUME q.kind # "chat"
        PROVE  /\ v \in 1..Cardinality(shelf) + 1
               /\ \A o \in shelf : o.version < v
    <2>1. /\ v > 0 /\ \A o \in shelf : o.version < v
          /\ v > 1 => \E o \in shelf : o.version = v - 1
      BY <1>1, <1>9 DEF NextVersion, shelf
    <2>2. CASE v > 1
      <3>1. PICK o \in shelf : o.version = v - 1
        BY <2>1, <2>2
      <3>2. o \in outputs /\ SameShelf(q, o) /\ o.kind # "chat"
        BY <1>9 DEF shelf, SameShelf
      <3>3. o.version \in 1..Cardinality(shelf)
        BY <1>1, <1>6, <3>2 DEF Shelved, Numbered
      <3> QED BY <1>7, <2>1, <3>1, <3>3
    <2>3. CASE ~(v > 1)
      BY <1>7, <2>1, <2>3
    <2> QED BY <2>1, <2>2, <2>3
  <1>10. ASSUME NEW o \in outputs', o.kind # "chat"
         PROVE  /\ \A p \in Shelf(o)' : p.version = o.version => p = o
                /\ o.version \in 1..Cardinality(Shelf(o)')
    <2>1. CASE ~SameShelf(q, o)
      <3>1. o \in outputs /\ Shelf(o)' = Shelf(o)
        BY <1>1, <1>2, <1>5, <2>1 DEF SameShelf
      <3> QED BY <1>10, <3>1 DEF Shelved, Numbered
    <2>2. CASE SameShelf(q, o)
      <3>1. Shelf(o)' = shelf \cup {a} /\ q.kind # "chat" /\ Shelf(o) = shelf
        BY <1>5, <1>6, <1>10, <2>2 DEF SameShelf
      <3>2. CASE o = a
        BY <1>2, <1>7, <1>8, <1>9, <3>1, <3>2
      <3>3. CASE o \in outputs
        <4>1. /\ o \in shelf
              /\ \A p \in shelf : p.version = o.version => p = o
              /\ o.version \in 1..Cardinality(shelf)
          BY <1>10, <2>2, <3>1, <3>3 DEF Shelved, Numbered, shelf
        <4>2. o.version < v
          BY <1>9, <3>1, <4>1
        <4> QED BY <1>2, <1>7, <1>8, <3>1, <4>1, <4>2
      <3> QED BY <1>1, <3>2, <3>3
    <2> QED BY <2>1, <2>2
  <1>11. Numbered'
    BY <1>10 DEF Numbered
  <1> QED BY <1>3, <1>4, <1>11 DEF Shelved

LEMMA ShelvedNext == IInv /\ Shelved /\ [Next]_vars => Shelved'
  <1> SUFFICES ASSUME IInv, Shelved, [Next]_vars PROVE Shelved'
    OBVIOUS
  <1>1. ASSUME UNCHANGED <<outputs, cache, requestOf>> PROVE Shelved'
    BY <1>1, ShelvedFrame
  <1>2. ASSUME NEW q \in Requests, Submit(q) PROVE Shelved'
    <2>1. CASE Enqueue(q)
      <3>1. /\ requestOf' = [requestOf EXCEPT ![created + 1] = q]
            /\ outputs' = outputs /\ cache' = cache
        BY <2>1 DEF Enqueue, resultVars
      <3>2. created + 1 \in Runs /\ status[created + 1] = "absent"
        BY <2>1, SizesAssumption
        DEF Enqueue, IInv, StateInv, TypeOK, ApiTypeOK, RowsInv, Runs
      <3>3. \A o \in outputs : o.run # created + 1
        BY <3>2 DEF IInv, StateInv, AnsweredOnce
      <3>4. \A o \in outputs : requestOf'[o.run] = requestOf[o.run]
        BY <3>1, <3>3 DEF IInv, TypeOK, ApiTypeOK, ResultTypeOK, Answers
      <3> QED BY <3>1, <3>4, ShelvedFrame
    <2>2. CASE Replay(q) \/ ServeFromCache(q)
      BY <1>1, <2>2 DEF Replay, ServeFromCache, resultVars
    <2> QED BY <1>2, <2>1, <2>2 DEF Submit
  <1>3. ASSUME NEW r \in Runs, RequestCancel(r) \/ Lapse(r) PROVE Shelved'
    BY <1>1, <1>3 DEF RequestCancel, CancelQueued, FlagRunning, Lapse, apiVars, resultVars
  <1>4. ASSUME NEW w \in Workers, NEW u \in Usages, NEW v \in 0..MaxRuns, Complete(w, u, v)
        PROVE  Shelved'
    BY <1>4, CompleteIsFound
  <1>5. ASSUME NEW w \in Workers, Worker(w),
               ~\E u \in Usages, v \in 0..MaxRuns : Complete(w, u, v)
        PROVE  Shelved'
    <2>1. UNCHANGED <<apiVars, resultVars>>
      BY <1>5
      DEF Worker, Poll, SweepOnly, Claim, ClaimTransaction, ReadCancel, Renew, EmitText,
          Generated, Answered, TransientError, PermanentError, Settle, CancelClaimed, Requeue,
          FailForGood, DiscardStale, DropFailure, Crash
    <2> QED BY <1>1, <2>1 DEF apiVars, resultVars
  <1>6. CASE NewMonth \/ UNCHANGED vars
    BY <1>1, <1>6 DEF NewMonth, vars, apiVars, resultVars
  <1> QED BY <1>2, <1>3, <1>4, <1>5, <1>6 DEF Next

\* Whichever worker finishes first, a cache entry names a finished run of its digest, and
\* a shelf of n artifacts has the versions 1 to n.
THEOREM ArtifactsAreFoundHolds == Spec => []ArtifactsAreFound
  <1>1. Init => Shelved
    BY FS_EmptySet DEF Init, Shelved, CachedFound, Numbered
  <1>2. QED
    BY Invariance, <1>1, ShelvedNext, ShelvedIsFound, PTL DEF Spec

-----------------------------------------------------------------------------
(* The event log.                                                          *)

Started(r) == {e \in events[r] : e.type = "started"}

\* The story of run r: LogAgrees for r, and what an appended row needs of the rows before it.
LoggedRun(r) ==
  /\ \A e \in events[r] : e.id < nextEvent[r]
  /\ \A e \in events[r] : e.type \in Terminal =>
       e.type = status[r] /\ \A f \in events[r] : f = e \/ f.id < e.id
  /\ status[r] \in Terminal => \E e \in events[r] : e.type = status[r]
  /\ IsFiniteSet(Started(r)) /\ Cardinality(Started(r)) = attempts[r]

Logged == \A r \in Runs : LoggedRun(r)

LEMMA LoggedAgrees == Logged => LogAgrees
  BY DEF Logged, LoggedRun, LogAgrees, Started

LEMMA LogFrame ==
  ASSUME NEW r, LoggedRun(r),
         UNCHANGED <<events[r], nextEvent[r], attempts[r]>>,
         \/ status'[r] = status[r]
         \/ status[r] \notin Terminal /\ status'[r] \notin Terminal
  PROVE  LoggedRun(r)'
  BY DEF LoggedRun, Started

\* One more row in the log of an open run; the rows deleted with it are not "started".
LEMMA LogAppend ==
  ASSUME EventTypeOK, RowTypeOK, NEW r \in Runs, LoggedRun(r), status[r] \notin Terminal,
         NEW row, row.id = nextEvent[r], NEW kept, kept \subseteq events[r],
         Started(r) \subseteq kept,
         events'[r] = kept \cup {row}, nextEvent'[r] = nextEvent[r] + 1,
         row.type \in Terminal \/ status'[r] \in Terminal => status'[r] = row.type,
         attempts'[r] = IF row.type = "started" THEN attempts[r] + 1 ELSE attempts[r]
  PROVE  LoggedRun(r)'
  <1>1. /\ nextEvent[r] \in Nat /\ \A e \in events[r] : e.id \in Nat
        /\ \A e \in kept : e.id < nextEvent[r] /\ e.type \notin Terminal
    BY DEF EventTypeOK, EventRows, LoggedRun
  <1>2. \A e \in events'[r] : e.id < nextEvent'[r]
    BY <1>1
  <1>3. \A e \in events'[r] : e.type \in Terminal =>
          e.type = status'[r] /\ \A f \in events'[r] : f = e \/ f.id < e.id
    BY <1>1
  <1>4. status'[r] \in Terminal => \E e \in events'[r] : e.type = status'[r]
    OBVIOUS
  <1>5. row \notin Started(r)
    BY <1>1 DEF LoggedRun, Started
  <1>6. Started(r)' = IF row.type = "started" THEN Started(r) \cup {row} ELSE Started(r)
    BY DEF Started
  <1>7. IsFiniteSet(Started(r)') /\ Cardinality(Started(r)') = attempts'[r]
    BY <1>5, <1>6, FS_AddElement DEF LoggedRun
  <1> QED BY <1>2, <1>3, <1>4, <1>7 DEF LoggedRun

\* A step that appends to the log of one run only.
LEMMA LogOthers ==
  ASSUME Logged, NEW r \in Runs, LoggedRun(r)',
         \A s \in Runs \ {r} :
           UNCHANGED <<events[s], nextEvent[s], attempts[s], status[s]>>
  PROVE  Logged'
  BY LogFrame DEF Logged

LEMMA AddEventLogged ==
  ASSUME IInv, Logged, NEW r \in Runs, status[r] \notin Terminal,
         NEW type \in EventTypes \ {"started"}, NEW g, AddEvent(r, type, g),
         UNCHANGED attempts, \A s \in Runs \ {r} : status'[s] = status[s],
         type \in Terminal \/ status'[r] \in Terminal => status'[r] = type
  PROVE  Logged'
  <1>1. /\ EventTypeOK /\ RowTypeOK
        /\ EventRow(r, 0, type, g).id = nextEvent[r] /\ EventRow(r, 0, type, g).type = type
    BY DEF IInv, TypeOK, EventTypeOK, EventRow
  <1>2. /\ events'[r] = events[r] \cup {EventRow(r, 0, type, g)}
        /\ nextEvent'[r] = nextEvent[r] + 1
        /\ \A s \in Runs \ {r} : UNCHANGED <<events[s], nextEvent[s], attempts[s], status[s]>>
    BY <1>1 DEF AddEvent, EventTypeOK
  <1>3. LoggedRun(r)'
    BY <1>1, <1>2, LogAppend DEF Logged, Started
  <1> QED BY <1>2, <1>3, LogOthers

LEMMA ClaimTransactionLogged ==
  ASSUME IInv, Logged, NEW w \in Workers, NEW r \in {0} \cup Claimable, ClaimTransaction(w, r)
  PROVE  Logged'
  <1>1. /\ EventTypeOK /\ RowTypeOK
        /\ \A s \in Runs : EventRow(s, 0, "started", NextGeneration(s)).id = nextEvent[s]
        /\ \A s \in Runs : EventRow(s, 0, "failed", generation[s]).id = nextEvent[s]
    BY DEF IInv, TypeOK, EventTypeOK, EventRow
  <1>2. ASSUME NEW s \in Runs, s = r PROVE LoggedRun(s)'
    <2> DEFINE row == EventRow(s, 0, "started", NextGeneration(s))
    <2>1. row.type = "started" /\ row.id = nextEvent[s] /\ "started" \notin Terminal
      BY <1>1 DEF EventRow, Terminal
    <2>2. status[s] \notin Terminal /\ status'[s] = "running" /\ "running" \notin Terminal
      BY <1>2, SizesAssumption DEF ClaimTransaction, Claimable, Terminal, Runs
    <2>3. /\ events'[s] = WithoutText(s) \cup {row}
          /\ nextEvent'[s] = nextEvent[s] + 1 /\ attempts'[s] = attempts[s] + 1
      BY <1>2 DEF ClaimTransaction
    <2>4. WithoutText(s) \subseteq events[s] /\ Started(s) \subseteq WithoutText(s)
      BY DEF WithoutText, TextRows, Started
    <2> HIDE DEF row
    <2> QED BY <1>1, <2>1, <2>2, <2>3, <2>4, LogAppend DEF Logged
  <1>3. ASSUME NEW s \in Exhausted, s # r PROVE LoggedRun(s)'
    <2> DEFINE row == EventRow(s, 0, "failed", generation[s])
    <2>1. s \in Runs /\ status[s] \notin Terminal
      BY DEF Exhausted, Terminal
    <2>2. row.type = "failed" /\ row.id = nextEvent[s]
      BY <1>1, <2>1 DEF EventRow
    <2>3. /\ events'[s] = events[s] \cup {row} /\ status'[s] = "failed"
          /\ nextEvent'[s] = nextEvent[s] + 1 /\ attempts'[s] = attempts[s]
      BY <1>3, <2>1 DEF ClaimTransaction
    <2>4. Started(s) \subseteq events[s]
      BY DEF Started
    <2> HIDE DEF row
    <2> QED BY <1>1, <2>1, <2>2, <2>3, <2>4, LogAppend DEF Logged
  <1>4. ASSUME NEW s \in Runs, s \notin Exhausted, s # r PROVE LoggedRun(s)'
    BY <1>4, LogFrame DEF ClaimTransaction, Logged
  <1> QED BY <1>2, <1>3, <1>4 DEF Logged, Exhausted

\* The answer appends two rows, the usage and, after it, the end.
LEMMA CompleteLogged ==
  ASSUME IInv, Logged, NEW w \in Workers, NEW u \in Usages, NEW v \in 0..MaxRuns,
         Complete(w, u, v)
  PROVE  Logged'
  <1>r. PICK r \in Runs : r = claim[w].run
    BY OwnedRun DEF IInv, StateInv, Complete
  <1> DEFINE usage == EventRow(r, 0, "usage", claim[w].generation)
             end == EventRow(r, 1, "completed", claim[w].generation)
  <1>0. status[r] = "running" /\ EventTypeOK /\ RowTypeOK
    BY <1>r, OwnedRun DEF IInv, StateInv, TypeOK, Complete
  <1>1. /\ usage.id = nextEvent[r] /\ usage.type = "usage" /\ "usage" \notin Terminal
        /\ end.id = nextEvent[r] + 1 /\ end.type = "completed" /\ "completed" \in Terminal
        /\ status[r] \notin Terminal
    BY <1>0 DEF EventRow, EventTypeOK, Terminal
  <1>2. /\ events' = [events EXCEPT ![r] = @ \cup {usage, end}]
        /\ nextEvent' = [nextEvent EXCEPT ![r] = @ + 2]
        /\ attempts' = attempts /\ status' = [status EXCEPT ![r] = "completed"]
    BY <1>r DEF Complete, CompletionRows, CloseRun
  <1> HIDE DEF usage, end
  <1>3. /\ events'[r] = events[r] \cup {usage, end} /\ nextEvent'[r] = nextEvent[r] + 2
        /\ attempts'[r] = attempts[r] /\ status'[r] = "completed"
        /\ \A s \in Runs \ {r} : UNCHANGED <<events[s], nextEvent[s], attempts[s], status[s]>>
    BY <1>0, <1>2 DEF EventTypeOK, RowTypeOK
  <1>4. /\ nextEvent[r] \in Nat /\ LoggedRun(r)
        /\ \A e \in events[r] : e.id \in Nat /\ e.id < nextEvent[r] /\ e.type \notin Terminal
    BY <1>0, <1>1 DEF EventTypeOK, EventRows, Logged, LoggedRun
  <1>5. \A e \in events'[r] : e.id < nextEvent'[r]
    BY <1>1, <1>3, <1>4
  <1>6. \A e \in events'[r] : e.type \in Terminal =>
          e.type = status'[r] /\ \A f \in events'[r] : f = e \/ f.id < e.id
    BY <1>1, <1>3, <1>4
  <1>7. Started(r)' = Started(r)
    BY <1>1, <1>3 DEF Started
  <1>8. LoggedRun(r)'
    BY <1>1, <1>3, <1>4, <1>5, <1>6, <1>7 DEF LoggedRun
  <1> QED BY <1>3, <1>8, LogOthers

LEMMA RequeueLogged ==
  ASSUME IInv, Logged, NEW w \in Workers, Requeue(w)
  PROVE  Logged'
  <1>r. PICK r \in Runs : r = claim[w].run
    BY OwnedRun DEF IInv, StateInv, Requeue
  <1> DEFINE g == claim[w].generation
             row == EventRow(r, 0, "retry", g)
             kept == {e \in events[r] : e.type # "text" \/ e.generation # g}
  <1>0. status[r] = "running" /\ EventTypeOK /\ RowTypeOK
    BY <1>r, OwnedRun DEF IInv, StateInv, TypeOK, Requeue
  <1>1. /\ row.id = nextEvent[r] /\ row.type = "retry"
        /\ "retry" \notin Terminal /\ "queued" \notin Terminal /\ status[r] \notin Terminal
    BY <1>0 DEF EventRow, EventTypeOK, Terminal
  <1>2. /\ events' = [events EXCEPT ![r] = kept \cup {row}]
        /\ nextEvent' = [nextEvent EXCEPT ![r] = @ + 1]
        /\ attempts' = attempts /\ status' = [status EXCEPT ![r] = "queued"]
    BY <1>r DEF Requeue
  <1>3. kept \subseteq events[r] /\ Started(r) \subseteq kept
    BY DEF Started
  <1> HIDE DEF row, kept
  <1>4. /\ events'[r] = kept \cup {row} /\ nextEvent'[r] = nextEvent[r] + 1
        /\ attempts'[r] = attempts[r] /\ status'[r] = "queued"
        /\ \A s \in Runs \ {r} : UNCHANGED <<events[s], nextEvent[s], attempts[s], status[s]>>
    BY <1>0, <1>2 DEF EventTypeOK, RowTypeOK
  <1>5. LoggedRun(r)'
    BY <1>0, <1>1, <1>3, <1>4, LogAppend DEF Logged
  <1> QED BY <1>4, <1>5, LogOthers

LEMMA LoggedNext == IInv /\ Logged /\ [Next]_vars => Logged'
  <1> SUFFICES ASSUME IInv, Logged, [Next]_vars PROVE Logged'
    OBVIOUS
  <1>0. TypeOK /\ RowsInv /\ RowTypeOK
    BY DEF IInv, StateInv, TypeOK
  <1>1. ASSUME UNCHANGED <<events, nextEvent, attempts, status>> PROVE Logged'
    BY <1>1, LogFrame DEF Logged
  <1>2. ASSUME NEW q \in Requests, Enqueue(q) PROVE Logged'
    <2> DEFINE r == created + 1
    <2>1. r \in Runs /\ status[r] = "absent"
      BY <1>0, <1>2, SizesAssumption DEF Enqueue, TypeOK, ApiTypeOK, RowsInv, Runs
    <2>2. /\ AddEvent(r, "queued", 0) /\ attempts' = attempts
          /\ status' = [status EXCEPT ![r] = "queued"]
      BY <1>2 DEF Enqueue
    <2> HIDE DEF r
    <2>3. /\ status[r] \notin Terminal /\ status'[r] \notin Terminal /\ "queued" \notin Terminal
          /\ \A s \in Runs \ {r} : status'[s] = status[s]
          /\ "queued" \in EventTypes \ {"started"}
      BY <1>0, <2>1, <2>2 DEF RowTypeOK, Terminal, EventTypes
    <2> QED BY <2>1, <2>2, <2>3, AddEventLogged
  <1>3. ASSUME NEW r \in Runs, NEW final \in Terminal, NEW g, status[r] \in Open,
               CloseRun(r, final), AddEvent(r, final, g), UNCHANGED attempts
        PROVE  Logged'
    <2>1. /\ status[r] \notin Terminal /\ status'[r] = final
          /\ final \in EventTypes \ {"started"}
          /\ \A s \in Runs \ {r} : status'[s] = status[s]
      BY <1>0, <1>3 DEF RowTypeOK, Terminal, Open, EventTypes, CloseRun
    <2> QED BY <1>3, <2>1, AddEventLogged
  <1>4. ASSUME NEW r \in Runs, CancelQueued(r) PROVE Logged'
    BY <1>3, <1>4 DEF CancelQueued, Open, Terminal
  <1>5. ASSUME NEW w \in Workers, CancelClaimed(w) PROVE Logged'
    BY <1>0, <1>3, <1>5, OwnedRun DEF CancelClaimed, Open, Terminal
  <1>6. ASSUME NEW w \in Workers, FailForGood(w) PROVE Logged'
    BY <1>0, <1>3, <1>6, OwnedRun DEF FailForGood, Open, Terminal
  <1>7. ASSUME NEW w \in Workers, Poll(w) PROVE Logged'
    BY <1>7, ClaimTransactionLogged DEF Poll, SweepOnly, Claim
  <1>8. ASSUME NEW w \in Workers, EmitText(w) PROVE Logged'
    <2>1. CASE Owns(w)
      <3>1. claim[w].run \in Runs /\ status[claim[w].run] = "running"
        BY <1>0, <2>1, OwnedRun
      <3>2. /\ AddEvent(claim[w].run, "text", claim[w].generation)
            /\ attempts' = attempts /\ status' = status
        BY <1>8, <2>1 DEF EmitText, rowVars
      <3>3. "text" \in EventTypes \ {"started"} /\ "text" \notin Terminal /\ "running" \notin Terminal
        BY DEF EventTypes, Terminal
      <3> QED BY <3>1, <3>2, <3>3, AddEventLogged
    <2>2. CASE ~Owns(w)
      BY <1>1, <1>8, <2>2 DEF EmitText, eventVars, rowVars
    <2> QED BY <2>1, <2>2
  <1>9. ASSUME NEW w \in Workers, ReadCancel(w) \/ Renew(w) \/ Generated(w) \/ DiscardStale(w)
                                  \/ DropFailure(w) \/ Crash(w)
        PROVE  Logged'
    BY <1>1, <1>9 DEF ReadCancel, Renew, Generated, Answered, TransientError, PermanentError,
                      DiscardStale, DropFailure, Crash, eventVars, rowVars
  <1>10. ASSUME NEW w \in Workers, Settle(w) PROVE Logged'
    BY <1>5, <1>6, <1>9, <1>10, CompleteLogged, RequeueLogged DEF Settle
  <1>11. CASE \/ \E q \in Requests : Replay(q) \/ ServeFromCache(q)
              \/ \E r \in Runs : FlagRunning(r) \/ Lapse(r)
              \/ NewMonth
              \/ UNCHANGED vars
    BY <1>1, <1>11 DEF Replay, ServeFromCache, FlagRunning, Lapse, NewMonth, vars, eventVars,
                       rowVars
  <1> QED
    BY <1>2, <1>4, <1>7, <1>8, <1>9, <1>10, <1>11 DEF Next, Submit, RequestCancel, Worker

\* Whatever retries, takeovers and sweeps a run went through, its log has one "started" per
\* attempt and ends with one terminal event, of its status, exactly when it is settled.
THEOREM LogAgreesHolds == Spec => []LogAgrees
  <1>1. Init => Logged
    BY FS_EmptySet DEF Init, Logged, LoggedRun, Started, Terminal
  <1>2. QED
    BY Invariance, <1>1, LoggedNext, LoggedAgrees, PTL DEF Spec

-----------------------------------------------------------------------------
(* Sums over a finite set, as MapThenSumSet computes them: by a recursive  *)
(* function that picks one element after the other.                        *)

\* Induction, by the least number that is not in a set.
LEMMA Reaches ==
  ASSUME NEW T, 0 \in T, \A n \in Nat : n \in T => n + 1 \in T
  PROVE  Nat \subseteq T
  <1> DEFINE Rest == Nat \ T
  <1>1. SUFFICES ASSUME Rest # {} PROVE FALSE
    OBVIOUS
  <1> DEFINE Less == {p \in Nat \X Nat : p[1] < p[2]}
  <1>2. IsWellFoundedOn(Less, Nat)
    BY NatLessThanWellFounded DEF OpToRel
  <1>3. \E n \in Rest : \A m \in Rest : ~(<<m, n>> \in Less)
    <2>1. Rest \subseteq Nat
      OBVIOUS
    <2> HIDE DEF Rest, Less
    <2> QED BY <1>1, <1>2, <2>1, WFMin
  <1>4. PICK n \in Rest : \A m \in Rest : ~(<<m, n>> \in Less)
    BY <1>3
  <1>5. n # 0 /\ n \in Nat /\ n \notin T
    OBVIOUS
  <1>6. n - 1 \in Rest /\ n - 1 < n
    <2>1. n - 1 \in Nat /\ (n - 1) + 1 = n /\ n - 1 < n
      BY <1>5
    <2> QED BY <1>5, <2>1
  <1> QED BY <1>4, <1>6

Pick(s) == CHOOSE x \in s : TRUE

Term(f, it, s) == IF s = {} THEN 0 ELSE f[Pick(s)] + it[s \ {Pick(s)}]

Adds(it, f, S) == it = [s \in SUBSET S |-> Term(f, it, s)]

Adder(f, S) == CHOOSE it : Adds(it, f, S)

LEMMA SumIsAdded ==
  ASSUME NEW f, NEW S
  PROVE  SumOver(f, S) = Adder(f, S)[S]
  BY DEF SumOver, MapThenSumSet, MapThenFoldSet, Adder, Adds, Term, Pick

UpTo(S, n) == {s \in SUBSET S : Cardinality(s) <= n}

LEMMA Smaller ==
  ASSUME NEW s, IsFiniteSet(s), NEW x \in s
  PROVE  /\ IsFiniteSet(s \ {x}) /\ Cardinality(s) \in Nat \ {0}
         /\ Cardinality(s \ {x}) = Cardinality(s) - 1
  BY FS_RemoveElement, FS_CardinalityType, FS_EmptySet

LEMMA Picked == ASSUME NEW s, s # {} PROVE Pick(s) \in s
  BY DEF Pick

\* The recursive function that adds the terms exists, ...
LEMMA AdderExists ==
  ASSUME NEW f, NEW S, IsFiniteSet(S)
  PROVE  Adds(Adder(f, S), f, S)
  <1> DEFINE Level(n) == \E it : it = [s \in UpTo(S, n) |-> Term(f, it, s)]
             Levels == {n \in Nat : Level(n)}
  <1>0. \A s \in SUBSET S : IsFiniteSet(s) /\ Cardinality(s) \in Nat
    BY FS_Subset, FS_CardinalityType
  <1>1. 0 \in Levels
    <2> DEFINE zero == [s \in UpTo(S, 0) |-> 0]
    <2>1. \A s \in UpTo(S, 0) : s = {}
      BY <1>0, FS_EmptySet DEF UpTo
    <2>2. zero = [s \in UpTo(S, 0) |-> Term(f, zero, s)]
      BY <2>1 DEF Term
    <2> HIDE DEF zero
    <2> QED BY <2>2
  <1>2. ASSUME NEW n \in Nat, n \in Levels PROVE n + 1 \in Levels
    <2>1. PICK low : low = [s \in UpTo(S, n) |-> Term(f, low, s)]
      BY <1>2
    <2> DEFINE it == [s \in UpTo(S, n + 1) |->
                        IF s \in UpTo(S, n) THEN low[s] ELSE Term(f, low, s)]
    <2>2. UpTo(S, n) \subseteq UpTo(S, n + 1)
      BY <1>0 DEF UpTo
    <2>3. ASSUME NEW s \in UpTo(S, n + 1) PROVE it[s] = Term(f, it, s)
      <3>1. it[s] = Term(f, low, s)
        BY <2>1
      <3>2. CASE s = {}
        BY <3>1, <3>2 DEF Term
      <3>3. CASE s # {}
        <4>1. s \ {Pick(s)} \in UpTo(S, n)
          BY <1>0, <3>3, Picked, Smaller DEF UpTo
        <4>2. it[s \ {Pick(s)}] = low[s \ {Pick(s)}]
          BY <2>2, <4>1
        <4> QED BY <3>1, <4>2 DEF Term
      <3> QED BY <3>2, <3>3
    <2>4. it = [s \in UpTo(S, n + 1) |-> Term(f, it, s)]
      <3> DEFINE g == [s \in UpTo(S, n + 1) |-> Term(f, it, s)]
      <3>1. \A s \in UpTo(S, n + 1) : it[s] = g[s]
        <4> HIDE DEF it
        <4> QED BY <2>3
      <3>2. DOMAIN it = UpTo(S, n + 1) /\ DOMAIN g = UpTo(S, n + 1)
        OBVIOUS
      <3> QED BY <3>1, <3>2
    <2> HIDE DEF it
    <2>5. Level(n + 1)
      BY <2>4
    <2> QED BY <2>5
  <1>3. Cardinality(S) \in Levels
    <2>1. Nat \subseteq Levels
      <3> HIDE DEF Levels
      <3> QED BY <1>1, <1>2, Reaches
    <2> QED BY <1>0, <2>1
  <1>4. UpTo(S, Cardinality(S)) = SUBSET S
    BY <1>0, FS_Subset DEF UpTo
  <1>5. \E it : Adds(it, f, S)
    BY <1>3, <1>4 DEF Adds
  <1> QED BY <1>5 DEF Adder

LEMMA AdderUnfolds ==
  ASSUME NEW f, NEW S, IsFiniteSet(S), NEW s \in SUBSET S
  PROVE  Adder(f, S)[s] = Term(f, Adder(f, S), s)
  <1> DEFINE it == Adder(f, S)
  <1>1. it = [t \in SUBSET S |-> Term(f, it, t)]
    <2>1. Adds(it, f, S)
      BY AdderExists
    <2> HIDE DEF it
    <2> QED BY <2>1 DEF Adds
  <1> HIDE DEF it
  <1>2. it[s] = Term(f, it, s)
    BY <1>1
  <1> QED BY <1>2 DEF it

\* ... and does not depend on the set it is defined for.
LEMMA AddersAgree ==
  ASSUME NEW f, NEW S, IsFiniteSet(S), NEW T \in SUBSET S
  PROVE  Adder(f, S)[T] = Adder(f, T)[T]
  <1> DEFINE a == Adder(f, S)
             b == Adder(f, T)
             Equal == {n \in Nat : \A s \in SUBSET T : Cardinality(s) = n => a[s] = b[s]}
  <1>0. /\ IsFiniteSet(T) /\ \A s \in SUBSET T : s \in SUBSET S /\ IsFiniteSet(s)
        /\ Cardinality(T) \in Nat
    BY FS_Subset, FS_CardinalityType
  <1>1. ASSUME NEW s \in SUBSET T PROVE a[s] = Term(f, a, s) /\ b[s] = Term(f, b, s)
    BY <1>0, AdderUnfolds
  <1> HIDE DEF a, b
  <1>2. 0 \in Equal
    BY <1>0, <1>1, FS_EmptySet DEF Term
  <1>3. ASSUME NEW n \in Nat, n \in Equal PROVE n + 1 \in Equal
    <2>1. ASSUME NEW s \in SUBSET T, Cardinality(s) = n + 1 PROVE a[s] = b[s]
      <3>1. s # {}
        BY <2>1, FS_EmptySet
      <3>2. Pick(s) \in s /\ IsFiniteSet(s)
        BY <1>0, <3>1, Picked
      <3> DEFINE p == Pick(s)
      <3>3. Cardinality(s \ {p}) = n /\ s \ {p} \in SUBSET T
        <4> HIDE DEF p
        <4>1. Cardinality(s \ {p}) = Cardinality(s) - 1
          BY <3>2, Smaller DEF p
        <4> QED BY <2>1, <4>1
      <3>4. a[s \ {Pick(s)}] = b[s \ {Pick(s)}]
        BY <1>3, <3>3
      <3> QED BY <1>1, <3>4 DEF Term
    <2> QED BY <2>1
  <1>4. Nat \subseteq Equal
    <2> HIDE DEF Equal
    <2> QED BY <1>2, <1>3, Reaches
  <1>5. a[T] = b[T]
    BY <1>0, <1>4
  <1> QED BY <1>5 DEF a, b

LEMMA SumUnfolds ==
  ASSUME NEW f, NEW S, IsFiniteSet(S)
  PROVE  /\ S = {} => SumOver(f, S) = 0
         /\ S # {} => SumOver(f, S) = f[Pick(S)] + SumOver(f, S \ {Pick(S)})
  <1>1. SumOver(f, S) = Term(f, Adder(f, S), S)
    BY SumIsAdded, AdderUnfolds
  <1>2. ASSUME S # {}
        PROVE  Adder(f, S)[S \ {Pick(S)}] = SumOver(f, S \ {Pick(S)})
    BY SumIsAdded, AddersAgree
  <1> QED BY <1>1, <1>2 DEF Term

LEMMA SumTyped ==
  ASSUME NEW f, NEW S, IsFiniteSet(S), \A x \in S : f[x] \in Nat
  PROVE  SumOver(f, S) \in Nat
  <1> DEFINE Proved == {n \in Nat : \A s \in SUBSET S : Cardinality(s) = n => SumOver(f, s) \in Nat}
  <1>0. \A s \in SUBSET S : IsFiniteSet(s) /\ Cardinality(s) \in Nat
    BY FS_Subset, FS_CardinalityType
  <1>1. 0 \in Proved
    BY <1>0, SumUnfolds, FS_EmptySet
  <1>2. ASSUME NEW n \in Nat, n \in Proved PROVE n + 1 \in Proved
    <2>1. ASSUME NEW s \in SUBSET S, Cardinality(s) = n + 1 PROVE SumOver(f, s) \in Nat
      <3>1. s # {} /\ IsFiniteSet(s)
        BY <1>0, <2>1, FS_EmptySet
      <3>2. /\ Pick(s) \in s /\ s \ {Pick(s)} \in SUBSET S
            /\ Cardinality(s \ {Pick(s)}) = n
        BY <2>1, <3>1, Picked, Smaller
      <3>3. SumOver(f, s \ {Pick(s)}) \in Nat /\ f[Pick(s)] \in Nat
        BY <1>2, <3>2
      <3> QED BY <3>1, <3>3, SumUnfolds
    <2> QED BY <2>1
  <1>3. Nat \subseteq Proved
    <2> HIDE DEF Proved
    <2> QED BY <1>1, <1>2, Reaches
  <1> QED BY <1>0, <1>3

\* Any element may be the one that is added last.
LEMMA SumRemoves ==
  ASSUME NEW f, NEW S, IsFiniteSet(S), \A x \in S : f[x] \in Nat
  PROVE  \A x \in S : SumOver(f, S) = f[x] + SumOver(f, S \ {x})
  <1> DEFINE Splits(s) == \A x \in s : SumOver(f, s) = f[x] + SumOver(f, s \ {x})
             Proved == {n \in Nat : \A s \in SUBSET S : Cardinality(s) = n => Splits(s)}
  <1>0. \A s \in SUBSET S : /\ IsFiniteSet(s) /\ Cardinality(s) \in Nat
                            /\ SumOver(f, s) \in Nat
    BY FS_Subset, FS_CardinalityType, SumTyped
  <1>1. 0 \in Proved
    BY <1>0, FS_EmptySet
  <1>2. ASSUME NEW n \in Nat, n \in Proved PROVE n + 1 \in Proved
    <2>1. ASSUME NEW s \in SUBSET S, Cardinality(s) = n + 1, NEW x \in s
          PROVE  SumOver(f, s) = f[x] + SumOver(f, s \ {x})
      <3> DEFINE p == Pick(s)
                 rest == (s \ {p}) \ {x}
      <3>1. s # {} /\ IsFiniteSet(s)
        BY <1>0
      <3>2. p \in s /\ Cardinality(s \ {p}) = n /\ s \ {p} \in SUBSET S
        BY <2>1, <3>1, Picked, Smaller
      <3>3. SumOver(f, s) = f[p] + SumOver(f, s \ {p})
        BY <3>1, SumUnfolds
      <3>4. CASE x = p
        BY <3>3, <3>4
      <3>5. CASE x # p
        <4>1. SumOver(f, s \ {p}) = f[x] + SumOver(f, rest)
          BY <1>2, <3>2, <3>5
        <4>2. Cardinality(s \ {x}) = n /\ s \ {x} \in SUBSET S /\ p \in s \ {x}
          BY <2>1, <3>1, <3>2, <3>5, Smaller
        <4>3. SumOver(f, s \ {x}) = f[p] + SumOver(f, (s \ {x}) \ {p})
          BY <1>2, <4>2
        <4>4. (s \ {x}) \ {p} = rest
          OBVIOUS
        <4>5. SumOver(f, s \ {x}) = f[p] + SumOver(f, rest)
          BY <4>3, <4>4
        <4>6. SumOver(f, rest) \in Nat /\ f[x] \in Nat /\ f[p] \in Nat
          BY <1>0, <3>2
        <4> HIDE DEF p, rest
        <4> QED BY <3>3, <4>1, <4>5, <4>6
      <3> QED BY <3>4, <3>5
    <2> QED BY <2>1
  <1>3. Nat \subseteq Proved
    <2> HIDE DEF Proved
    <2> QED BY <1>1, <1>2, Reaches
  <1> QED BY <1>0, <1>3

LEMMA SumInserts ==
  ASSUME NEW f, NEW S, IsFiniteSet(S), NEW x, x \notin S, \A y \in S \cup {x} : f[y] \in Nat
  PROVE  SumOver(f, S \cup {x}) = SumOver(f, S) + f[x]
  <1>1. IsFiniteSet(S \cup {x}) /\ (S \cup {x}) \ {x} = S
    BY FS_AddElement
  <1>2. x \in S \cup {x} /\ SumOver(f, S) \in Nat
    BY SumTyped
  <1>4. SumOver(f, S \cup {x}) = f[x] + SumOver(f, (S \cup {x}) \ {x})
    BY <1>1, <1>2, SumRemoves
  <1>3. f[x] \in Nat
    OBVIOUS
  <1> QED BY <1>1, <1>2, <1>3, <1>4

\* A smaller function over fewer elements.
LEMMA SumGrows ==
  ASSUME NEW f, NEW g, NEW S, IsFiniteSet(S), NEW T \in SUBSET S,
         \A x \in S : g[x] \in Nat,
         \A x \in T : f[x] \in Nat /\ f[x] <= g[x]
  PROVE  SumOver(f, T) <= SumOver(g, S)
  <1> DEFINE Proved ==
        {n \in Nat : \A s \in SUBSET S, t \in SUBSET T :
           Cardinality(s) = n /\ t \subseteq s => SumOver(f, t) <= SumOver(g, s)}
  <1>0. /\ \A s \in SUBSET S : /\ IsFiniteSet(s) /\ Cardinality(s) \in Nat
                               /\ SumOver(g, s) \in Nat
        /\ \A t \in SUBSET T : IsFiniteSet(t) /\ SumOver(f, t) \in Nat
    BY FS_Subset, FS_CardinalityType, SumTyped
  <1>1. 0 \in Proved
    <2>1. \A s \in SUBSET S : Cardinality(s) = 0 => s = {}
      BY <1>0, FS_EmptySet
    <2>2. SumOver(f, {}) = 0 /\ SumOver(g, {}) = 0
      BY SumUnfolds, FS_EmptySet
    <2> QED BY <2>1, <2>2
  <1>2. ASSUME NEW n \in Nat, n \in Proved PROVE n + 1 \in Proved
    <2>1. ASSUME NEW s \in SUBSET S, NEW t \in SUBSET T, Cardinality(s) = n + 1, t \subseteq s
          PROVE  SumOver(f, t) <= SumOver(g, s)
      <3>1. s # {} /\ IsFiniteSet(s)
        BY <1>0, <2>1, FS_EmptySet
      <3>2. PICK p : p \in s
        BY <3>1
      <3>3. Cardinality(s \ {p}) = n /\ s \ {p} \in SUBSET S
        BY <2>1, <3>1, <3>2, Smaller
      <3>4. SumOver(g, s) = g[p] + SumOver(g, s \ {p})
        BY <3>1, <3>2, SumRemoves
      <3>5. SumOver(f, t \ {p}) <= SumOver(g, s \ {p})
        BY <1>2, <2>1, <3>3
      <3>6. g[p] \in Nat /\ SumOver(g, s \ {p}) \in Nat /\ SumOver(f, t \ {p}) \in Nat
        BY <1>0, <3>2, <3>3
      <3>7. CASE p \notin t
        <4>1. t \ {p} = t
          BY <3>7
        <4>2. SumOver(f, t \ {p}) = SumOver(f, t)
          BY <4>1
        <4> QED BY <3>4, <3>5, <3>6, <4>2
      <3>8. CASE p \in t
        <4>1. IsFiniteSet(t) /\ \A x \in t : f[x] \in Nat
          BY <1>0
        <4>2. SumOver(f, t) = f[p] + SumOver(f, t \ {p})
          BY <3>8, <4>1, SumRemoves
        <4>3. f[p] \in Nat /\ f[p] <= g[p]
          BY <3>8
        <4> QED BY <3>4, <3>5, <3>6, <4>2, <4>3
      <3> QED BY <3>7, <3>8
    <2> QED BY <2>1
  <1>3. Nat \subseteq Proved
    <2> HIDE DEF Proved
    <2> QED BY <1>1, <1>2, Reaches
  <1> QED BY <1>0, <1>3

LEMMA SumAgrees ==
  ASSUME NEW f, NEW g, NEW S, IsFiniteSet(S), \A x \in S : f[x] \in Nat /\ f[x] = g[x]
  PROVE  SumOver(f, S) = SumOver(g, S)
  <1>1. SumOver(f, S) <= SumOver(g, S) /\ SumOver(g, S) <= SumOver(f, S)
    BY SumGrows
  <1>2. SumOver(f, S) \in Nat /\ SumOver(g, S) \in Nat
    BY SumTyped
  <1> QED BY <1>1, <1>2

-----------------------------------------------------------------------------
(* The budget.                                                             *)

\* BudgetHeld, and what is charged this month is settled.
BudgetInv == (\A r \in thisMonth : status[r] = "completed") /\ BudgetHeld

LEMMA Charged ==
  ASSUME IInv, BudgetInv
  PROVE  /\ IsFiniteSet(thisMonth) /\ IsFiniteSet(OpenRuns) /\ OpenRuns \subseteq Runs
         /\ thisMonth \cap OpenRuns = {} /\ thisMonth \subseteq Runs
         /\ \A r \in Runs : reserved[r] \in Nat /\ ledger[r] \in Nat
         /\ \A r \in OpenRuns : reserved[r] = Reservation(requestOf[r])
         /\ \A r \in thisMonth : Covered[r] \in Nat /\ Covered[r] <= ledger[r]
  <1>1. IsFiniteSet(Runs) /\ thisMonth \subseteq Runs /\ OpenRuns \subseteq Runs
    BY FS_Interval, SizesAssumption DEF Runs, IInv, TypeOK, ResultTypeOK, OpenRuns
  <1>2. \A r \in Runs : reserved[r] \in Nat /\ ledger[r] \in Nat
    BY DEF IInv, TypeOK, ResultTypeOK, RowTypeOK
  <1>3. \A r \in thisMonth : requestOf[r] \in Requests
    BY <1>1, SizesAssumption DEF BudgetInv, IInv, StateInv, RowsInv, Runs, TypeOK, ApiTypeOK
  <1>4. \A q \in Requests : Reservation(q) \in Nat
    BY RequestsAssumption, SizesAssumption DEF Reservation
  <1>5. \A r \in thisMonth : Covered[r] \in Nat /\ Covered[r] <= ledger[r]
    BY <1>1, <1>2, <1>3, <1>4 DEF Covered
  <1>6. /\ thisMonth \cap OpenRuns = {}
        /\ \A r \in OpenRuns : reserved[r] = Reservation(requestOf[r])
    BY DEF BudgetInv, OpenRuns, Open, IInv, StateInv, ReservationHeld
  <1> QED BY <1>1, <1>2, <1>5, <1>6, FS_Subset

\* A step that admits nothing and answers nothing.
LEMMA BudgetFrame ==
  ASSUME IInv, IInv', BudgetInv, SettledUntouched, UNCHANGED requestOf,
         thisMonth' \subseteq thisMonth,
         \A r \in Runs : status'[r] \in Open => status[r] \in Open
  PROVE  BudgetInv'
  <1>1. OpenRuns' \subseteq OpenRuns
    BY DEF OpenRuns
  <1>2. \A r \in OpenRuns' : reserved'[r] = reserved[r]
    BY <1>1 DEF OpenRuns, IInv, StateInv, ReservationHeld
  <1>3. \A r \in thisMonth' : /\ r \in Runs /\ status[r] = "completed"
                              /\ status'[r] = "completed" /\ ledger'[r] = ledger[r]
    BY Charged DEF BudgetInv, SettledUntouched, Terminal
  <1>4. \A r \in thisMonth' : Covered'[r] = Covered[r]
    BY <1>3 DEF Covered
  <1>5. SumOver(reserved', OpenRuns') <= SumOver(reserved, OpenRuns)
    BY <1>1, <1>2, Charged, SumGrows
  <1>6. SumOver(Covered', thisMonth') <= SumOver(Covered, thisMonth)
    BY <1>4, Charged, SumGrows
  <1>7. /\ SumOver(reserved, OpenRuns) \in Nat /\ SumOver(Covered, thisMonth) \in Nat
        /\ Budget \in Nat
    BY Charged, SumTyped, SizesAssumption
  <1>8. SumOver(reserved', OpenRuns') \in Nat /\ SumOver(Covered', thisMonth') \in Nat
    <2>1. /\ IsFiniteSet(OpenRuns') /\ \A r \in OpenRuns' : reserved'[r] \in Nat
          /\ IsFiniteSet(thisMonth') /\ \A r \in thisMonth' : Covered'[r] \in Nat
      BY <1>1, <1>2, <1>4, Charged, FS_Subset
    <2> QED BY <2>1, SumTyped
  <1>9. BudgetHeld'
    <2>1. SumOver(Covered, thisMonth) + SumOver(reserved, OpenRuns) <= Budget
      BY DEF BudgetInv, BudgetHeld, ReservedTokens
    <2>2. SumOver(Covered', thisMonth') + SumOver(reserved', OpenRuns') <= Budget
      BY <1>5, <1>6, <1>7, <1>8, <2>1
    <2> QED BY <2>2 DEF BudgetHeld, ReservedTokens
  <1> QED BY <1>3, <1>9 DEF BudgetInv

\* Admission compares what it adds with all that is charged and held.
LEMMA AdmissionKeepsBudget ==
  ASSUME IInv, BudgetInv, NEW q \in Requests, Enqueue(q)
  PROVE  BudgetInv'
  <1> DEFINE r == created + 1
  <1>1. /\ r \in Runs /\ r \notin OpenRuns /\ r \notin thisMonth
        /\ UNCHANGED <<thisMonth, ledger>>
        /\ status' = [status EXCEPT ![r] = "queued"] /\ requestOf' = [requestOf EXCEPT ![r] = q]
        /\ reserved' = [reserved EXCEPT ![r] = Reservation(q)] /\ WithinBudget(q)
    <2>1. r \in Runs /\ status[r] = "absent"
      BY SizesAssumption DEF Enqueue, IInv, StateInv, RowsInv, Runs, TypeOK, ApiTypeOK
    <2> QED BY <2>1 DEF Enqueue, OpenRuns, Open, BudgetInv, resultVars
  <1> HIDE DEF r
  <1>2. OpenRuns' = OpenRuns \cup {r} /\ Reservation(q) \in Nat
    BY <1>1, RequestsAssumption, SizesAssumption
    DEF OpenRuns, Open, Reservation, IInv, TypeOK, RowTypeOK
  <1>3. \A s \in Runs \ {r} : /\ reserved'[s] = reserved[s] /\ requestOf'[s] = requestOf[s]
                              /\ status'[s] = status[s]
    BY <1>1 DEF IInv, TypeOK, RowTypeOK, ApiTypeOK
  <1>4. reserved'[r] = Reservation(q)
    BY <1>1 DEF IInv, TypeOK, RowTypeOK
  <1>5. SumOver(reserved', OpenRuns') = SumOver(reserved, OpenRuns) + Reservation(q)
    <2>0. \A s \in OpenRuns : s # r /\ reserved'[s] = reserved[s] /\ reserved[s] \in Nat
      BY <1>1, <1>3, Charged
    <2>1. SumOver(reserved', OpenRuns \cup {r}) = SumOver(reserved', OpenRuns) + reserved'[r]
      <3>1. /\ IsFiniteSet(OpenRuns) /\ r \notin OpenRuns
            /\ \A s \in OpenRuns \cup {r} : reserved'[s] \in Nat
        BY <1>1, <1>2, <1>4, <2>0, Charged
      <3> QED BY <3>1, SumInserts
    <2>2. SumOver(reserved', OpenRuns) = SumOver(reserved, OpenRuns)
      <3>1. /\ IsFiniteSet(OpenRuns)
            /\ \A s \in OpenRuns : reserved'[s] \in Nat /\ reserved'[s] = reserved[s]
        BY <2>0, Charged
      <3> QED BY <3>1, SumAgrees
    <2> QED BY <1>2, <1>4, <2>1, <2>2
  <1>6. \A s \in thisMonth' : Covered'[s] = Covered[s] /\ status'[s] = status[s]
    BY <1>1, <1>3, Charged DEF Covered
  <1>7. SumOver(Covered', thisMonth') <= SumOver(ledger, thisMonth)
    BY <1>1, <1>6, Charged, SumGrows
  <1>8. SumOver(ledger, thisMonth) + SumOver(reserved, OpenRuns) + Reservation(q) <= Budget
    BY <1>1 DEF WithinBudget, MonthUsage, ReservedTokens
  <1>9. /\ SumOver(ledger, thisMonth) \in Nat /\ SumOver(reserved, OpenRuns) \in Nat
        /\ SumOver(Covered', thisMonth') \in Nat /\ Budget \in Nat
    BY <1>1, <1>6, Charged, SumTyped, SizesAssumption
  <1>10. SumOver(Covered', thisMonth') + SumOver(reserved', OpenRuns') <= Budget
    BY <1>2, <1>5, <1>7, <1>8, <1>9
  <1>11. BudgetHeld'
    BY <1>10 DEF BudgetHeld, ReservedTokens
  <1> QED BY <1>1, <1>6, <1>11 DEF BudgetInv

\* An answer trades its reservation for at most as much.
LEMMA AnswerKeepsBudget ==
  ASSUME IInv, BudgetInv, NEW w \in Workers, NEW u \in Usages, NEW v \in 0..MaxRuns,
         Complete(w, u, v)
  PROVE  BudgetInv'
  <1> DEFINE r == claim[w].run
             q == requestOf[r]
  <1>1. /\ r \in OpenRuns /\ q \in Requests /\ r \in Runs
        /\ status' = [status EXCEPT ![r] = "completed"]
        /\ ledger' = [ledger EXCEPT ![r] = Charge(q, u)]
        /\ thisMonth' = thisMonth \cup {r} /\ UNCHANGED requestOf
        /\ reserved' = [reserved EXCEPT ![r] = 0]
    <2>1. r \in Runs /\ status[r] = "running" /\ requestOf[r] \in Requests
      BY OwnedRun, SizesAssumption DEF Complete, IInv, StateInv, RowsInv, TypeOK, ApiTypeOK, Runs
    <2> QED BY <2>1 DEF Complete, CloseRun, OpenRuns, Open, apiVars
  <1>2. Charge(q, u) \in Nat /\ Reservation(q) \in Nat
    BY <1>1, RequestsAssumption, UsagesAssumption, SizesAssumption DEF Charge, Reservation
  <1> HIDE DEF r, q
  <1>3. /\ OpenRuns' = OpenRuns \ {r} /\ status'[r] = "completed" /\ ledger'[r] = Charge(q, u)
        /\ \A s \in Runs \ {r} : /\ status'[s] = status[s] /\ ledger'[s] = ledger[s]
                                 /\ reserved'[s] = reserved[s]
    BY <1>1 DEF OpenRuns, Open, IInv, TypeOK, RowTypeOK, ResultTypeOK
  <1>4. r \notin thisMonth /\ reserved[r] = Reservation(q)
    BY <1>1, Charged DEF q
  <1>5. Covered'[r] \in Nat /\ Covered'[r] <= Reservation(q)
    BY <1>1, <1>2, <1>3 DEF Covered, q
  <1>6. \A s \in thisMonth : Covered'[s] = Covered[s] /\ s # r /\ s \in Runs
    BY <1>1, <1>3, <1>4, Charged DEF Covered
  <1>7. SumOver(Covered', thisMonth') = SumOver(Covered, thisMonth) + Covered'[r]
    <2>1. SumOver(Covered', thisMonth \cup {r}) = SumOver(Covered', thisMonth) + Covered'[r]
      BY <1>4, <1>5, <1>6, Charged, SumInserts
    <2>2. SumOver(Covered', thisMonth) = SumOver(Covered, thisMonth)
      BY <1>6, Charged, SumAgrees
    <2> QED BY <1>1, <2>1, <2>2
  <1>8. SumOver(reserved, OpenRuns) = Reservation(q) + SumOver(reserved', OpenRuns')
    <2>1. SumOver(reserved, OpenRuns) = reserved[r] + SumOver(reserved, OpenRuns \ {r})
      BY <1>1, Charged, SumRemoves
    <2>2. SumOver(reserved', OpenRuns \ {r}) = SumOver(reserved, OpenRuns \ {r})
      <3>1. IsFiniteSet(OpenRuns \ {r}) /\ \A s \in OpenRuns \ {r} : s \in Runs \ {r}
        BY Charged, FS_Subset
      <3> QED BY <1>3, <3>1, Charged, SumAgrees
    <2> QED BY <1>3, <1>4, <2>1, <2>2
  <1>9. /\ SumOver(Covered, thisMonth) \in Nat /\ SumOver(reserved', OpenRuns') \in Nat
        /\ Budget \in Nat
    <2>1. IsFiniteSet(OpenRuns') /\ \A s \in OpenRuns' : reserved'[s] \in Nat
      BY <1>3, Charged, FS_Subset
    <2> QED BY <2>1, Charged, SumTyped, SizesAssumption
  <1>10. SumOver(Covered, thisMonth) + SumOver(reserved, OpenRuns) <= Budget
    BY DEF BudgetInv, BudgetHeld, ReservedTokens
  <1>11. SumOver(Covered', thisMonth') + SumOver(reserved', OpenRuns') <= Budget
    BY <1>2, <1>5, <1>7, <1>8, <1>9, <1>10
  <1>12. BudgetHeld'
    BY <1>11 DEF BudgetHeld, ReservedTokens
  <1>13. \A s \in thisMonth' : status'[s] = "completed"
    BY <1>1, <1>3, <1>6 DEF BudgetInv
  <1> QED BY <1>12, <1>13 DEF BudgetInv

LEMMA BudgetNext == IInv /\ BudgetInv /\ [Next]_vars => BudgetInv'
  <1> SUFFICES ASSUME IInv, BudgetInv, [Next]_vars PROVE BudgetInv'
    OBVIOUS
  <1>0. IInv' /\ SettledUntouched /\ TypeOK /\ RowTypeOK /\ RowsInv
    BY TypeStep, StateStep, SettledStep DEF IInv, StateInv, TypeOK
  <1>1. ASSUME UNCHANGED requestOf, thisMonth' \subseteq thisMonth,
               \A r \in Runs : status'[r] \in Open => status[r] \in Open
        PROVE  BudgetInv'
    BY <1>0, <1>1, BudgetFrame
  <1>2. ASSUME NEW q \in Requests, Submit(q) PROVE BudgetInv'
    BY <1>1, <1>2, AdmissionKeepsBudget
    DEF Submit, Replay, ServeFromCache, rowVars, resultVars
  <1>3. ASSUME NEW r \in Runs, RequestCancel(r) \/ Lapse(r) PROVE BudgetInv'
    BY <1>0, <1>1, <1>3 DEF RequestCancel, CancelQueued, FlagRunning, Lapse, CloseRun, Open,
                            RowTypeOK, apiVars, resultVars
  <1>4. ASSUME NEW w \in Workers, Poll(w) PROVE BudgetInv'
    <2>1. PICK r \in {0} \cup Claimable : ClaimTransaction(w, r)
      BY <1>4 DEF Poll, SweepOnly, Claim
    <2>2. \A s \in Runs : status'[s] \in Open => status[s] \in Open
      BY <2>1 DEF ClaimTransaction, Claimable, Open, Runs
    <2> QED BY <1>1, <2>1, <2>2 DEF ClaimTransaction, apiVars, resultVars
  <1>5. ASSUME NEW w \in Workers, CancelClaimed(w) \/ Requeue(w) \/ FailForGood(w)
        PROVE  BudgetInv'
    <2>1. claim[w].run \in Runs /\ status[claim[w].run] = "running"
      BY <1>0, <1>5, OwnedRun DEF CancelClaimed, Requeue, FailForGood
    <2>2. \A s \in Runs : status'[s] \in Open => status[s] \in Open
      BY <1>0, <1>5, <2>1 DEF CancelClaimed, Requeue, FailForGood, CloseRun, Open, RowTypeOK
    <2> QED BY <1>1, <1>5, <2>2 DEF CancelClaimed, Requeue, FailForGood, apiVars, resultVars
  <1>6. ASSUME NEW w \in Workers, ReadCancel(w) \/ Renew(w) \/ EmitText(w) \/ Generated(w)
                                  \/ DiscardStale(w) \/ DropFailure(w) \/ Crash(w)
        PROVE  BudgetInv'
    BY <1>1, <1>6 DEF ReadCancel, Renew, EmitText, Generated, Answered, TransientError,
                      PermanentError, DiscardStale, DropFailure, Crash, rowVars, apiVars, resultVars
  <1>7. CASE NewMonth \/ UNCHANGED vars
    BY <1>1, <1>7 DEF NewMonth, vars, rowVars, apiVars, resultVars
  <1> QED BY <1>2, <1>3, <1>4, <1>5, <1>6, <1>7, AnswerKeepsBudget DEF Next, Worker, Settle

\* Whatever is admitted, answered, cancelled, swept or carried over into a new month: what
\* this month's answers took of their reservations, and the reservations in flight, stay
\* within the budget.
THEOREM BudgetHeldHolds == Spec => []BudgetHeld
  <1>1. Init => BudgetInv
    <2> SUFFICES ASSUME Init PROVE BudgetInv
      OBVIOUS
    <2>1. thisMonth = {} /\ OpenRuns = {}
      BY DEF Init, OpenRuns, Open
    <2>2. SumOver(Covered, {}) = 0 /\ SumOver(reserved, {}) = 0
      BY SumUnfolds, FS_EmptySet
    <2> QED BY <2>1, <2>2, SizesAssumption DEF BudgetInv, BudgetHeld, ReservedTokens
  <1>2. QED
    BY Invariance, <1>1, BudgetNext, PTL DEF Spec, BudgetInv
=============================================================================
