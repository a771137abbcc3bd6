------------------------- MODULE EventStream_proofs -------------------------
(***************************************************************************)
(* What a client that follows a run receives, for every number of workers  *)
(* and attempts, every batch size and any number of lost connections.      *)
(***************************************************************************)
EXTENDS EventStream, AIRunsResults_proofs

-----------------------------------------------------------------------------
(* The log of a run, as its reader needs it.                               *)

OrderedRun(r) ==
  /\ IsFiniteSet(events[r])
  /\ \A e \in events[r] : e.id < nextEvent[r] /\ e.generation <= generation[r]
  /\ \A e, f \in events[r] : e.id = f.id => e = f
  /\ status[r] = "running" =>
       \E s \in events[r] : s.type = "started" /\ s.generation = generation[r]
  /\ \A u \in TextRows(r) :
       \E s \in events[r] : s.type = "started" /\ s.generation = u.generation /\ s.id < u.id

\* Only text is deleted; whatever is new comes after all there was. New text is of the
\* present generation, and a new "started" of a later one, when no text is left.
LogGoesOn(r) ==
  /\ nextEvent[r] <= nextEvent'[r] /\ generation[r] <= generation'[r]
  /\ \A e \in events[r] : e.type # "text" => e \in events'[r]
  /\ \A e \in events'[r] \ events[r] :
       /\ nextEvent[r] <= e.id
       /\ e.type = "text" => e.generation = generation[r]
       /\ e.type = "started" => \A f \in events'[r] : f.type # "text"

KeepsOrder(r) == OrderedRun(r)' /\ LogGoesOn(r)

LEMMA OrderedFrame ==
  ASSUME IInv, NEW r \in Runs, OrderedRun(r),
         UNCHANGED <<events[r], nextEvent[r], generation[r]>>,
         status'[r] = "running" => status[r] = "running"
  PROVE  OrderedRun(r)' /\ LogGoesOn(r)
  BY DEF OrderedRun, LogGoesOn, TextRows, IInv, TypeOK, EventTypeOK, RowTypeOK

\* Rows appended to the log of r: row and, after it, perhaps last.
LEMMA OrderedAppend ==
  ASSUME IInv, NEW r \in Runs, OrderedRun(r),
         NEW kept, kept \subseteq events[r], \A e \in events[r] \ kept : e.type = "text",
         NEW row \in EventRows, row.id = nextEvent[r], row.generation <= generation'[r],
         NEW last \in EventRows, last.generation <= generation'[r],
         \/ last = row
         \/ last.id = row.id + 1 /\ last.type \notin {"text", "started"},
         events'[r] = kept \cup {row, last}, nextEvent'[r] = last.id + 1,
         row.type # "started" => generation'[r] = generation[r],
         row.type = "text" => status[r] = "running" /\ row.generation = generation[r],
         row.type = "started" => /\ row.generation = generation'[r]
                                 /\ generation'[r] = generation[r] + 1
                                 /\ \A e \in kept : e.type # "text",
         status'[r] = "running" => status[r] = "running" \/ row.type = "started"
  PROVE  OrderedRun(r)' /\ LogGoesOn(r)
  <1>1. /\ nextEvent[r] \in Nat /\ generation[r] \in Nat /\ events[r] \subseteq EventRows
        /\ generation'[r] \in Nat /\ generation[r] <= generation'[r]
        /\ \A e \in EventRows : e.id \in Nat /\ e.generation \in Nat
    BY DEF IInv, TypeOK, EventTypeOK, RowTypeOK, EventRows
  <1>2. IsFiniteSet(events'[r])
    <2>1. IsFiniteSet(kept)
      BY FS_Subset DEF OrderedRun
    <2>2. IsFiniteSet((kept \cup {row}) \cup {last})
      BY <2>1, FS_AddElement
    <2>3. events'[r] = (kept \cup {row}) \cup {last}
      OBVIOUS
    <2> QED BY <2>2, <2>3
  <1>3. /\ \A e \in kept : e \in EventRows /\ e.id < row.id /\ e.generation <= generation[r]
        /\ row.id <= last.id
    BY <1>1 DEF OrderedRun
  <1>4. \A e \in events'[r] : e.id < nextEvent'[r] /\ e.generation <= generation'[r]
    BY <1>1, <1>3
  <1>5. \A e, f \in events'[r] : e.id = f.id => e = f
    <2>1. \A e, f \in kept : e.id = f.id => e = f
      BY DEF OrderedRun
    <2> QED BY <1>1, <1>3, <2>1
  <1>6. status'[r] = "running" =>
          \E s \in events'[r] : s.type = "started" /\ s.generation = generation'[r]
    <2>1. CASE row.type = "started"
      BY <2>1
    <2>2. CASE row.type # "started"
      BY <2>2 DEF OrderedRun
    <2> QED BY <2>1, <2>2
  <1>7. ASSUME NEW u \in events'[r], u.type = "text"
        PROVE  \E s \in events'[r] : /\ s.type = "started" /\ s.generation = u.generation
                                     /\ s.id < u.id
    <2>1. CASE u \in kept
      <3>1. PICK s \in events[r] : s.type = "started" /\ s.generation = u.generation /\ s.id < u.id
        BY <1>7, <2>1 DEF OrderedRun, TextRows
      <3> QED BY <3>1
    <2>2. CASE u = row
      <3>1. PICK s \in events[r] : s.type = "started" /\ s.generation = generation[r]
        BY <1>7, <2>2 DEF OrderedRun
      <3> QED BY <1>3, <1>7, <2>2, <3>1
    <2> QED BY <1>7, <2>1, <2>2
  <1>8. LogGoesOn(r)
    <2>1. ASSUME NEW e \in events'[r] \ events[r]
          PROVE  /\ nextEvent[r] <= e.id
                 /\ e.type = "text" => e.generation = generation[r]
                 /\ e.type = "started" => \A f \in events'[r] : f.type # "text"
      <3>1. e = row \/ e = last
        BY <2>1
      <3> QED BY <1>1, <1>3, <3>1
    <2> QED BY <1>1, <1>3, <2>1 DEF LogGoesOn
  <1> QED BY <1>2, <1>4, <1>5, <1>6, <1>7, <1>8 DEF OrderedRun, TextRows

LEMMA OrderedAddEvent ==
  ASSUME IInv, NEW r \in Runs, OrderedRun(r), NEW t \in Runs,
         NEW type \in EventTypes \ {"started"}, NEW g \in Nat, g <= generation[t],
         AddEvent(t, type, g), UNCHANGED generation,
         type = "text" => status[t] = "running" /\ g = generation[t],
         status'[r] = "running" => status[r] = "running"
  PROVE  OrderedRun(r)' /\ LogGoesOn(r)
  <1> DEFINE row == EventRow(t, 0, type, g)
  <1>1. /\ row \in EventRows /\ row.id = nextEvent[t] /\ row.type = type /\ row.generation = g
        /\ nextEvent[t] \in Nat
    BY EventRowTyped DEF IInv, TypeOK, EventTypeOK, EventRow
  <1>2. /\ events' = [events EXCEPT ![t] = @ \cup {row}]
        /\ nextEvent' = [nextEvent EXCEPT ![t] = @ + 1]
    BY DEF AddEvent
  <1> HIDE DEF row
  <1>3. CASE r = t
    <2>1. events'[r] = events[r] \cup {row, row} /\ nextEvent'[r] = row.id + 1
      BY <1>1, <1>2, <1>3 DEF IInv, TypeOK, EventTypeOK
    <2> QED BY <1>1, <1>3, <2>1, OrderedAppend
  <1>4. CASE r # t
    <2>1. UNCHANGED <<events[r], nextEvent[r], generation[r]>>
      BY <1>2, <1>4 DEF IInv, TypeOK, EventTypeOK
    <2> QED BY <2>1, OrderedFrame
  <1> QED BY <1>3, <1>4

LEMMA OrderedClaim ==
  ASSUME IInv, NEW r \in Runs, OrderedRun(r), NEW w \in Workers,
         NEW t \in {0} \cup Claimable, ClaimTransaction(w, t)
  PROVE  OrderedRun(r)' /\ LogGoesOn(r)
  <1>0. /\ generation[r] \in Nat /\ generation[r] + 1 \in Nat /\ EventTypeOK /\ RowTypeOK
        /\ nextEvent[r] \in Nat
    BY DEF IInv, TypeOK, EventTypeOK, RowTypeOK
  <1>1. CASE r = t
    <2> DEFINE row == EventRow(r, 0, "started", generation[r] + 1)
               kept == WithoutText(r)
    <2>1. /\ row \in EventRows /\ row.id = nextEvent[r] /\ row.type = "started"
          /\ row.generation = generation[r] + 1
      BY <1>0, EventRowTyped DEF EventRow, EventTypes
    <2>2. /\ events'[r] = kept \cup {row} /\ nextEvent'[r] = nextEvent[r] + 1
          /\ generation'[r] = generation[r] + 1
      BY <1>1 DEF ClaimTransaction, NextGeneration
    <2>3. /\ kept \subseteq events[r] /\ \A e \in events[r] \ kept : e.type = "text"
          /\ \A e \in kept : e.type # "text"
      BY DEF WithoutText, TextRows
    <2> HIDE DEF row, kept
    <2>4. events'[r] = kept \cup {row, row} /\ nextEvent'[r] = row.id + 1
      BY <2>1, <2>2
    <2>5. /\ row.generation <= generation'[r] /\ row.generation = generation'[r]
          /\ generation'[r] = generation[r] + 1
      BY <1>0, <2>1, <2>2
    <2> QED BY <2>1, <2>3, <2>4, <2>5, OrderedAppend
  <1>2. CASE r \in Exhausted /\ r # t
    <2> DEFINE row == EventRow(r, 0, "failed", generation[r])
    <2>1. /\ row \in EventRows /\ row.id = nextEvent[r] /\ row.type = "failed"
          /\ row.generation = generation[r]
      BY <1>0, EventRowTyped DEF EventRow, EventTypes, Terminal
    <2>2. /\ events'[r] = events[r] \cup {row} /\ nextEvent'[r] = nextEvent[r] + 1
          /\ generation'[r] = generation[r] /\ status'[r] = "failed"
      BY <1>2 DEF ClaimTransaction
    <2> HIDE DEF row
    <2>3. events'[r] = events[r] \cup {row, row} /\ nextEvent'[r] = row.id + 1
      BY <2>1, <2>2
    <2> QED BY <1>0, <2>1, <2>2, <2>3, OrderedAppend
  <1>3. CASE r \notin Exhausted /\ r # t
    BY <1>3, OrderedFrame DEF ClaimTransaction
  <1> QED BY <1>1, <1>2, <1>3

LEMMA OrderedComplete ==
  ASSUME IInv, NEW r \in Runs, OrderedRun(r), NEW w \in Workers,
         NEW u \in Usages, NEW v \in 0..MaxRuns, Complete(w, u, v)
  PROVE  OrderedRun(r)' /\ LogGoesOn(r)
  <1>t. PICK t \in Runs : t = claim[w].run /\ generation[t] = claim[w].generation
    BY OwnedRun DEF IInv, StateInv, Complete
  <1> DEFINE usage == EventRow(t, 0, "usage", generation[t])
             end == EventRow(t, 1, "completed", generation[t])
  <1>1. /\ usage \in EventRows /\ usage.id = nextEvent[t] /\ usage.type = "usage"
        /\ end \in EventRows /\ end.id = nextEvent[t] + 1 /\ end.type = "completed"
        /\ usage.generation = generation[t] /\ end.generation = generation[t]
        /\ nextEvent[t] \in Nat /\ generation[t] \in Nat
    BY EventRowTyped
    DEF IInv, TypeOK, EventTypeOK, RowTypeOK, EventRow, EventTypes, Terminal
  <1>2. /\ events' = [events EXCEPT ![t] = @ \cup {usage, end}]
        /\ nextEvent' = [nextEvent EXCEPT ![t] = @ + 2]
        /\ generation' = generation /\ status' = [status EXCEPT ![t] = "completed"]
    BY <1>t DEF Complete, CompletionRows, CloseRun
  <1> HIDE DEF usage, end
  <1>3. CASE r = t
    <2>1. /\ events'[r] = events[r] \cup {usage, end} /\ nextEvent'[r] = end.id + 1
          /\ status'[r] = "completed" /\ generation'[r] = generation[r]
      BY <1>1, <1>2, <1>3 DEF IInv, TypeOK, EventTypeOK, RowTypeOK
    <2>2. /\ usage.generation <= generation'[r] /\ end.generation <= generation'[r]
          /\ usage.id = nextEvent[r] /\ end.id = usage.id + 1
      BY <1>1, <1>3, <2>1
    <2> QED BY <1>1, <2>1, <2>2, OrderedAppend
  <1>4. CASE r # t
    <2>1. UNCHANGED <<events[r], nextEvent[r], generation[r], status[r]>>
      BY <1>2, <1>4 DEF IInv, TypeOK, EventTypeOK, RowTypeOK
    <2> QED BY <2>1, OrderedFrame
  <1> QED BY <1>3, <1>4

LEMMA OrderedRequeue ==
  ASSUME IInv, NEW r \in Runs, OrderedRun(r), NEW w \in Workers, Requeue(w)
  PROVE  OrderedRun(r)' /\ LogGoesOn(r)
  <1>t. PICK t \in Runs : t = claim[w].run /\ generation[t] = claim[w].generation
    BY OwnedRun DEF IInv, StateInv, Requeue
  <1> DEFINE row == EventRow(t, 0, "retry", generation[t])
             kept == {e \in events[t] : e.type # "text" \/ e.generation # generation[t]}
  <1>1. /\ row \in EventRows /\ row.id = nextEvent[t] /\ row.type = "retry"
        /\ row.generation = generation[t] /\ nextEvent[t] \in Nat /\ generation[t] \in Nat
    BY EventRowTyped DEF IInv, TypeOK, EventTypeOK, RowTypeOK, EventRow, EventTypes
  <1>2. /\ events' = [events EXCEPT ![t] = kept \cup {row}]
        /\ nextEvent' = [nextEvent EXCEPT ![t] = @ + 1]
        /\ generation' = generation /\ status' = [status EXCEPT ![t] = "queued"]
    BY <1>t DEF Requeue
  <1>3. kept \subseteq events[t] /\ \A e \in events[t] \ kept : e.type = "text"
    OBVIOUS
  <1> HIDE DEF row, kept
  <1>4. CASE r = t
    <2>1. /\ events'[r] = kept \cup {row, row} /\ nextEvent'[r] = row.id + 1
          /\ status'[r] = "queued" /\ generation'[r] = generation[r]
      BY <1>1, <1>2, <1>4 DEF IInv, TypeOK, EventTypeOK, RowTypeOK
    <2>2. row.generation <= generation'[r] /\ row.id = nextEvent[r]
      BY <1>1, <1>4, <2>1
    <2>3. kept \subseteq events[r] /\ \A e \in events[r] \ kept : e.type = "text"
      BY <1>3, <1>4
    <2> QED BY <1>1, <2>1, <2>2, <2>3, OrderedAppend
  <1>5. CASE r # t
    <2>1. UNCHANGED <<events[r], nextEvent[r], generation[r], status[r]>>
      BY <1>2, <1>5 DEF IInv, TypeOK, EventTypeOK, RowTypeOK
    <2> QED BY <2>1, OrderedFrame
  <1> QED BY <1>4, <1>5

LEMMA OrderedNext ==
  ASSUME IInv, NEW r \in Runs, OrderedRun(r), [Next]_vars
  PROVE  KeepsOrder(r)
  <1>0. TypeOK /\ RowsInv /\ RowTypeOK
    BY DEF IInv, StateInv, TypeOK
  <1>1. ASSUME UNCHANGED <<events, nextEvent, generation, status>> PROVE KeepsOrder(r)
    BY <1>1, OrderedFrame DEF KeepsOrder
  <1>2. ASSUME NEW q \in Requests, Enqueue(q) PROVE KeepsOrder(r)
    <2> DEFINE t == created + 1
    <2>1. t \in Runs /\ AddEvent(t, "queued", 0) /\ generation' = generation
      BY <1>0, <1>2, SizesAssumption DEF Enqueue, TypeOK, ApiTypeOK, Runs
    <2>2. status' = [status EXCEPT ![t] = "queued"] /\ generation[t] \in Nat
      BY <1>0, <1>2, <2>1 DEF Enqueue, RowTypeOK
    <2> HIDE DEF t
    <2>3. status'[r] = "running" => status[r] = "running"
      BY <1>0, <2>1, <2>2 DEF RowTypeOK
    <2>4. "queued" \in EventTypes \ {"started"} /\ 0 \in Nat /\ 0 <= generation[t]
      BY <2>2 DEF EventTypes
    <2> QED BY <2>1, <2>3, <2>4, OrderedAddEvent DEF KeepsOrder
  <1>3. ASSUME NEW t \in Runs, NEW final \in Terminal, CloseRun(t, final),
               AddEvent(t, final, generation[t]), UNCHANGED generation
        PROVE  KeepsOrder(r)
    <2>1. /\ final \in EventTypes \ {"started"} /\ final # "text" /\ final # "running"
          /\ generation[t] \in Nat
      BY <1>0 DEF EventTypes, Terminal, RowTypeOK
    <2>2. status'[r] = "running" => status[r] = "running"
      BY <1>0, <1>3, <2>1 DEF CloseRun, RowTypeOK
    <2> QED BY <1>3, <2>1, <2>2, OrderedAddEvent DEF KeepsOrder
  <1>4. ASSUME NEW t \in Runs, CancelQueued(t) PROVE KeepsOrder(r)
    BY <1>3, <1>4 DEF CancelQueued, Terminal
  <1>5. ASSUME NEW w \in Workers, CancelClaimed(w) \/ FailForGood(w) PROVE KeepsOrder(r)
    BY <1>0, <1>3, <1>5, OwnedRun DEF CancelClaimed, FailForGood, Terminal
  <1>6. ASSUME NEW w \in Workers, Poll(w) PROVE KeepsOrder(r)
    BY <1>6, OrderedClaim DEF Poll, SweepOnly, Claim, KeepsOrder
  <1>7. ASSUME NEW w \in Workers, EmitText(w) PROVE KeepsOrder(r)
    <2>1. CASE Owns(w)
      <3>1. PICK t \in Runs : t = claim[w].run
        BY <1>0, <2>1, OwnedRun
      <3>2. status[t] = "running" /\ generation[t] = claim[w].generation /\ generation[t] \in Nat
        BY <1>0, <2>1, <3>1, OwnedRun DEF RowTypeOK
      <3>3. AddEvent(t, "text", generation[t]) /\ generation' = generation /\ status' = status
        BY <1>7, <2>1, <3>1, <3>2 DEF EmitText, rowVars
      <3>4. "text" \in EventTypes \ {"started"}
        BY DEF EventTypes
      <3> QED BY <3>2, <3>3, <3>4, OrderedAddEvent DEF KeepsOrder
    <2>2. CASE ~Owns(w)
      BY <1>1, <1>7, <2>2 DEF EmitText, eventVars, rowVars
    <2> QED BY <2>1, <2>2
  <1>8. ASSUME NEW w \in Workers, ReadCancel(w) \/ Renew(w) \/ Generated(w) \/ DiscardStale(w)
                                  \/ DropFailure(w) \/ Crash(w)
        PROVE  KeepsOrder(r)
    BY <1>1, <1>8 DEF ReadCancel, Renew, Generated, Answered, TransientError, PermanentError,
                      DiscardStale, DropFailure, Crash, eventVars, rowVars
  <1>9. ASSUME NEW w \in Workers, Settle(w) PROVE KeepsOrder(r)
    BY <1>5, <1>8, <1>9, OrderedComplete, OrderedRequeue DEF Settle, KeepsOrder
  <1>10. CASE \/ \E q \in Requests : Replay(q) \/ ServeFromCache(q)
              \/ \E t \in Runs : FlagRunning(t) \/ Lapse(t)
              \/ NewMonth
              \/ UNCHANGED vars
    BY <1>1, <1>10 DEF Replay, ServeFromCache, FlagRunning, Lapse, NewMonth, vars, eventVars,
                       rowVars
  <1> QED
    BY <1>2, <1>4, <1>6, <1>7, <1>8, <1>9, <1>10 DEF Next, Submit, RequestCancel, Worker

-----------------------------------------------------------------------------
(* The reader.                                                             *)

Fetched == received \cup batch

StreamTyped ==
  /\ at \in {"closed", "rows", "status", "send"}
  /\ cursor \in Nat /\ cursor < nextEvent[Watched]
  /\ batch \subseteq EventRows /\ received \subseteq EventRows
  /\ \A e \in batch : cursor < e.id
  /\ \A e \in received : e.id <= cursor
  /\ \A e \in Fetched : e.id < nextEvent[Watched] /\ e.generation <= generation[Watched]

\* A batch is what comes next: no row of the log is older than one of the batch and not in it.
InSequence ==
  /\ \A e, f \in batch : e.id = f.id => e = f
  /\ \A f \in batch, e \in events[Watched] : cursor < e.id /\ e.id <= f.id => e \in batch

\* The "started" of each fetched delta is in the log, before it and after every older delta.
Announced ==
  /\ \A u \in Fetched : u.type = "text" =>
       \E s \in events[Watched] : /\ s.type = "started" /\ s.generation = u.generation
                                  /\ s.id < u.id
  /\ \A t \in Fetched \cup events[Watched], s \in events[Watched] :
       t.type = "text" /\ s.type = "started" /\ t.generation < s.generation => t.id < s.id

StreamInv == OrderedRun(Watched) /\ StreamTyped /\ InSequence /\ NothingSkipped /\ Announced

LEMMA InitStream == StreamInit => StreamInv
  <1> SUFFICES ASSUME StreamInit PROVE StreamInv
    OBVIOUS
  <1>1. /\ Watched \in Runs /\ events[Watched] = {} /\ nextEvent[Watched] = 1
        /\ status[Watched] = "absent" /\ at = "closed" /\ cursor = 0 /\ batch = {} /\ received = {}
    BY StreamAssumption DEF StreamInit, Init
  <1>2. OrderedRun(Watched)
    BY <1>1, FS_EmptySet DEF OrderedRun, TextRows
  <1>3. StreamTyped /\ InSequence /\ NothingSkipped /\ Announced
    BY <1>1 DEF StreamTyped, Fetched, InSequence, NothingSkipped, Announced
  <1> QED BY <1>2, <1>3 DEF StreamInv

\* The queue goes on behind the reader's back.
LEMMA QueueStep ==
  ASSUME IInv, StreamInv, [Next]_vars, UNCHANGED readerVars
  PROVE  StreamInv'
  <1>0. /\ Watched \in Runs /\ IInv
        /\ OrderedRun(Watched)' /\ LogGoesOn(Watched) /\ OrderedRun(Watched)
        /\ UNCHANGED <<at, cursor, batch, received>> /\ Fetched' = Fetched
    <2>1. Watched \in Runs /\ IInv /\ OrderedRun(Watched)
      BY StreamAssumption DEF StreamInv
    <2>2. OrderedRun(Watched)' /\ LogGoesOn(Watched)
      BY <2>1, OrderedNext DEF KeepsOrder
    <2>3. UNCHANGED <<at, cursor, batch, received>> /\ Fetched' = Fetched
      BY DEF readerVars, Fetched
    <2> QED BY <2>1, <2>2, <2>3
  <1>1. IInv'
    BY TypeStep, StateStep DEF IInv, StateInv
  <1>2. /\ nextEvent[Watched] \in Nat /\ nextEvent'[Watched] \in Nat
        /\ generation[Watched] \in Nat /\ generation'[Watched] \in Nat
        /\ events[Watched] \subseteq EventRows /\ events'[Watched] \subseteq EventRows
        /\ \A e \in EventRows : e.id \in Nat /\ e.generation \in Nat
    BY <1>0, <1>1 DEF IInv, TypeOK, EventTypeOK, RowTypeOK, EventRows
  <1>3. /\ nextEvent[Watched] <= nextEvent'[Watched] /\ generation[Watched] <= generation'[Watched]
        /\ \A e \in events[Watched] : e.type # "text" => e \in events'[Watched]
        /\ \A e \in events'[Watched] \ events[Watched] :
             /\ nextEvent[Watched] <= e.id
             /\ e.type = "text" => e.generation = generation[Watched]
             /\ e.type = "started" => \A f \in events'[Watched] : f.type # "text"
    BY <1>0 DEF LogGoesOn
  <1>4. /\ cursor \in Nat /\ cursor < nextEvent[Watched]
        /\ batch \subseteq EventRows /\ received \subseteq EventRows
        /\ \A e \in Fetched : /\ e \in EventRows /\ e.id < nextEvent[Watched]
                              /\ e.generation <= generation[Watched]
    BY DEF StreamInv, StreamTyped, Fetched
  <1>5. StreamTyped'
    BY <1>0, <1>2, <1>3, <1>4 DEF StreamInv, StreamTyped
  <1>6. InSequence'
    <2>1. ASSUME NEW f \in batch, NEW e \in events'[Watched], cursor < e.id, e.id <= f.id
          PROVE  e \in batch
      <3>1. f.id < nextEvent[Watched] /\ f.id \in Nat /\ e.id \in Nat
        BY <1>2, <1>4 DEF Fetched
      <3>2. e \in events[Watched]
        BY <1>2, <1>3, <2>1, <3>1
      <3> QED BY <2>1, <3>2 DEF StreamInv, InSequence
    <2> QED BY <1>0, <2>1 DEF StreamInv, InSequence
  <1>7. NothingSkipped'
    <2>1. ASSUME NEW e \in events'[Watched], e.id <= cursor PROVE e \in received
      <3>1. e \in events[Watched]
        BY <1>2, <1>3, <1>4, <2>1
      <3> QED BY <2>1, <3>1 DEF StreamInv, NothingSkipped
    <2> QED BY <1>0, <2>1 DEF NothingSkipped
  <1>8. \A u \in Fetched : u.type = "text" =>
          \E s \in events'[Watched] : /\ s.type = "started" /\ s.generation = u.generation
                                      /\ s.id < u.id
    BY <1>3 DEF StreamInv, Announced
  <1>9. ASSUME NEW t \in Fetched \cup events'[Watched], NEW s \in events'[Watched],
               t.type = "text", s.type = "started", t.generation < s.generation
        PROVE  t.id < s.id
    <2>1. CASE s \in events[Watched] /\ t \in Fetched \cup events[Watched]
      BY <1>9, <2>1 DEF StreamInv, Announced
    <2>2. CASE s \notin events[Watched]
      <3>1. nextEvent[Watched] <= s.id /\ t \in Fetched
        BY <1>3, <1>9, <2>2
      <3> QED BY <1>2, <1>4, <3>1
    <2>3. CASE s \in events[Watched] /\ t \notin Fetched \cup events[Watched]
      <3>1. t.generation = generation[Watched]
        BY <1>3, <1>9, <2>3
      <3>2. s.generation <= generation[Watched]
        BY <1>0, <2>3 DEF OrderedRun
      <3> QED BY <1>2, <1>9, <2>3, <3>1, <3>2
    <2> QED BY <2>1, <2>2, <2>3
  <1>10. Announced'
    BY <1>0, <1>8, <1>9 DEF Announced
  <1> QED BY <1>0, <1>5, <1>6, <1>7, <1>10 DEF StreamInv

\* The rows of a batch are the first unread ones.
LEMMA BatchIsFirst ==
  ASSUME IInv, StreamInv
  PROVE  /\ Batch \subseteq Unread
         /\ \A f \in Batch, e \in Unread : e.id <= f.id => e \in Batch
  <1>1. /\ IsFiniteSet(Unread)
        /\ \A e \in Unread : e.id \in Nat
    <2>1. events[Watched] \subseteq EventRows /\ IsFiniteSet(events[Watched])
      BY StreamAssumption DEF IInv, TypeOK, EventTypeOK, StreamInv, OrderedRun
    <2> QED BY <2>1, FS_Subset DEF Unread, EventRows
  <1>2. ASSUME NEW f \in Batch, NEW e \in Unread, e.id <= f.id PROVE e \in Batch
    <2> DEFINE before(g) == {h \in Unread : h.id < g.id}
    <2>1. f \in Unread /\ Cardinality(before(f)) < BatchSize
      BY DEF Batch
    <2>2. before(e) \subseteq before(f) /\ IsFiniteSet(before(f))
      BY <1>1, <1>2, <2>1, FS_Subset
    <2>3. /\ Cardinality(before(e)) \in Nat /\ Cardinality(before(f)) \in Nat
          /\ Cardinality(before(e)) <= Cardinality(before(f)) /\ BatchSize \in Nat
      BY <2>2, FS_Subset, FS_CardinalityType, StreamAssumption
    <2>4. Cardinality(before(e)) < BatchSize
      BY <2>1, <2>3
    <2> QED BY <2>4 DEF Batch
  <1>3. Batch \subseteq Unread
    BY DEF Batch
  <1> QED BY <1>2, <1>3

LEMMA ReaderStep ==
  ASSUME IInv, StreamInv, Connect \/ Read \/ Drop, UNCHANGED vars
  PROVE  StreamInv'
  <1>0. /\ UNCHANGED <<events, nextEvent, generation, status>>
        /\ events[Watched] \subseteq EventRows /\ OrderedRun(Watched)'
        /\ \A e \in EventRows : e.id \in Nat
    BY StreamAssumption
    DEF vars, eventVars, rowVars, IInv, TypeOK, EventTypeOK, EventRows, StreamInv, OrderedRun,
        TextRows
  <1>1. CASE Connect \/ ReadStatus
    <2>1. UNCHANGED <<cursor, batch, received>> /\ at' \in {"closed", "rows", "status", "send"}
      BY <1>1 DEF Connect, ReadStatus
    <2> QED
      BY <1>0, <2>1
      DEF StreamInv, StreamTyped, Fetched, InSequence, NothingSkipped, Announced
  <1>2. CASE Drop
    <2>1. UNCHANGED <<cursor, received>> /\ batch' = {} /\ at' = "closed"
      BY <1>2 DEF Drop
    <2> QED
      BY <1>0, <2>1
      DEF StreamInv, StreamTyped, Fetched, InSequence, NothingSkipped, Announced
  <1>3. CASE ReadRows
    <2>1. UNCHANGED <<cursor, received>> /\ batch' = Batch /\ at' = "status"
      BY <1>3 DEF ReadRows
    <2>2. Batch \subseteq events[Watched] /\ \A e \in Batch : cursor < e.id
      BY BatchIsFirst DEF Unread
    <2>3. StreamTyped'
      BY <1>0, <2>1, <2>2 DEF StreamInv, StreamTyped, Fetched, OrderedRun
    <2>4. InSequence'
      BY <1>0, <2>1, <2>2, BatchIsFirst DEF StreamInv, InSequence, OrderedRun, Unread
    <2>5. NothingSkipped'
      BY <1>0, <2>1 DEF StreamInv, NothingSkipped
    <2>6. Announced'
      BY <1>0, <2>1, <2>2 DEF StreamInv, Announced, Fetched, OrderedRun, TextRows
    <2> QED BY <1>0, <2>3, <2>4, <2>5, <2>6 DEF StreamInv
  <1>4. CASE Send
    <2>1. PICK e \in batch : /\ \A f \in batch : e.id <= f.id
                             /\ cursor' = e.id
                             /\ received' = received \cup {e}
                             /\ batch' = batch \ {e}
      BY <1>4 DEF Send
    <2>2. /\ at' \in {"closed", "rows", "status", "send"} /\ Fetched' = Fetched
          /\ e \in EventRows /\ cursor < e.id /\ cursor \in Nat
      BY <1>4, <2>1 DEF Send, Fetched, StreamInv, StreamTyped
    <2>3. StreamTyped'
      <3>1. \A f \in batch' : cursor' < f.id
        BY <1>0, <2>1, <2>2 DEF StreamInv, StreamTyped, InSequence
      <3>2. \A f \in received' : f.id <= cursor'
        BY <1>0, <2>1, <2>2 DEF StreamInv, StreamTyped
      <3>3. cursor' \in Nat /\ cursor' < nextEvent'[Watched]
        BY <1>0, <2>1, <2>2 DEF StreamInv, StreamTyped, Fetched
      <3> QED BY <1>0, <2>1, <2>2, <3>1, <3>2, <3>3 DEF StreamInv, StreamTyped
    <2>4. InSequence'
      <3>1. ASSUME NEW f \in batch', NEW g \in events[Watched], e.id < g.id, g.id <= f.id
            PROVE  g \in batch \ {e}
        BY <1>0, <2>1, <2>2, <3>1 DEF StreamInv, InSequence
      <3> QED BY <1>0, <2>1, <3>1 DEF StreamInv, InSequence
    <2>5. NothingSkipped'
      <3>1. ASSUME NEW g \in events[Watched], g.id <= e.id, g.id > cursor PROVE g = e
        BY <1>0, <2>1, <2>2, <3>1 DEF StreamInv, InSequence
      <3> QED BY <1>0, <2>1, <2>2, <3>1 DEF StreamInv, NothingSkipped
    <2>6. Announced'
      BY <1>0, <2>2 DEF StreamInv, Announced
    <2> QED BY <1>0, <2>3, <2>4, <2>5, <2>6 DEF StreamInv
  <1> QED BY <1>1, <1>2, <1>3, <1>4 DEF Read

\* The queue that a client follows is the queue of AIRuns.
LEMMA StreamRefines == StreamSpec => Spec
  <1>1. StreamInit => Init
    BY DEF StreamInit
  <1>2. [StreamNext]_<<vars, readerVars>> => [Next]_vars
    BY DEF StreamNext
  <1>3. QED
    BY <1>1, <1>2, PTL DEF StreamSpec, Spec

THEOREM StreamInvariance == StreamSpec => []StreamInv
  <1>1. IInv /\ StreamInv /\ [StreamNext]_<<vars, readerVars>> => StreamInv'
    BY QueueStep, ReaderStep DEF StreamNext
  <1>2. QED
    BY StreamRefines, Invariance, InitStream, <1>1, PTL DEF StreamSpec

\* However the log changes and the connection breaks, the log holds no event at or before
\* the cursor that the client has not received.
THEOREM NothingSkippedHolds == StreamSpec => []NothingSkipped
  <1>1. StreamInv => NothingSkipped
    BY DEF StreamInv
  <1>2. QED
    BY StreamInvariance, <1>1, PTL

\* Between deltas of two attempts the client has received the start of the later one.
THEOREM RestartIsAnnouncedHolds == StreamSpec => []RestartIsAnnounced
  <1>1. IInv /\ StreamInv => RestartIsAnnounced
    <2> SUFFICES ASSUME IInv, StreamInv, NEW t \in received, NEW u \in received,
                        t.type = "text", u.type = "text", t.generation < u.generation
                 PROVE  \E s \in received : /\ s.type = "started" /\ s.generation = u.generation
                                            /\ t.id < s.id /\ s.id < u.id
      BY DEF RestartIsAnnounced
    <2>1. t \in Fetched /\ u \in Fetched
      BY DEF Fetched
    <2>2. PICK s \in events[Watched] :
            s.type = "started" /\ s.generation = u.generation /\ s.id < u.id
      BY <2>1 DEF StreamInv, Announced
    <2>3. t.id < s.id
      BY <2>1, <2>2 DEF StreamInv, Announced
    <2>4. s.id <= cursor
      <3>1. s.id \in Nat /\ u.id \in Nat /\ u.id <= cursor /\ cursor \in Nat
        BY StreamAssumption
        DEF StreamInv, StreamTyped, IInv, TypeOK, EventTypeOK, EventRows
      <3> QED BY <2>2, <3>1
    <2>5. s \in received
      BY <2>4 DEF StreamInv, NothingSkipped
    <2> QED BY <2>2, <2>3, <2>5
  <1>2. QED
    BY StreamRefines, Invariance, StreamInvariance, <1>1, PTL
=============================================================================
