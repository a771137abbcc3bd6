----------------------------- MODULE EventStream -----------------------------
(***************************************************************************)
(* A client follows one run over GET /runs/{id}/events (stream_events of   *)
(* src/app/ai/api.py) while the queue and the workers of AIRuns go on.     *)
(*                                                                         *)
(* The generator polls: it reads the new events, then the status, in two   *)
(* autocommit statements, sends the events one by one, and stops when the  *)
(* status is terminal and there was nothing to send. A client that loses   *)
(* the connection comes back with the id of the last event it received.    *)
(***************************************************************************)
EXTENDS AIRuns

CONSTANTS
  Watched,     \* the run the client follows
  BatchSize,   \* LIMIT of the event query (100)
  MaxDrops     \* bound: connections the client loses

ASSUME StreamAssumption ==
  /\ Watched \in Runs
  /\ BatchSize \in Nat \ {0}
  /\ MaxDrops \in Nat

VARIABLES
  at,         \* where the generator is: "closed" before and after the connection
  cursor,     \* id of the last event sent (Last-Event-ID)
  batch,      \* rows fetched and not sent yet
  ended,      \* the status read with the batch was terminal and the batch empty
  received,   \* events the client has received
  drops       \* connections lost so far

readerVars == <<at, cursor, batch, ended, received, drops>>

StreamInit ==
  /\ Init
  /\ at = "closed"
  /\ cursor = 0
  /\ batch = {}
  /\ ended = FALSE
  /\ received = {}
  /\ drops = 0

-----------------------------------------------------------------------------
Unread == {e \in events[Watched] : e.id > cursor}

LatestBatch == {e \in Unread : Cardinality({f \in Unread : f.id > e.id}) < BatchSize}

\* The first BatchSize unread rows, in the order of their ids.
Batch == {e \in Unread : Cardinality({f \in Unread : f.id < e.id}) < BatchSize}

Connect ==
  /\ at = "closed"
  /\ ~ended
  /\ status[Watched] # "absent"
  /\ at' = "rows"
  /\ UNCHANGED <<cursor, batch, ended, received, drops>>

ReadRows ==
  /\ at = "rows"
  /\ batch' = Batch
  /\ at' = "status"
  /\ UNCHANGED <<cursor, ended, received, drops>>

EndsWhenCompleted == status[Watched] = "completed" /\ batch = {}

Ends == status[Watched] \in Terminal /\ batch = {}

ReadStatus ==
  /\ at = "status"
  /\ ended' = Ends
  /\ at' = IF Ends THEN "closed" ELSE IF batch = {} THEN "rows" ELSE "send"
  /\ UNCHANGED <<cursor, batch, received, drops>>

Send ==
  /\ at = "send"
  /\ \E e \in batch :
       /\ \A f \in batch : e.id <= f.id
       /\ cursor' = e.id
       /\ received' = received \cup {e}
       /\ batch' = batch \ {e}
  /\ at' = IF batch' = {} THEN "rows" ELSE "send"
  /\ UNCHANGED <<ended, drops>>

\* The connection breaks; whatever was fetched and not sent is lost with it.
Drop ==
  /\ at # "closed"
  /\ drops < MaxDrops
  /\ drops' = drops + 1
  /\ at' = "closed"
  /\ batch' = {}
  /\ UNCHANGED <<cursor, ended, received>>

Read == ReadRows \/ ReadStatus \/ Send

StreamNext ==
  \/ Next /\ UNCHANGED readerVars
  \/ (Connect \/ Read \/ Drop) /\ UNCHANGED vars

StreamSpec == StreamInit /\ [][StreamNext]_<<vars, readerVars>>

\* The event loop runs the generator, and a client that still waits reconnects.
StreamFairness ==
  /\ WF_<<vars, readerVars>>(Connect /\ UNCHANGED vars)
  /\ WF_<<vars, readerVars>>(Read /\ UNCHANGED vars)

FairStreamSpec == StreamSpec /\ Fairness /\ StreamFairness

-----------------------------------------------------------------------------
(* Properties.                                                             *)

\* Deltas are deleted and other events written behind the client's back, and the
\* connection breaks anywhere: the log never holds an event at or before the cursor
\* that the client has not received, so reconnecting with it loses nothing.
NothingSkipped ==
  \A e \in events[Watched] : e.id <= cursor => e \in received

\* A client that has shown deltas of an attempt is told of the next attempt before
\* it receives any delta of it: no answer is silently glued to the start of another.
RestartIsAnnounced ==
  \A t, u \in received :
    t.type = "text" /\ u.type = "text" /\ t.generation < u.generation =>
      \E s \in received : /\ s.type = "started" /\ s.generation = u.generation
                          /\ t.id < s.id /\ s.id < u.id

\* However the run ends and however often the connection breaks, the stream of a
\* settled run ends.
StreamEnds == (status[Watched] \in Terminal) ~> ended

\* docs/community-ai-architecture.md calls the stream "durable", and a stream that
\* ends by itself has carried the event the run ended with.
EndIsDelivered ==
  ended => \E e \in received : e.type \in Terminal
=============================================================================
