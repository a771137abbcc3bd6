------------------------ MODULE LegacyBridge_proofs ------------------------
(***************************************************************************)
(* What holds of the bridge for every number of requests, sessions, event  *)
(* ids and hint levels, with the bot, crashes and timeouts.                *)
(***************************************************************************)
EXTENDS LegacyBridge, FiniteSetTheorems, TLAPS

LogIds == 1..MaxLog
Statuses == {"none", "pending", "action_done", "completed"}
Points == {"idle", "action", "mark", "drop", "sync", "import", "record", "answered"}
ClaimRows == [status : Statuses, op : Ops \cup {None}, aged : BOOLEAN]
LogRows == [id : LogIds, claim : ClaimIds \cup {None}, op : Ops \cup {None}]
Snapshots == [log : SUBSET LogIds, open : BOOLEAN, hint : 0..MaxHint]

ClaimsTyped == claims \in [ClaimIds -> ClaimRows]

LocalTyped ==
  /\ pc \in [Callers -> Points]
  /\ op \in [Callers -> Ops \cup {None}]
  /\ phase \in [Callers -> {"none", "action", "sync", "done"}]
  /\ before \in [Callers -> SUBSET LogIds]
  /\ read \in [Callers -> Snapshots]
  /\ \A c \in Callers : pc[c] # "idle" => op[c] \in Ops

SessionsTyped ==
  /\ sStatus \in [Sessions -> {"absent", "active", "completed", "abandoned"}]
  /\ sHint \in [Sessions -> 0..MaxHint]
  /\ sHints \in [Sessions -> SUBSET Levels]
  /\ aHint \in 0..MaxHint
  /\ imported \subseteq LogIds
  /\ link \in [LogIds -> Sessions \cup {None}]

TrackerTyped ==
  /\ IsFiniteSet(log) /\ log \subseteq LogRows
  /\ tOpen \in BOOLEAN
  /\ tHint \in 0..MaxHint
  /\ told \subseteq Levels

Typed == ClaimsTyped /\ LocalTyped /\ SessionsTyped /\ TrackerTyped

-----------------------------------------------------------------------------
(* Operations.                                                             *)

LEMMA OpFacts ==
  ASSUME NEW o \in Ops
  PROVE  /\ ClaimId(o) \in ClaimIds
         /\ IsAttempt(o) <=> o.kind \in {"sessionAttempt", "assignmentAttempt"}
         /\ o.kind \in {"sessionAttempt", "assignmentAttempt", "sessionHint", "assignmentHint"}
         /\ o.kind = "sessionAttempt" => o \in SessionAttempts
         /\ o.kind \in {"sessionAttempt", "sessionHint"} <=> o.session \in Sessions
         /\ o.session \in Sessions \/ o.session = None
         /\ ~IsAttempt(o) => o.level \in Levels
  <1>1. CASE o \in SessionAttempts
    BY <1>1, BridgeAssumption DEF SessionAttempts, ClaimId, ClaimIds, IsAttempt
  <1>2. CASE o \in AssignmentAttempts
    BY <1>2, BridgeAssumption DEF AssignmentAttempts, ClaimId, ClaimIds, IsAttempt
  <1>3. CASE o \in SessionHints
    BY <1>3, BridgeAssumption DEF SessionHints, ClaimId, ClaimIds, IsAttempt
  <1>4. CASE o \in AssignmentHints
    BY <1>4, BridgeAssumption DEF AssignmentHints, ClaimId, ClaimIds, IsAttempt
  <1> QED BY <1>1, <1>2, <1>3, <1>4 DEF Ops, AttemptOps, HintOps

LEMMA LeaveTyped ==
  ASSUME LocalTyped, NEW c \in Callers, Leave(c)
  PROVE  LocalTyped'
  <1>1. NothingRead \in Snapshots
    BY BridgeAssumption DEF NothingRead, Snapshots
  <1> QED BY <1>1 DEF LocalTyped, Leave, Points

LEMMA GotoTyped ==
  ASSUME LocalTyped, NEW c \in Callers, pc[c] # "idle", NEW p \in Points, Goto(c, p)
  PROVE  LocalTyped'
  BY DEF LocalTyped, Goto

LEMMA WithStatusTyped ==
  ASSUME ClaimsTyped, NEW i \in ClaimIds, NEW s \in Statuses
  PROVE  WithStatus(i, s) \in [ClaimIds -> ClaimRows]
  BY DEF ClaimsTyped, WithStatus, ClaimRows

LEMMA LogTyped ==
  ASSUME TrackerTyped, NEW i \in ClaimIds \cup {None}, NEW o \in Ops \cup {None},
         AppendAttempt(i, o)
  PROVE  TrackerTyped'
  <1> DEFINE e == [id |-> Cardinality(log) + 1, claim |-> i, op |-> o]
  <1>1. Cardinality(log) \in Nat
    BY FS_CardinalityType DEF TrackerTyped
  <1>2. e \in LogRows
    BY <1>1, BridgeAssumption DEF AppendAttempt, LogRows, LogIds
  <1>3. IsFiniteSet(log \cup {e})
    BY FS_AddElement DEF TrackerTyped
  <1> HIDE DEF e
  <1>4. log' = log \cup {e} /\ tOpen' \in BOOLEAN /\ tHint' = 0 /\ told' = told
    BY DEF AppendAttempt, e
  <1> QED BY <1>2, <1>3, <1>4, BridgeAssumption DEF TrackerTyped

LEMMA TellTyped ==
  ASSUME TrackerTyped, NEW l \in Levels, TellHint(l)
  PROVE  TrackerTyped'
  BY BridgeAssumption DEF TrackerTyped, TellHint, Levels

LEMMA EffectTyped ==
  ASSUME TrackerTyped, NEW o \in Ops, Effect(o)
  PROVE  TrackerTyped'
  BY OpFacts, LogTyped, TellTyped DEF Effect

LEMMA InitTyped == Init => Typed
  <1> SUFFICES ASSUME Init PROVE Typed
    OBVIOUS
  <1> USE BridgeAssumption DEF Init
  <1>1. ClaimsTyped
    BY DEF ClaimsTyped, NoClaim, ClaimRows, Statuses
  <1>2. LocalTyped
    BY DEF LocalTyped, NothingRead, Snapshots, Points
  <1>3. SessionsTyped
    BY DEF SessionsTyped, LogIds, Levels
  <1>4. TrackerTyped
    BY FS_EmptySet DEF TrackerTyped
  <1> QED BY <1>1, <1>2, <1>3, <1>4 DEF Typed

LEMMA BeginTyped ==
  ASSUME Typed, NEW c \in Callers, NEW o \in Ops, Begin(c, o)
  PROVE  Typed'
  <1>1. ClaimId(o) \in ClaimIds
    BY OpFacts
  <1>2. ClaimsTyped'
    BY <1>1 DEF Begin, Typed, ClaimsTyped, ClaimRows, Statuses
  <1>3. /\ FirstStep(o) \in Points \ {"idle"}
        /\ ClaimPhase(o) \in {"none", "action", "sync", "done"}
    BY <1>1 DEF Begin, Typed, ClaimsTyped, ClaimRows, Statuses, ClaimPhase, FirstStep, Points
  <1>4. imported \subseteq LogIds
    BY DEF Typed, SessionsTyped
  <1>5. LocalTyped'
    <2>1. /\ pc' = [pc EXCEPT ![c] = FirstStep(o)] /\ op' = [op EXCEPT ![c] = o]
          /\ phase' = [phase EXCEPT ![c] = ClaimPhase(o)] /\ read' = read
          /\ before' = [before EXCEPT ![c] = IF o.kind = "sessionAttempt" THEN imported ELSE {}]
      BY DEF Begin
    <2> QED BY <1>3, <1>4, <2>1 DEF Typed, LocalTyped
  <1>6. UNCHANGED <<sessionVars, importVars, link, trackerVars>>
    BY DEF Begin
  <1> QED
    BY <1>2, <1>5, <1>6
    DEF Typed, SessionsTyped, TrackerTyped, sessionVars, importVars, trackerVars

LEMMA SyncTyped ==
  ASSUME Typed, NEW c \in Callers, SyncRead(c) \/ SyncCommit(c)
  PROVE  Typed'
  <1> USE BridgeAssumption
  <1>1. CASE SyncRead(c)
    <2>1. [log |-> {e.id : e \in log}, open |-> tOpen, hint |-> tHint] \in Snapshots
      BY DEF Typed, TrackerTyped, Snapshots, LogRows
    <2>2. LocalTyped'
      BY <1>1, <2>1 DEF SyncRead, Typed, LocalTyped, Points
    <2> QED
      BY <1>1, <2>2
      DEF SyncRead, Typed, ClaimsTyped, SessionsTyped, TrackerTyped, claimVars, sessionVars,
          importVars, trackerVars
  <1>2. CASE SyncCommit(c)
    <2>1. LocalTyped'
      BY <1>2, GotoTyped DEF SyncCommit, Typed, Points
    <2>2. read[c] \in Snapshots
      BY DEF Typed, LocalTyped
    <2>3. imported' \subseteq LogIds /\ aHint' \in 0..MaxHint
      BY <1>2, <2>2 DEF SyncCommit, Typed, SessionsTyped, Snapshots, ImportRows
    <2> QED
      BY <1>2, <2>1, <2>3
      DEF SyncCommit, Typed, ClaimsTyped, SessionsTyped, TrackerTyped, claimVars, sessionVars,
          trackerVars
  <1> QED BY <1>1, <1>2

LEMMA RecordTyped ==
  ASSUME Typed, NEW c \in Callers, Record(c)
  PROVE  Typed'
  <1>1. pc[c] = "record" /\ op[c] \in Ops /\ LocalTyped /\ ClaimsTyped
    BY DEF Record, Typed, LocalTyped
  <1>2. ClaimsTyped'
    <2>1. Completed(c) \in [ClaimIds -> ClaimRows]
      BY <1>1, OpFacts, WithStatusTyped DEF Completed, ClaimsTyped, Statuses
    <2> QED BY <2>1 DEF Record, ClaimsTyped
  <1>3. LocalTyped'
    BY <1>1, LeaveTyped, GotoTyped
    DEF Record, RecordSessionAttempt, RecordSessionHint, RecordAssignmentOp, Points
  <1>4. SessionsTyped'
    <2>1. UNCHANGED <<aHint, imported>> /\ SessionsTyped
      BY DEF Record, importVars, Typed
    <2>2. CASE RecordSessionAttempt(c)
      <3>1. op[c].session \in Sessions
        BY <1>1, <2>2, OpFacts DEF RecordSessionAttempt
      <3>2. link' \in [LogIds -> Sessions \cup {None}]
        BY <2>1, <2>2, <3>1 DEF RecordSessionAttempt, Linked, SessionsTyped, LogIds
      <3> QED BY <2>1, <2>2, <3>1, <3>2 DEF RecordSessionAttempt, SessionsTyped
    <2>3. CASE RecordSessionHint(c)
      <3>1. op[c].session \in Sessions /\ op[c].level \in Levels
        BY <1>1, <2>3, OpFacts DEF RecordSessionHint
      <3> QED
        BY <2>1, <2>3, <3>1, BridgeAssumption DEF RecordSessionHint, SessionsTyped, Levels
    <2>4. CASE RecordAssignmentOp(c)
      BY <2>1, <2>4 DEF RecordAssignmentOp, SessionsTyped, sessionVars
    <2> QED BY <2>2, <2>3, <2>4 DEF Record
  <1>5. TrackerTyped'
    BY DEF Record, trackerVars, Typed, TrackerTyped
  <1> QED BY <1>2, <1>3, <1>4, <1>5 DEF Typed

LEMMA TypedStep == Typed /\ [Next]_vars => Typed'
  <1> SUFFICES ASSUME Typed, [Next]_vars PROVE Typed'
    OBVIOUS
  <1> USE DEF Typed
  <1>1. ASSUME UNCHANGED <<sessionVars, importVars, link>> PROVE SessionsTyped'
    BY <1>1 DEF SessionsTyped, sessionVars, importVars
  <1>2. ASSUME UNCHANGED trackerVars PROVE TrackerTyped'
    BY <1>2 DEF TrackerTyped, trackerVars
  <1>3. ASSUME UNCHANGED claims PROVE ClaimsTyped'
    BY <1>3 DEF ClaimsTyped
  <1>4. ASSUME UNCHANGED localVars PROVE LocalTyped'
    BY <1>4 DEF LocalTyped, localVars
  <1>5. ASSUME NEW c \in Callers, Work(c) PROVE Typed'
    <2>0. pc[c] # "idle" => op[c] \in Ops /\ ClaimId(op[c]) \in ClaimIds
      BY OpFacts DEF LocalTyped
    <2>1. CASE ActionSucceeds(c) \/ ActionTimesOut(c)
      BY <1>1, <1>3, <2>0, <2>1, EffectTyped, GotoTyped
      DEF ActionSucceeds, ActionTimesOut, claimVars, Points
    <2>2. CASE ActionFails(c)
      BY <1>1, <1>2, <1>3, <2>2, GotoTyped DEF ActionFails, claimVars, Points
    <2>3. CASE DropClaim(c)
      <3>1. NoClaim \in ClaimRows
        BY DEF NoClaim, ClaimRows, Statuses
      <3>2. ClaimsTyped'
        BY <2>0, <2>3, <3>1 DEF DropClaim, ClaimsTyped
      <3> QED BY <1>1, <1>2, <2>3, <3>2, LeaveTyped DEF DropClaim
    <2>4. CASE MarkActed(c)
      <3>1. ClaimsTyped'
        BY <2>0, <2>4, WithStatusTyped DEF MarkActed, Marked, ClaimsTyped, Statuses
      <3> QED BY <1>1, <1>2, <2>4, <3>1, GotoTyped DEF MarkActed, Points
    <2>5. CASE SyncFails(c) \/ Crash(c) \/ Answer(c)
      BY <1>1, <1>2, <1>3, <2>5, LeaveTyped DEF SyncFails, Crash, Answer, claimVars
    <2> QED
      BY <1>5, <2>1, <2>2, <2>3, <2>4, <2>5, SyncTyped, RecordTyped DEF Work
  <1>6. ASSUME NEW c \in Callers, NEW o \in Ops, Begin(c, o) PROVE Typed'
    BY <1>6, BeginTyped
  <1>7. ASSUME NEW s \in Sessions, StartSession(s) \/ ContinueSession(s) \/ Abandon(s)
        PROVE  Typed'
    <2>1. SessionsTyped'
      BY <1>7
      DEF StartSession, ContinueSession, Abandon, SessionsTyped, importVars
    <2> QED
      BY <1>2, <1>3, <1>4, <1>7, <2>1 DEF StartSession, ContinueSession, Abandon, claimVars
  <1>8. ASSUME NEW s \in Sessions, NEW l \in Levels, RepeatHint(s, l) PROVE Typed'
    <2>1. SessionsTyped'
      BY <1>8 DEF RepeatHint, SessionsTyped, importVars
    <2> QED BY <1>2, <1>3, <1>4, <1>8, <2>1 DEF RepeatHint, claimVars
  <1>9. ASSUME NEW i \in ClaimIds, Age(i) PROVE Typed'
    <2>1. ClaimsTyped'
      BY <1>9 DEF Age, ClaimsTyped, ClaimRows
    <2> QED BY <1>1, <1>2, <1>4, <1>9, <2>1 DEF Age
  <1>10. CASE BotActs
    <2>1. TrackerTyped'
      BY <1>10, LogTyped, TellTyped DEF BotActs
    <2> QED BY <1>1, <1>3, <1>4, <1>10, <2>1 DEF BotActs, claimVars
  <1>11. CASE Reassign
    <2>1. TrackerTyped'
      BY <1>11 DEF Reassign, TrackerTyped
    <2> QED BY <1>1, <1>3, <1>4, <1>11, <2>1 DEF Reassign, claimVars
  <1>12. CASE UNCHANGED vars
    BY <1>1, <1>2, <1>3, <1>4, <1>12 DEF vars, claimVars
  <1> QED
    BY <1>5, <1>6, <1>7, <1>8, <1>9, <1>10, <1>11, <1>12 DEF Next

-----------------------------------------------------------------------------
(* Who holds a claim. A request between its first transaction and the mark  *)
(* is the only one of its claim, which is pending and not old; after the    *)
(* mark the claim is never pending again.                                   *)

Id(c) == ClaimId(op[c])

Holds(c) == pc[c] \in {"action", "mark", "drop"}
Past(c) == pc[c] \in {"sync", "import", "record"}

Acted(i) == claims[i].status \in {"action_done", "completed"}

Own(c) ==
  /\ Holds(c) => /\ claims[Id(c)].status = "pending" /\ ~claims[Id(c)].aged
                 /\ claims[Id(c)].op = op[c]
  /\ Past(c) => Acted(Id(c)) /\ claims[Id(c)].op = op[c]

Alone == \A c, d \in Callers : Holds(c) /\ Holds(d) /\ Id(c) = Id(d) => c = d

OldIsPending == \A i \in ClaimIds : claims[i].aged => claims[i].status = "pending"

Owning == Alone /\ OldIsPending /\ \A c \in Callers : Own(c)

\* What the other requests see of a step of c on claim i.
LEMMA OthersOwn ==
  ASSUME Owning, NEW c \in Callers, NEW i,
         \A d \in Callers \ {c} : pc'[d] = pc[d] /\ op'[d] = op[d],
         \A j \in ClaimIds \ {i} : claims'[j] = claims[j],
         \A d \in Callers : pc[d] # "idle" => Id(d) \in ClaimIds,
         \/ claims'[i] = claims[i]
         \/ claims[i].status = "none" \/ claims[i].aged
         \/ Holds(c) /\ Id(c) = i
         \/ Acted(i) /\ Acted(i)' /\ claims'[i].op = claims[i].op,
         i \in ClaimIds,
         NEW d \in Callers \ {c}
  PROVE  Own(d)'
  <1>1. Own(d) /\ op'[d] = op[d] /\ Id(d)' = Id(d) /\ (Holds(d)' <=> Holds(d)) /\ (Past(d)' <=> Past(d))
    BY DEF Owning, Own, Id, Holds, Past
  <1>2. Holds(d) \/ Past(d) => pc[d] # "idle"
    BY DEF Holds, Past
  <1>3. CASE Id(d) = i
    <2>1. Own(c) /\ (Holds(c) /\ Holds(d) => Id(c) # Id(d))
      BY DEF Owning, Alone
    <2>2. CASE claims'[i] = claims[i]
      BY <1>1, <1>3, <2>2 DEF Own, Acted
    <2>3. CASE claims[i].status = "none" \/ claims[i].aged
      <3>1. ~Holds(d) /\ ~Past(d)
        BY <1>1, <1>3, <2>3 DEF Own, Acted, Owning, OldIsPending
      <3> QED BY <1>1, <3>1 DEF Own
    <2>4. CASE Holds(c) /\ Id(c) = i
      <3>1. ~Holds(d) /\ ~Past(d)
        BY <1>1, <1>3, <2>1, <2>4 DEF Own, Acted
      <3> QED BY <1>1, <3>1 DEF Own
    <2>5. CASE Acted(i) /\ Acted(i)' /\ claims'[i].op = claims[i].op
      <3>1. ~Holds(d)
        BY <1>1, <1>3, <2>5 DEF Own, Acted
      <3> QED BY <1>1, <1>3, <2>5, <3>1 DEF Own, Acted
    <2> QED BY <2>2, <2>3, <2>4, <2>5
  <1>4. CASE Id(d) # i
    BY <1>1, <1>2, <1>4 DEF Own, Acted
  <1> QED BY <1>3, <1>4

LEMMA OwningMove ==
  ASSUME Owning, NEW c \in Callers, OldIsPending',
         \A d \in Callers \ {c} : pc'[d] = pc[d] /\ op'[d] = op[d] /\ Own(d)',
         Own(c)',
         Holds(c)' => \/ Holds(c) /\ op'[c] = op[c]
                      \/ \A d \in Callers \ {c} : Holds(d) => Id(d) # Id(c)'
  PROVE  Owning'
  <1>1. \A d \in Callers \ {c} : Id(d)' = Id(d) /\ (Holds(d)' <=> Holds(d))
    BY DEF Id, Holds
  <1>2. Holds(c) /\ op'[c] = op[c] => Id(c)' = Id(c)
    BY DEF Id
  <1>3. Alone'
    BY <1>1, <1>2 DEF Owning, Alone
  <1> QED BY <1>3 DEF Owning

\* A step that leaves the claims alone and takes c on, within its operation.
LEMMA OwningGoto ==
  ASSUME Typed, Owning, NEW c \in Callers, UNCHANGED claims,
         NEW p, pc' = [pc EXCEPT ![c] = p], UNCHANGED op,
         \/ Holds(c) /\ p \in {"mark", "drop"}
         \/ Past(c) /\ p \in {"import", "record"}
  PROVE  Owning'
  <1>1. /\ \A d \in Callers \ {c} : pc'[d] = pc[d] /\ op'[d] = op[d]
        /\ pc'[c] = p /\ op'[c] = op[c] /\ OldIsPending'
    BY DEF Typed, LocalTyped, Owning, OldIsPending
  <1>2. \A d \in Callers : Own(d)' <=> (/\ Holds(d)' => /\ claims[Id(d)].status = "pending"
                                                        /\ ~claims[Id(d)].aged
                                                        /\ claims[Id(d)].op = op[d]
                                        /\ Past(d)' => Acted(Id(d)) /\ claims[Id(d)].op = op[d])
    BY DEF Own, Id, Acted
  <1>3. \A d \in Callers \ {c} : Own(d)'
    BY <1>1, <1>2 DEF Owning, Own, Holds, Past
  <1>4. Own(c)' /\ (Holds(c)' => Holds(c))
    BY <1>1, <1>2 DEF Owning, Own, Holds, Past
  <1> QED BY <1>1, <1>3, <1>4, OwningMove

\* A step with which c lets go of its operation, or waits for its answer.
LEMMA OwningLeave ==
  ASSUME Typed, Owning, NEW c \in Callers, pc[c] # "idle",
         \A d \in Callers \ {c} : pc'[d] = pc[d] /\ op'[d] = op[d],
         pc'[c] \in {"idle", "answered"},
         \A j \in ClaimIds \ {Id(c)} : claims'[j] = claims[j],
         \/ claims'[Id(c)] = claims[Id(c)]
         \/ Holds(c) /\ ~claims'[Id(c)].aged
         \/ /\ Acted(Id(c)) /\ claims'[Id(c)].status = "completed"
            /\ claims'[Id(c)].op = claims[Id(c)].op /\ ~claims'[Id(c)].aged
  PROVE  Owning'
  <1> DEFINE i == Id(c)
  <1>1. i \in ClaimIds /\ \A d \in Callers : pc[d] # "idle" => Id(d) \in ClaimIds
    BY OpFacts DEF Typed, LocalTyped, Id
  <1>r. PICK j \in ClaimIds : j = i
    BY <1>1
  <1> HIDE DEF i
  <1>2. \A d \in Callers \ {c} : Own(d)'
    BY <1>1, <1>r, OthersOwn DEF Acted, i
  <1>3. OldIsPending'
    BY <1>1, <1>r DEF Owning, OldIsPending, i
  <1>4. Own(c)' /\ ~Holds(c)'
    BY DEF Own, Holds, Past
  <1> QED BY <1>2, <1>3, <1>4, OwningMove

LEMMA OwningBegin ==
  ASSUME Typed, Owning, NEW c \in Callers, NEW o \in Ops, Begin(c, o)
  PROVE  Owning'
  <1> DEFINE i == ClaimId(o)
  <1>1. /\ i \in ClaimIds /\ claims[i].status \in Statuses
        /\ \A d \in Callers : pc[d] # "idle" => Id(d) \in ClaimIds
    BY OpFacts DEF Typed, LocalTyped, ClaimsTyped, ClaimRows, Id
  <1>2. /\ pc[c] = "idle" /\ pc'[c] = FirstStep(o) /\ op'[c] = o
        /\ \A d \in Callers \ {c} : pc'[d] = pc[d] /\ op'[d] = op[d]
    BY DEF Begin, Typed, LocalTyped
  <1>3. CASE ClaimPhase(o) = "action"
    <2>1. /\ claims' = [claims EXCEPT ![i] = [status |-> "pending", op |-> o, aged |-> FALSE]]
          /\ pc'[c] = "action"
      BY <1>2, <1>3 DEF Begin, FirstStep
    <2>2. claims[i].status = "none" \/ (claims[i].status = "pending" /\ claims[i].aged)
      BY <1>1, <1>3 DEF ClaimPhase, Statuses
    <2> HIDE DEF i
    <2>3. \A d \in Callers \ {c} : Own(d)'
      BY <1>1, <1>2, <2>1, <2>2, OthersOwn DEF Typed, ClaimsTyped
    <2>4. /\ claims'[i].status = "pending" /\ claims'[i].op = o /\ ~claims'[i].aged
          /\ OldIsPending' /\ Id(c)' = i
      BY <1>1, <1>2, <2>1 DEF Owning, OldIsPending, Typed, ClaimsTyped, Id, i
    <2>5. Own(c)'
      BY <1>2, <2>1, <2>4 DEF Own, Holds, Past
    <2>6. \A d \in Callers \ {c} : Holds(d) => Id(d) # i
      BY <2>2 DEF Owning, Own
    <2> QED BY <1>2, <2>3, <2>4, <2>5, <2>6, OwningMove
  <1>4. CASE ClaimPhase(o) \in {"sync", "done"}
    <2>1. claims' = claims /\ pc'[c] \in {"sync", "answered", "record"} /\ Id(c)' = i
      BY <1>2, <1>4 DEF Begin, FirstStep, Id
    <2>2. Acted(i) /\ claims[i].op = o
      BY <1>1, <1>4 DEF ClaimPhase, Statuses, Acted
    <2> HIDE DEF i
    <2>3. \A d \in Callers \ {c} : Own(d)'
      BY <1>1, <1>2, <2>1, OthersOwn
    <2>4. OldIsPending' /\ Own(c)' /\ ~Holds(c)'
      BY <1>2, <2>1, <2>2 DEF Own, Holds, Past, Acted, Owning, OldIsPending
    <2> QED BY <1>2, <2>3, <2>4, OwningMove
  <1> QED
    BY <1>1, <1>3, <1>4 DEF Begin, ClaimPhase, Statuses

LEMMA OwningMark ==
  ASSUME Typed, Owning, NEW c \in Callers, MarkActed(c)
  PROVE  Owning'
  <1>i. PICK i \in ClaimIds : i = Id(c)
    BY OpFacts DEF MarkActed, Typed, LocalTyped, Id
  <1>1. /\ \A d \in Callers : pc[d] # "idle" => Id(d) \in ClaimIds
        /\ \A d \in Callers \ {c} : pc'[d] = pc[d] /\ op'[d] = op[d]
        /\ pc'[c] = "sync" /\ op'[c] = op[c] /\ Id(c)' = i /\ Holds(c)
    BY <1>i, OpFacts DEF MarkActed, Goto, Typed, LocalTyped, Id, Holds
  <1>2. claims[i].status = "pending" /\ claims[i].op = op[c]
    BY <1>i, <1>1 DEF Owning, Own
  <1>3. /\ claims' = [claims EXCEPT ![i] = [@ EXCEPT !.status = "action_done", !.aged = FALSE]]
    BY <1>i, <1>2 DEF MarkActed, Marked, WithStatus, Id
  <1>4. /\ claims'[i].status = "action_done" /\ claims'[i].op = op[c] /\ ~claims'[i].aged
        /\ \A j \in ClaimIds \ {i} : claims'[j] = claims[j]
    BY <1>2, <1>3 DEF Typed, ClaimsTyped, ClaimRows
  <1>5. \A d \in Callers \ {c} : Own(d)'
    BY <1>i, <1>1, <1>4, OthersOwn
  <1>6. OldIsPending' /\ Own(c)' /\ ~Holds(c)'
    BY <1>1, <1>4 DEF Own, Holds, Past, Acted, Owning, OldIsPending
  <1> QED BY <1>1, <1>5, <1>6, OwningMove

LEMMA OwningAge ==
  ASSUME Typed, Owning, NEW i \in ClaimIds, Age(i)
  PROVE  Owning'
  <1>1. /\ claims[i].status = "pending" /\ pc' = pc /\ op' = op
        /\ claims'[i].status = "pending"
        /\ \A j \in ClaimIds \ {i} : claims'[j] = claims[j]
    BY DEF Age, localVars, Typed, ClaimsTyped, ClaimRows
  <1>2. \A d \in Callers : /\ Id(d)' = Id(d) /\ (Holds(d)' <=> Holds(d)) /\ (Past(d)' <=> Past(d))
                           /\ Holds(d) \/ Past(d) => Id(d) \in ClaimIds
    BY <1>1, OpFacts DEF Id, Holds, Past, Typed, LocalTyped
  <1>3. ASSUME NEW d \in Callers PROVE Own(d)'
    <2>1. Holds(d) \/ Past(d) => Id(d) # i
      BY <1>1 DEF Age, Holds, Past, Id, Owning, Own, Acted
    <2> QED BY <1>1, <1>2, <2>1 DEF Owning, Own, Acted
  <1>4. Alone' /\ OldIsPending'
    BY <1>1, <1>2 DEF Owning, Alone, OldIsPending
  <1> QED BY <1>3, <1>4 DEF Owning

LEMMA OwningSame ==
  ASSUME Owning, UNCHANGED <<claims, pc, op>>
  PROVE  Owning'
  BY DEF Owning, Alone, OldIsPending, Own, Id, Holds, Past, Acted

LEMMA OwningStep == Typed /\ Owning /\ [Next]_vars => Owning'
  <1> SUFFICES ASSUME Typed, Owning, [Next]_vars PROVE Owning'
    OBVIOUS
  <1>1. ASSUME NEW c \in Callers, Work(c) PROVE Owning'
    <2>0. /\ Leave(c) => /\ pc'[c] = "idle"
                         /\ \A d \in Callers \ {c} : pc'[d] = pc[d] /\ op'[d] = op[d]
          /\ pc[c] # "idle" => Id(c) \in ClaimIds
      BY OpFacts DEF Leave, Typed, LocalTyped, Id
    <2>1. CASE ActionSucceeds(c) \/ ActionFails(c) \/ ActionTimesOut(c)
      BY <2>1, OwningGoto
      DEF ActionSucceeds, ActionFails, ActionTimesOut, Goto, Holds, claimVars
    <2>2. CASE DropClaim(c)
      <3>1. /\ \A j \in ClaimIds \ {Id(c)} : claims'[j] = claims[j]
            /\ ~claims'[Id(c)].aged
        BY <2>0, <2>2 DEF DropClaim, Id, NoClaim, Typed, ClaimsTyped
      <3> QED BY <2>0, <2>2, <3>1, OwningLeave DEF DropClaim, Holds
    <2>3. CASE SyncRead(c) \/ SyncCommit(c)
      BY <2>3, OwningGoto DEF SyncRead, SyncCommit, Goto, Past, claimVars
    <2>4. CASE SyncFails(c) \/ Crash(c) \/ Answer(c)
      BY <2>0, <2>4, OwningLeave DEF SyncFails, Crash, Answer, claimVars
    <2>5. CASE Record(c)
      <3>1. /\ pc[c] = "record" /\ pc'[c] \in {"idle", "answered"}
            /\ \A d \in Callers \ {c} : pc'[d] = pc[d] /\ op'[d] = op[d]
        BY <2>0, <2>5
        DEF Record, RecordSessionAttempt, RecordSessionHint, RecordAssignmentOp, Goto, Typed,
            LocalTyped
      <3>2. Acted(Id(c))
        BY <3>1 DEF Owning, Own, Past
      <3>3. CASE phase[c] = "done"
        BY <2>5, <3>1, <3>3, OwningLeave DEF Record, Completed
      <3>4. CASE phase[c] # "done"
        <4>1. claims' = [claims EXCEPT ![Id(c)] = [@ EXCEPT !.status = "completed", !.aged = FALSE]]
          BY <2>5, <3>2, <3>4 DEF Record, Completed, WithStatus, Acted, Id
        <4>2. /\ \A j \in ClaimIds \ {Id(c)} : claims'[j] = claims[j]
              /\ claims'[Id(c)].status = "completed" /\ ~claims'[Id(c)].aged
              /\ claims'[Id(c)].op = claims[Id(c)].op
          BY <2>0, <3>1, <4>1 DEF Typed, ClaimsTyped, ClaimRows
        <4> QED BY <3>1, <3>2, <4>2, OwningLeave
      <3> QED BY <3>3, <3>4
    <2> QED BY <1>1, <2>1, <2>2, <2>3, <2>4, <2>5, OwningMark DEF Work
  <1>2. ASSUME NEW c \in Callers, NEW o \in Ops, Begin(c, o) PROVE Owning'
    BY <1>2, OwningBegin
  <1>3. ASSUME NEW i \in ClaimIds, Age(i) PROVE Owning'
    BY <1>3, OwningAge
  <1>4. CASE \/ \E s \in Sessions : StartSession(s) \/ ContinueSession(s) \/ Abandon(s)
             \/ \E s \in Sessions, l \in Levels : RepeatHint(s, l)
             \/ BotActs \/ Reassign \/ UNCHANGED vars
    BY <1>4, OwningSame
    DEF StartSession, ContinueSession, Abandon, RepeatHint, BotActs, Reassign, vars, claimVars,
        localVars
  <1> QED BY <1>1, <1>2, <1>3, <1>4 DEF Next

THEOREM BridgeInvariance == Spec => [](Typed /\ Owning)
  <1>1. Init => Owning
    BY DEF Init, Owning, Alone, OldIsPending, Own, Holds, Past, NoClaim
  <1>2. QED
    BY InitTyped, <1>1, TypedStep, OwningStep, PTL DEF Spec

-----------------------------------------------------------------------------
(* What a step does to a claim, to the requests and to the tracker's log.   *)

LEMMA ClaimsStep ==
  ASSUME Typed, Owning, [Next]_vars, NEW i \in ClaimIds
  PROVE  /\ Acted(i) => Acted(i)' /\ claims'[i].op = claims[i].op
         /\ Acted(i)' => \/ Acted(i)
                         \/ \E c \in Callers : /\ pc[c] = "mark" /\ Id(c) = i
                                               /\ claims'[i].op = op[c]
         /\ claims'[i].status = "completed" =>
              \/ claims[i].status = "completed"
              \/ \E c \in Callers : pc[c] = "record" /\ Id(c) = i /\ op[c] = claims[i].op
  <1> DEFINE P == /\ Acted(i) => Acted(i)' /\ claims'[i].op = claims[i].op
                  /\ Acted(i)' => \/ Acted(i)
                                  \/ \E c \in Callers : /\ pc[c] = "mark" /\ Id(c) = i
                                                        /\ claims'[i].op = op[c]
                  /\ claims'[i].status = "completed" =>
                       \/ claims[i].status = "completed"
                       \/ \E c \in Callers : pc[c] = "record" /\ Id(c) = i /\ op[c] = claims[i].op
  <1>1. ASSUME claims'[i] = claims[i] PROVE P
    BY <1>1 DEF Acted
  <1>2. ASSUME ~Acted(i), ~Acted(i)' PROVE P
    BY <1>2 DEF Acted
  <1> HIDE DEF P
  <1>3. ASSUME NEW c \in Callers, NEW o \in Ops, Begin(c, o) PROVE P
    <2>1. CASE ClaimPhase(o) = "action" /\ ClaimId(o) = i
      <3>1. ~Acted(i)
        BY <2>1 DEF ClaimPhase, Acted, Typed, ClaimsTyped, ClaimRows, Statuses
      <3>2. ~Acted(i)'
        BY <1>3, <2>1 DEF Begin, Acted, Typed, ClaimsTyped
      <3> QED BY <3>1, <3>2, <1>2
    <2>2. CASE ~(ClaimPhase(o) = "action" /\ ClaimId(o) = i)
      BY <1>1, <1>3, <2>2 DEF Begin, Typed, ClaimsTyped
    <2> QED BY <2>1, <2>2
  <1>4. ASSUME NEW j \in ClaimIds, Age(j) PROVE P
    <2>1. CASE i = j
      BY <1>2, <1>4, <2>1 DEF Age, Acted, Typed, ClaimsTyped, ClaimRows
    <2>2. CASE i # j
      BY <1>1, <1>4, <2>2 DEF Age, Typed, ClaimsTyped
    <2> QED BY <2>1, <2>2
  <1>5. ASSUME NEW c \in Callers, DropClaim(c) PROVE P
    <2>1. CASE Id(c) = i
      <3>1. ~Acted(i)
        BY <1>5, <2>1 DEF DropClaim, Acted, Owning, Own, Holds
      <3>2. ~Acted(i)'
        BY <1>5, <2>1 DEF DropClaim, Acted, Id, NoClaim, Typed, ClaimsTyped
      <3> QED BY <3>1, <3>2, <1>2
    <2>2. CASE Id(c) # i
      BY <1>1, <1>5, <2>2 DEF DropClaim, Id, Typed, ClaimsTyped
    <2> QED BY <2>1, <2>2
  <1>6. ASSUME NEW c \in Callers, MarkActed(c) PROVE P
    <2>1. CASE Id(c) = i
      <3>1. pc[c] = "mark" /\ claims[i].status = "pending" /\ claims[i].op = op[c]
        BY <1>6, <2>1 DEF MarkActed, Owning, Own, Holds
      <3>2. claims' = [claims EXCEPT ![i] = [@ EXCEPT !.status = "action_done", !.aged = FALSE]]
        BY <1>6, <2>1, <3>1 DEF MarkActed, Marked, WithStatus, Id
      <3>3. claims'[i].status = "action_done" /\ claims'[i].op = op[c]
        BY <3>1, <3>2 DEF Typed, ClaimsTyped, ClaimRows
      <3> QED BY <2>1, <3>1, <3>3 DEF P, Acted
    <2>2. CASE Id(c) # i
      BY <1>1, <1>6, <2>2 DEF MarkActed, Marked, WithStatus, Id, Typed, ClaimsTyped
    <2> QED BY <2>1, <2>2
  <1>7. ASSUME NEW c \in Callers, Record(c) PROVE P
    <2>1. CASE Id(c) = i /\ phase[c] # "done"
      <3>1. pc[c] = "record" /\ Acted(i) /\ claims[i].op = op[c]
        BY <1>7, <2>1 DEF Record, Owning, Own, Past
      <3>2. claims' = [claims EXCEPT ![i] = [@ EXCEPT !.status = "completed", !.aged = FALSE]]
        BY <1>7, <2>1, <3>1 DEF Record, Completed, WithStatus, Id, Acted
      <3>3. claims'[i].status = "completed" /\ claims'[i].op = op[c]
        BY <3>1, <3>2 DEF Typed, ClaimsTyped, ClaimRows
      <3> QED BY <2>1, <3>1, <3>3 DEF P, Acted
    <2>2. CASE ~(Id(c) = i /\ phase[c] # "done")
      BY <1>1, <1>7, <2>2 DEF Record, Completed, WithStatus, Id, Typed, ClaimsTyped
    <2> QED BY <2>1, <2>2
  <1>8. ASSUME UNCHANGED claims PROVE P
    BY <1>1, <1>8
  <1>9. ASSUME NEW c \in Callers, Work(c) PROVE P
    BY <1>5, <1>6, <1>7, <1>8, <1>9
    DEF Work, ActionSucceeds, ActionFails, ActionTimesOut, SyncRead, SyncCommit, SyncFails,
        Answer, Crash, claimVars
  <1>10. P
    BY <1>3, <1>4, <1>8, <1>9
    DEF Next, StartSession, ContinueSession, Abandon, RepeatHint, BotActs, Reassign, vars,
        claimVars
  <1> QED BY <1>10 DEF P

\* A row of the log is written by the bot, or by the command of a request that holds its
\* claim; a request that does not go on to mark it leaves its claim orphaned.
LEMMA LogStep ==
  ASSUME Typed, [Next]_vars
  PROVE  \/ log' = log
         \/ /\ \E e \in LogRows : /\ e.id = Cardinality(log) + 1
                                  /\ e.claim = None /\ e.op = None /\ log' = log \cup {e}
            /\ UNCHANGED <<claims, orphaned, pc, op>>
         \/ \E c \in Callers, e \in LogRows :
              /\ pc[c] = "action" /\ IsAttempt(op[c])
              /\ e.id = Cardinality(log) + 1
              /\ e.claim = Id(c) /\ e.op = op[c] /\ log' = log \cup {e}
              /\ claims' = claims /\ op' = op
              /\ \A d \in Callers \ {c} : pc'[d] = pc[d]
              /\ \/ pc'[c] = "mark" /\ orphaned' = orphaned
                 \/ pc'[c] = "drop" /\ orphaned' = orphaned \cup {Id(c)}
  <1>1. ASSUME NEW i \in ClaimIds \cup {None}, NEW o \in Ops \cup {None}, AppendAttempt(i, o)
        PROVE  \E e \in LogRows : /\ e.id = Cardinality(log) + 1
                                  /\ e.claim = i /\ e.op = o /\ log' = log \cup {e}
    <2> DEFINE e == [id |-> Cardinality(log) + 1, claim |-> i, op |-> o]
    <2>1. Cardinality(log) \in Nat
      BY FS_CardinalityType DEF Typed, TrackerTyped
    <2>2. e \in LogRows
      BY <1>1, <2>1, BridgeAssumption DEF AppendAttempt, LogRows, LogIds
    <2> QED BY <1>1, <2>2 DEF AppendAttempt
  <1>2. ASSUME NEW c \in Callers, ActionSucceeds(c) \/ ActionTimesOut(c)
        PROVE  \/ log' = log
               \/ \E e \in LogRows :
                    /\ pc[c] = "action" /\ IsAttempt(op[c])
                    /\ e.id = Cardinality(log) + 1
                    /\ e.claim = Id(c) /\ e.op = op[c] /\ log' = log \cup {e}
                    /\ claims' = claims /\ op' = op
                    /\ \A d \in Callers \ {c} : pc'[d] = pc[d]
                    /\ \/ pc'[c] = "mark" /\ orphaned' = orphaned
                       \/ pc'[c] = "drop" /\ orphaned' = orphaned \cup {Id(c)}
    <2>1. /\ pc[c] = "action" /\ op[c] \in Ops /\ Effect(op[c]) /\ op' = op /\ claims' = claims
          /\ \A d \in Callers \ {c} : pc'[d] = pc[d]
      BY <1>2 DEF ActionSucceeds, ActionTimesOut, Goto, Typed, LocalTyped, claimVars
    <2>2. CASE ~IsAttempt(op[c])
      BY <2>1, <2>2 DEF Effect, TellHint
    <2>3. CASE IsAttempt(op[c])
      <3>1. \/ pc'[c] = "mark" /\ orphaned' = orphaned
            \/ pc'[c] = "drop" /\ orphaned' = orphaned \cup {Id(c)}
        BY <1>2, <2>3
        DEF ActionSucceeds, ActionTimesOut, Goto, Orphaned, Typed, LocalTyped, claimVars, Id
      <3>2. \E e \in LogRows : /\ e.id = Cardinality(log) + 1
                               /\ e.claim = Id(c) /\ e.op = op[c] /\ log' = log \cup {e}
        BY <1>1, <2>1, <2>3, OpFacts DEF Effect, Id
      <3> QED BY <2>1, <2>3, <3>1, <3>2
    <2> QED BY <2>2, <2>3
  <1>3. ASSUME NEW c \in Callers, Work(c), ~ActionSucceeds(c), ~ActionTimesOut(c)
        PROVE  log' = log
    BY <1>3
    DEF Work, ActionFails, DropClaim, MarkActed, SyncRead, SyncCommit, SyncFails, Record, Answer,
        Crash, trackerVars
  <1>4. CASE BotActs
    <2>1. CASE AppendAttempt(None, None)
      BY <1>1, <1>4, <2>1 DEF BotActs, claimVars, localVars
    <2>2. CASE \E l \in Levels : TellHint(l)
      BY <2>2 DEF TellHint
    <2> QED BY <1>4, <2>1, <2>2 DEF BotActs
  <1>5. CASE \/ \E c \in Callers : \E o \in Ops : Begin(c, o)
             \/ \E s \in Sessions : StartSession(s) \/ ContinueSession(s) \/ Abandon(s)
             \/ \E s \in Sessions, l \in Levels : RepeatHint(s, l)
             \/ \E i \in ClaimIds : Age(i)
             \/ Reassign \/ UNCHANGED vars
    BY <1>5
    DEF Begin, StartSession, ContinueSession, Abandon, RepeatHint, Age, Reassign, vars,
        trackerVars
  <1> QED BY <1>2, <1>3, <1>4, <1>5 DEF Next

\* Once an operation is marked its command is never run again, for any number of requests.
THEOREM MarkedNeverActsAgainHolds == Spec => MarkedNeverActsAgain
  <1>1. Typed /\ Owning /\ [Next]_vars =>
          \A e \in log' \ log : e.claim # None =>
            claims[e.claim].status \notin {"action_done", "completed"}
    <2> SUFFICES ASSUME Typed, Owning, [Next]_vars, NEW e \in log' \ log, e.claim # None
                 PROVE  claims[e.claim].status \notin {"action_done", "completed"}
      OBVIOUS
    <2>1. PICK c \in Callers : pc[c] = "action" /\ e.claim = Id(c)
      BY LogStep
    <2> QED BY <2>1 DEF Owning, Own, Holds
  <1>2. QED
    BY BridgeInvariance, <1>1, PTL DEF Spec, MarkedNeverActsAgain

-----------------------------------------------------------------------------
(* One command per claim.                                                  *)

\* Every attempt the tracker has of a claim is accounted for: the claim is marked, or a request
\* is about to mark it, or the attempt was given up.
Accounted ==
  \A e \in log : e.claim # None =>
    \/ e.claim \in orphaned \/ Acted(e.claim)
    \/ \E c \in Callers : pc[c] = "mark" /\ IsAttempt(op[c]) /\ Id(c) = e.claim

OnceEach == NoSecondAction /\ Accounted

\* A request about to mark its claim marks it, stays, or gives it up.
LEMMA MarkerStep ==
  ASSUME Typed, Owning, [Next]_vars, NEW c \in Callers, pc[c] = "mark", IsAttempt(op[c])
  PROVE  \/ pc'[c] = "mark" /\ op'[c] = op[c]
         \/ claims'[Id(c)].status = "action_done"
         \/ Id(c) \in orphaned'
  <1>1. /\ Id(c) \in ClaimIds /\ claims[Id(c)].status = "pending"
        /\ op[c] \in Ops
    BY OpFacts DEF Typed, LocalTyped, Owning, Own, Holds, Id
  <1>2. CASE MarkActed(c)
    <2>1. claims' = [claims EXCEPT ![Id(c)] = [@ EXCEPT !.status = "action_done", !.aged = FALSE]]
      BY <1>1, <1>2 DEF MarkActed, Marked, WithStatus, Id
    <2> QED BY <1>1, <2>1 DEF Typed, ClaimsTyped, ClaimRows
  <1>3. CASE Crash(c)
    BY <1>3 DEF Crash, Orphaned, Id
  <1>4. ASSUME Work(c), ~MarkActed(c), ~Crash(c) PROVE FALSE
    BY <1>4
    DEF Work, ActionSucceeds, ActionFails, ActionTimesOut, DropClaim, SyncRead, SyncCommit,
        SyncFails, Record, Answer
  <1>5. ASSUME NEW d \in Callers, d # c, Work(d) \/ \E o \in Ops : Begin(d, o)
        PROVE  pc'[c] = pc[c] /\ op'[c] = op[c]
    BY <1>5
    DEF Work, ActionSucceeds, ActionFails, ActionTimesOut, DropClaim, MarkActed, SyncRead,
        SyncCommit, SyncFails, Record, RecordSessionAttempt, RecordSessionHint,
        RecordAssignmentOp, Answer, Crash, Begin, Goto, Leave, Typed, LocalTyped
  <1>6. ASSUME NEW o \in Ops, Begin(c, o) PROVE FALSE
    BY <1>6 DEF Begin
  <1>7. CASE \/ \E s \in Sessions : StartSession(s) \/ ContinueSession(s) \/ Abandon(s)
             \/ \E s \in Sessions, l \in Levels : RepeatHint(s, l)
             \/ \E i \in ClaimIds : Age(i)
             \/ BotActs \/ Reassign \/ UNCHANGED vars
    BY <1>7
    DEF StartSession, ContinueSession, Abandon, RepeatHint, Age, BotActs, Reassign, vars, localVars
  <1> QED BY <1>2, <1>3, <1>4, <1>5, <1>6, <1>7 DEF Next

LEMMA OrphansStay == Typed /\ [Next]_vars => orphaned \subseteq orphaned'
  BY DEF Next, Work, ActionSucceeds, ActionFails, ActionTimesOut, DropClaim, MarkActed, SyncRead,
         SyncCommit, SyncFails, Record, Answer, Crash, Orphaned, Begin, StartSession,
         ContinueSession, Abandon, RepeatHint, Age, BotActs, Reassign, vars, claimVars

LEMMA OnceEachStep == Typed /\ Owning /\ OnceEach /\ [Next]_vars => OnceEach'
  <1> SUFFICES ASSUME Typed, Owning, OnceEach, [Next]_vars PROVE OnceEach'
    OBVIOUS
  <1>1. ASSUME NEW i \in ClaimIds,
               \/ i \in orphaned \/ Acted(i)
               \/ \E c \in Callers : pc[c] = "mark" /\ IsAttempt(op[c]) /\ Id(c) = i
        PROVE  \/ i \in orphaned' \/ Acted(i)'
               \/ \E c \in Callers : pc'[c] = "mark" /\ IsAttempt(op'[c]) /\ ClaimId(op'[c]) = i
    <2>1. CASE i \in orphaned
      BY <2>1, OrphansStay
    <2>2. CASE Acted(i)
      BY <2>2, ClaimsStep
    <2>3. ASSUME NEW c \in Callers, pc[c] = "mark", IsAttempt(op[c]), Id(c) = i
          PROVE  \/ i \in orphaned' \/ Acted(i)'
                 \/ pc'[c] = "mark" /\ IsAttempt(op'[c]) /\ ClaimId(op'[c]) = i
      <3> QED BY <2>3, MarkerStep DEF Acted, Id
    <2> QED BY <1>1, <2>1, <2>2, <2>3
  <1>2. log \subseteq LogRows /\ \A e \in LogRows : e.claim # None => e.claim \in ClaimIds
    BY DEF Typed, TrackerTyped, LogRows
  <1>3. CASE log' = log
    <2>1. NoSecondAction'
      BY <1>3, OrphansStay DEF OnceEach, NoSecondAction
    <2>2. Accounted'
      BY <1>1, <1>2, <1>3 DEF OnceEach, Accounted, Id
    <2> QED BY <2>1, <2>2 DEF OnceEach
  <1>4. ASSUME NEW e \in LogRows, e.claim = None, log' = log \cup {e},
               UNCHANGED <<claims, orphaned, pc, op>>
        PROVE  OnceEach'
    BY <1>4 DEF OnceEach, NoSecondAction, Accounted, Acted, Id
  <1>5. ASSUME NEW c \in Callers, NEW e \in LogRows,
               pc[c] = "action", IsAttempt(op[c]), e.claim = Id(c), log' = log \cup {e},
               op' = op,
               \/ pc'[c] = "mark" /\ orphaned' = orphaned
               \/ pc'[c] = "drop" /\ orphaned' = orphaned \cup {Id(c)}
        PROVE  OnceEach'
    <2>1. ~Acted(Id(c)) /\ \A d \in Callers : pc[d] = "mark" => Id(d) # Id(c)
      BY <1>5 DEF Owning, Own, Alone, Holds, Acted
    <2>2. \A f \in log : f.claim # None /\ f.claim = Id(c) => f.claim \in orphaned
      BY <2>1 DEF OnceEach, Accounted
    <2>3. NoSecondAction'
      BY <1>5, <2>2, OrphansStay DEF OnceEach, NoSecondAction
    <2>4. \A f \in log : f.claim # None =>
            \/ f.claim \in orphaned' \/ Acted(f.claim)'
            \/ \E d \in Callers : /\ pc'[d] = "mark" /\ IsAttempt(op'[d])
                                  /\ ClaimId(op'[d]) = f.claim
      BY <1>1, <1>2 DEF OnceEach, Accounted
    <2>5. \/ Id(c) \in orphaned'
          \/ pc'[c] = "mark" /\ IsAttempt(op'[c]) /\ ClaimId(op'[c]) = Id(c)
      BY <1>5 DEF Id
    <2>6. Accounted'
      BY <1>5, <2>4, <2>5 DEF Accounted, Id
    <2> QED BY <2>3, <2>6 DEF OnceEach
  <1> QED BY <1>3, <1>4, <1>5, LogStep

\* Whatever is repeated, concurrent or retried, the tracker has one attempt of a claim,
\* unless a request gave up between the effect of its command and its mark.
THEOREM NoSecondActionHolds == Spec => []NoSecondAction
  <1>1. Init => OnceEach
    BY DEF Init, OnceEach, NoSecondAction, Accounted
  <1>2. OnceEach => NoSecondAction
    BY DEF OnceEach
  <1>3. QED
    BY BridgeInvariance, <1>1, <1>2, OnceEachStep, PTL DEF Spec

-----------------------------------------------------------------------------
(* Evidence: what a marked claim and a closed session stand for.           *)

Recorded(o) == \E e \in log : e.op = o
Brought(o) == \E e \in log : e.op = o /\ e.id \in imported

\* What a request that works on an attempt has seen happen.
Seen(c) ==
  IsAttempt(op[c]) =>
    /\ pc[c] = "mark" => Recorded(op[c])
    /\ pc[c] = "import" => \E e \in log : e.op = op[c] /\ e.id \in read[c].log
    /\ pc[c] = "record" => Brought(op[c])

Evident ==
  /\ \A i \in ClaimIds : IsAttempt(claims[i].op) =>
       /\ Acted(i) => Recorded(claims[i].op)
       /\ claims[i].status = "completed" => Brought(claims[i].op)
  /\ \A c \in Callers : Seen(c)

LEMMA OwnStep ==
  ASSUME Typed, [Next]_vars, NEW c \in Callers
  PROVE  \/ pc'[c] = pc[c] /\ op'[c] = op[c] /\ read'[c] = read[c]
         \/ Work(c)
         \/ \E o \in Ops : Begin(c, o)
  <1>1. ASSUME NEW d \in Callers, d # c, Work(d) \/ \E o \in Ops : Begin(d, o)
        PROVE  pc'[c] = pc[c] /\ op'[c] = op[c] /\ read'[c] = read[c]
    BY <1>1
    DEF Work, ActionSucceeds, ActionFails, ActionTimesOut, DropClaim, MarkActed, SyncRead,
        SyncCommit, SyncFails, Record, RecordSessionAttempt, RecordSessionHint,
        RecordAssignmentOp, Answer, Crash, Begin, Goto, Leave, Typed, LocalTyped
  <1>2. CASE \/ \E s \in Sessions : StartSession(s) \/ ContinueSession(s) \/ Abandon(s)
             \/ \E s \in Sessions, l \in Levels : RepeatHint(s, l)
             \/ \E i \in ClaimIds : Age(i)
             \/ BotActs \/ Reassign \/ UNCHANGED vars
    BY <1>2
    DEF StartSession, ContinueSession, Abandon, RepeatHint, Age, BotActs, Reassign, vars, localVars
  <1> QED BY <1>1, <1>2 DEF Next

LEMMA NothingIsForgotten ==
  Typed /\ [Next]_vars => log \subseteq log' /\ imported \subseteq imported'
  <1> SUFFICES ASSUME Typed, [Next]_vars PROVE log \subseteq log' /\ imported \subseteq imported'
    OBVIOUS
  <1>1. log \subseteq log'
    BY LogStep
  <1>2. imported \subseteq imported'
    BY DEF Next, Work, ActionSucceeds, ActionFails, ActionTimesOut, DropClaim, MarkActed,
           SyncRead, SyncCommit, ImportRows, SyncFails, Record, Answer, Crash, Begin,
           StartSession, ContinueSession, Abandon, RepeatHint, Age, BotActs, Reassign, vars,
           importVars
  <1> QED BY <1>1, <1>2

LEMMA SeenStep ==
  ASSUME Typed, Owning, Evident, [Next]_vars, NEW c \in Callers
  PROVE  Seen(c)'
  <1>0. /\ log \subseteq log' /\ imported \subseteq imported' /\ Seen(c)
        /\ \A o : (Recorded(o) => Recorded(o)') /\ (Brought(o) => Brought(o)')
    BY NothingIsForgotten DEF Evident, Recorded, Brought
  <1>1. CASE pc'[c] = pc[c] /\ op'[c] = op[c] /\ read'[c] = read[c]
    BY <1>0, <1>1 DEF Seen, Recorded, Brought
  <1>2. CASE pc'[c] \notin {"mark", "import", "record"}
    BY <1>2 DEF Seen
  <1>3. ASSUME ActionSucceeds(c) PROVE Seen(c)'
    <2>1. pc[c] = "action" /\ op'[c] = op[c] /\ pc'[c] = "mark" /\ op[c] \in Ops
      BY <1>3 DEF ActionSucceeds, Goto, Typed, LocalTyped
    <2>2. ASSUME IsAttempt(op[c]) PROVE \E e \in log' : e.op = op[c]
      <3>1. AppendAttempt(ClaimId(op[c]), op[c])
        BY <1>3, <2>2 DEF ActionSucceeds, Effect
      <3>2. PICK e : e.op = op[c] /\ log' = log \cup {e}
        BY <3>1 DEF AppendAttempt
      <3> QED BY <3>2
    <2> QED BY <2>1, <2>2 DEF Seen, Recorded
  <1>4. ASSUME SyncRead(c) PROVE Seen(c)'
    <2>1. /\ pc[c] = "sync" /\ op'[c] = op[c] /\ pc'[c] = "import" /\ op[c] \in Ops /\ log' = log
          /\ read'[c].log = {e.id : e \in log}
      BY <1>4 DEF SyncRead, Typed, LocalTyped, trackerVars
    <2>2. IsAttempt(op[c]) => Recorded(op[c])
      BY <2>1, OpFacts DEF Owning, Own, Past, Id, Evident
    <2> QED BY <2>1, <2>2 DEF Seen, Recorded
  <1>5. ASSUME SyncCommit(c) PROVE Seen(c)'
    <2>1. /\ pc[c] = "import" /\ op'[c] = op[c] /\ pc'[c] = "record" /\ log' = log
          /\ imported' = imported \cup read[c].log
      BY <1>5 DEF SyncCommit, ImportRows, Goto, Typed, LocalTyped, trackerVars
    <2> QED BY <1>0, <2>1 DEF Seen, Brought
  <1>6. ASSUME NEW o \in Ops, Begin(c, o) PROVE Seen(c)'
    <2>1. /\ op'[c] = o /\ pc'[c] = FirstStep(o) /\ ClaimId(o) \in ClaimIds
          /\ claims[ClaimId(o)].status \in Statuses
      BY <1>6, OpFacts DEF Begin, Typed, LocalTyped, ClaimsTyped, ClaimRows
    <2>2. ClaimPhase(o) \in {"action", "sync", "done"}
      BY <1>6, <2>1 DEF Begin, ClaimPhase, Statuses
    <2>3. CASE ClaimPhase(o) # "done"
      BY <1>2, <2>1, <2>2, <2>3 DEF FirstStep
    <2>4. CASE ClaimPhase(o) = "done"
      <3>1. claims[ClaimId(o)].status = "completed" /\ claims[ClaimId(o)].op = o
        BY <2>1, <2>4 DEF ClaimPhase, Statuses
      <3>2. IsAttempt(o) => Brought(o)
        BY <2>1, <3>1 DEF Evident
      <3>3. pc'[c] \in {"answered", "record"}
        BY <2>1, <2>4 DEF FirstStep
      <3> QED BY <1>0, <2>1, <3>2, <3>3 DEF Seen, Brought
    <2> QED BY <2>3, <2>4
  <1>7. ASSUME Work(c), ~ActionSucceeds(c), ~SyncRead(c), ~SyncCommit(c)
        PROVE  pc'[c] \notin {"mark", "import", "record"}
    BY <1>7
    DEF Work, ActionFails, ActionTimesOut, DropClaim, MarkActed, SyncFails, Record,
        RecordSessionAttempt, RecordSessionHint, RecordAssignmentOp, Answer, Crash, Goto, Leave,
        Typed, LocalTyped
  <1> QED BY <1>1, <1>2, <1>3, <1>4, <1>5, <1>6, <1>7, OwnStep

LEMMA EvidentStep == Typed /\ Owning /\ Evident /\ [Next]_vars => Evident'
  <1> SUFFICES ASSUME Typed, Owning, Evident, [Next]_vars PROVE Evident'
    OBVIOUS
  <1>0. \A o : (Recorded(o) => Recorded(o)') /\ (Brought(o) => Brought(o)')
    BY NothingIsForgotten DEF Recorded, Brought
  <1>1. ASSUME NEW i \in ClaimIds, IsAttempt(claims'[i].op), Acted(i)',
               NEW o, o = claims'[i].op
        PROVE  Recorded(o)
    <2>1. CASE Acted(i)
      BY <1>1, <2>1, ClaimsStep DEF Evident
    <2>2. CASE ~Acted(i)
      <3>1. PICK c \in Callers : pc[c] = "mark" /\ o = op[c]
        BY <1>1, <2>2, ClaimsStep
      <3> QED BY <1>1, <3>1 DEF Evident, Seen
    <2> QED BY <2>1, <2>2
  <1>2. ASSUME NEW i \in ClaimIds, IsAttempt(claims'[i].op), claims'[i].status = "completed",
               NEW o, o = claims'[i].op
        PROVE  Brought(o)
    <2>1. CASE claims[i].status = "completed"
      BY <1>2, <2>1, ClaimsStep DEF Evident, Acted
    <2>2. CASE claims[i].status # "completed"
      <3>1. PICK c \in Callers : pc[c] = "record" /\ Id(c) = i /\ op[c] = claims[i].op
        BY <1>2, <2>2, ClaimsStep
      <3>2. Acted(i)
        BY <3>1 DEF Owning, Own, Past
      <3>3. o = op[c]
        BY <1>2, <3>1, <3>2, ClaimsStep
      <3> QED BY <1>2, <3>1, <3>3 DEF Evident, Seen
    <2> QED BY <2>1, <2>2
  <1>3. ASSUME NEW i \in ClaimIds, IsAttempt(claims'[i].op)
        PROVE  /\ Acted(i)' => Recorded(claims[i].op)'
               /\ claims'[i].status = "completed" => Brought(claims[i].op)'
    BY <1>0, <1>1, <1>2, <1>3 DEF Recorded, Brought
  <1>4. \A c \in Callers : Seen(c)'
    BY SeenStep
  <1> QED BY <1>3, <1>4 DEF Evident

THEOREM Evidence == Spec => []Evident
  <1>1. Init => Evident
    BY DEF Init, Evident, Seen, Acted, NoClaim
  <1>2. QED
    BY BridgeInvariance, <1>1, EvidentStep, PTL DEF Spec

\* A completed claim of an attempt is backed by a row of the tracker for that very operation,
\* and the importer has brought it in.
THEOREM CompletedIsRecordedHolds == Spec => []CompletedIsRecorded
  <1>1. Evident => CompletedIsRecorded
    BY DEF Evident, CompletedIsRecorded, Brought, RecordOf
  <1>2. QED
    BY Evidence, <1>1, PTL

-----------------------------------------------------------------------------
(* Closed sessions and linked rows.                                        *)

LinkedRows(s) == {i \in LogIds : link[i] = s}

Closed ==
  \A s \in Sessions :
    /\ sStatus[s] = "completed" =>
         \E e \in log : e.op \in SessionAttempts /\ e.op.session = s /\ e.id \in imported
    /\ LinkedRows(s) \subseteq imported
    /\ Cardinality(LinkedRows(s)) <= 1

LEMMA ClosedIsEvidence == Closed <=> ClosedWithEvidence
  BY DEF Closed, ClosedWithEvidence, LinkedRows, LogIds

LEMMA ClosedFrame ==
  ASSUME Typed, Closed, log \subseteq log', imported \subseteq imported', UNCHANGED link,
         \A s \in Sessions : sStatus'[s] = "completed" => sStatus[s] = "completed"
  PROVE  Closed'
  <1>1. \A s \in Sessions : LinkedRows(s)' = LinkedRows(s)
    BY DEF LinkedRows
  <1> QED BY <1>1 DEF Closed

LEMMA LinkStep ==
  ASSUME Typed, Closed, NEW c \in Callers, op[c].session \in Sessions, link' = Linked(c),
         NEW s \in Sessions
  PROVE  LinkedRows(s)' \subseteq imported /\ Cardinality(LinkedRows(s)') <= 1
  <1> DEFINE own == op[c].session
  <1>0. imported \subseteq LogIds /\ None \notin Sessions
    BY BridgeAssumption DEF Typed, SessionsTyped
  <1>1. CASE LinkedTo(own) = {} /\ Cardinality(Candidates(c)) = 1
    <2>1. \A i \in LogIds : link'[i] = IF i \in Candidates(c) THEN own ELSE link[i]
      BY <1>1 DEF Linked, LogIds
    <2>2. Candidates(c) \subseteq imported /\ \A i \in Candidates(c) : link[i] = None
      BY DEF Candidates
    <2>3. CASE s = own
      <3>1. LinkedRows(s) = {}
        BY <1>0, <1>1, <2>3 DEF Closed, LinkedRows, LinkedTo
      <3>2. LinkedRows(s)' = Candidates(c)
        BY <1>0, <2>1, <2>2, <2>3, <3>1 DEF LinkedRows
      <3> QED BY <1>1, <2>2, <3>2
    <2>4. CASE s # own
      <3>1. LinkedRows(s)' = LinkedRows(s)
        BY <1>0, <2>1, <2>2, <2>4 DEF LinkedRows
      <3> QED BY <3>1 DEF Closed
    <2> QED BY <2>3, <2>4
  <1>2. CASE ~(LinkedTo(own) = {} /\ Cardinality(Candidates(c)) = 1)
    <2>1. LinkedRows(s)' = LinkedRows(s)
      BY <1>2 DEF Linked, LinkedRows
    <2> QED BY <2>1 DEF Closed
  <1> QED BY <1>1, <1>2

LEMMA ClosedStep == Typed /\ Evident /\ Closed /\ [Next]_vars => Closed'
  <1> SUFFICES ASSUME Typed, Evident, Closed, [Next]_vars PROVE Closed'
    OBVIOUS
  <1>0. log \subseteq log' /\ imported \subseteq imported'
    BY NothingIsForgotten
  <1>1. ASSUME NEW c \in Callers, Record(c), RecordSessionAttempt(c) PROVE Closed'
    <2>1. /\ pc[c] = "record" /\ op[c] \in Ops /\ op[c] \in SessionAttempts
          /\ op[c].session \in Sessions /\ IsAttempt(op[c])
      BY <1>1, OpFacts DEF Record, RecordSessionAttempt, Typed, LocalTyped
    <2>2. PICK e \in log : e.op = op[c] /\ e.id \in imported
      BY <2>1 DEF Evident, Seen, Brought
    <2>3. /\ link' = Linked(c)
          /\ sStatus' = [sStatus EXCEPT ![op[c].session] = IF @ = "active" THEN "completed" ELSE @]
      BY <1>1 DEF RecordSessionAttempt
    <2>4. \A s \in Sessions \ {op[c].session} : sStatus'[s] = sStatus[s]
      BY <2>3 DEF Typed, SessionsTyped
    <2>5. \A s \in Sessions : sStatus'[s] = "completed" =>
            \E f \in log' : f.op \in SessionAttempts /\ f.op.session = s /\ f.id \in imported'
      BY <1>0, <2>1, <2>2, <2>4 DEF Closed
    <2>6. \A s \in Sessions : LinkedRows(s)' \subseteq imported /\ Cardinality(LinkedRows(s)') <= 1
      BY <2>1, <2>3, LinkStep
    <2> QED BY <1>0, <2>5, <2>6 DEF Closed
  <1>2. ASSUME NEW c \in Callers, Work(c), ~(Record(c) /\ RecordSessionAttempt(c)) PROVE Closed'
    <2>1. link' = link /\ sStatus' = sStatus
      BY <1>2
      DEF Work, ActionSucceeds, ActionFails, ActionTimesOut, DropClaim, MarkActed, SyncRead,
          SyncCommit, SyncFails, Record, RecordSessionHint, RecordAssignmentOp, Answer, Crash,
          sessionVars
    <2> QED BY <1>0, <2>1, ClosedFrame
  <1>3. ASSUME NEW s \in Sessions, StartSession(s) \/ Abandon(s) PROVE Closed'
    <2>1. \A t \in Sessions : sStatus'[t] = "completed" => sStatus[t] = "completed"
      BY <1>3 DEF StartSession, Abandon, Typed, SessionsTyped
    <2> QED BY <1>0, <1>3, <2>1, ClosedFrame DEF StartSession, Abandon
  <1>4. CASE \/ \E c \in Callers : \E o \in Ops : Begin(c, o)
             \/ \E s \in Sessions : ContinueSession(s)
             \/ \E s \in Sessions, l \in Levels : RepeatHint(s, l)
             \/ \E i \in ClaimIds : Age(i)
             \/ BotActs \/ Reassign \/ UNCHANGED vars
    BY <1>0, <1>4, ClosedFrame
    DEF Begin, ContinueSession, RepeatHint, Age, BotActs, Reassign, vars, sessionVars
  <1> QED BY <1>1, <1>2, <1>3, <1>4 DEF Next

\* A closed session has an imported attempt that was made for it, and no session is linked to
\* two rows, however many requests of it run at once.
THEOREM ClosedWithEvidenceHolds == Spec => []ClosedWithEvidence
  <1>1. Init => Closed
    <2> SUFFICES ASSUME Init PROVE Closed
      OBVIOUS
    <2>1. \A s \in Sessions : LinkedRows(s) = {}
      BY BridgeAssumption DEF Init, LinkedRows, LogIds
    <2>2. Cardinality({}) = 0
      BY FS_EmptySet
    <2>3. \A s \in Sessions : LinkedRows(s) \subseteq imported /\ Cardinality(LinkedRows(s)) <= 1
      BY <2>1, <2>2
    <2> QED BY <2>3 DEF Init, Closed
  <1>2. QED
    BY BridgeInvariance, Evidence, <1>1, ClosedStep, ClosedIsEvidence, PTL DEF Spec

-----------------------------------------------------------------------------
(* Hints.                                                                  *)

Covered(n) == n = 0 \/ \E m \in told : n <= m

HintTold(o) == ~IsAttempt(o) => o.level \in told

Told ==
  /\ tHint > 0 => tHint \in told
  /\ \A c \in Callers : read[c].hint > 0 => read[c].hint \in told
  /\ aHint > 0 => aHint \in told
  /\ \A s \in Sessions : Covered(sHint[s]) /\ \A l \in sHints[s] : Covered(l)
  /\ \A i \in ClaimIds : Acted(i) => HintTold(claims[i].op)
  /\ \A c \in Callers : pc[c] = "mark" => HintTold(op[c])

LEMMA ToldIsFirst == Typed /\ Told => HintToldFirst
  BY DEF Typed, SessionsTyped, Told, Covered, HintToldFirst, Levels

LEMMA TellingStep ==
  ASSUME Typed, [Next]_vars
  PROVE  /\ told \subseteq told'
         /\ tHint' = tHint \/ tHint' = 0 \/ tHint' \in told'
  <1>1. ASSUME NEW l \in Levels, TellHint(l)
        PROVE  told \subseteq told' /\ (tHint' = tHint \/ tHint' \in told')
    BY <1>1 DEF TellHint
  <1>2. ASSUME NEW o \in Ops, Effect(o)
        PROVE  told \subseteq told' /\ (tHint' = tHint \/ tHint' = 0 \/ tHint' \in told')
    BY <1>1, <1>2, OpFacts DEF Effect, AppendAttempt
  <1>3. ASSUME NEW c \in Callers, ActionSucceeds(c) \/ ActionTimesOut(c)
        PROVE  told \subseteq told' /\ (tHint' = tHint \/ tHint' = 0 \/ tHint' \in told')
    BY <1>2, <1>3 DEF ActionSucceeds, ActionTimesOut, Typed, LocalTyped
  <1>4. CASE BotActs
    BY <1>1, <1>4 DEF BotActs, AppendAttempt
  <1>5. ASSUME ~\E c \in Callers : ActionSucceeds(c) \/ ActionTimesOut(c), ~BotActs
        PROVE  told' = told /\ tHint' = tHint
    BY <1>5
    DEF Next, Work, ActionFails, DropClaim, MarkActed, SyncRead, SyncCommit, SyncFails, Record,
        Answer, Crash, Begin, StartSession, ContinueSession, Abandon, RepeatHint, Age, Reassign,
        vars, trackerVars
  <1> QED BY <1>3, <1>4, <1>5

LEMMA ToldCallers ==
  ASSUME Typed, Owning, Told, [Next]_vars, NEW c \in Callers
  PROVE  /\ read'[c].hint > 0 => read'[c].hint \in told'
         /\ pc'[c] = "mark" => HintTold(op[c])'
  <1>0. told \subseteq told'
    BY TellingStep
  <1>1. CASE pc'[c] = pc[c] /\ op'[c] = op[c] /\ read'[c] = read[c]
    BY <1>0, <1>1 DEF Told, HintTold
  <1>2. ASSUME SyncRead(c) PROVE read'[c].hint = tHint /\ pc'[c] # "mark"
    BY <1>2 DEF SyncRead, Typed, LocalTyped
  <1>3. ASSUME ActionSucceeds(c)
        PROVE  read'[c] = read[c] /\ HintTold(op[c])'
    <2>1. /\ op[c] \in Ops /\ Effect(op[c]) /\ op'[c] = op[c] /\ read' = read
      BY <1>3 DEF ActionSucceeds, Goto, Typed, LocalTyped
    <2>2. ASSUME ~IsAttempt(op[c]) PROVE op[c].level \in told'
      <3>1. TellHint(op[c].level)
        BY <2>1, <2>2 DEF Effect
      <3> QED BY <3>1 DEF TellHint
    <2> QED BY <2>1, <2>2 DEF HintTold
  <1>4. ASSUME Work(c), ~SyncRead(c), ~ActionSucceeds(c)
        PROVE  pc'[c] # "mark" /\ (read'[c] = read[c] \/ read'[c] = NothingRead)
    BY <1>4
    DEF Work, ActionFails, ActionTimesOut, DropClaim, MarkActed, SyncCommit, SyncFails, Record,
        RecordSessionAttempt, RecordSessionHint, RecordAssignmentOp, Answer, Crash, Goto, Leave,
        Typed, LocalTyped
  <1>5. ASSUME NEW o \in Ops, Begin(c, o) PROVE pc'[c] # "mark" /\ read' = read
    <2>1. pc'[c] = FirstStep(o) /\ read' = read /\ ClaimId(o) \in ClaimIds
      BY <1>5, OpFacts DEF Begin, Typed, LocalTyped
    <2>2. ClaimPhase(o) \in {"action", "sync", "done"}
      BY <1>5, <2>1 DEF Begin, ClaimPhase, Typed, ClaimsTyped, ClaimRows, Statuses
    <2>3. FirstStep(o) # "mark"
      BY <2>2 DEF FirstStep
    <2> QED BY <2>1, <2>3
  <1>6. NothingRead.hint = 0
    BY DEF NothingRead
  <1>7. tHint > 0 => tHint \in told'
    BY <1>0 DEF Told
  <1>8. \A d \in Callers : read[d].hint > 0 => read[d].hint \in told'
    BY <1>0 DEF Told
  <1>9. CASE Work(c) /\ ~ActionSucceeds(c)
    BY <1>2, <1>4, <1>6, <1>7, <1>8, <1>9
  <1> QED BY <1>1, <1>3, <1>5, <1>8, <1>9, OwnStep

LEMMA ToldStep == Typed /\ Owning /\ Told /\ [Next]_vars => Told'
  <1> SUFFICES ASSUME Typed, Owning, Told, [Next]_vars PROVE Told'
    OBVIOUS
  <1>0. /\ told \subseteq told' /\ (tHint' > 0 => tHint' \in told')
        /\ \A n : Covered(n) => Covered(n)'
    BY TellingStep DEF Told, Covered
  <1>1. ASSUME NEW i \in ClaimIds, Acted(i)', NEW o, o = claims'[i].op, ~IsAttempt(o)
        PROVE  o.level \in told'
    <2>1. CASE Acted(i)
      BY <1>0, <1>1, <2>1, ClaimsStep DEF Told, HintTold
    <2>2. CASE ~Acted(i)
      <3>1. PICK c \in Callers : pc[c] = "mark" /\ o = op[c]
        BY <1>1, <2>2, ClaimsStep
      <3> QED BY <1>0, <1>1, <3>1 DEF Told, HintTold
    <2> QED BY <2>1, <2>2
  <1>2. \A i \in ClaimIds : (Acted(i) => HintTold(claims[i].op))'
    BY <1>1 DEF HintTold
  <1>3. ASSUME UNCHANGED <<aHint, sHint, sHints>>
        PROVE  /\ aHint' > 0 => aHint' \in told'
               /\ \A s \in Sessions : Covered(sHint[s])' /\ \A l \in sHints'[s] : Covered(l)'
    BY <1>0, <1>3 DEF Told, Covered
  <1>4. ASSUME NEW c \in Callers, Work(c)
        PROVE  /\ aHint' > 0 => aHint' \in told'
               /\ \A s \in Sessions : Covered(sHint[s])' /\ \A l \in sHints'[s] : Covered(l)'
    <2>1. CASE SyncCommit(c)
      <3>1. UNCHANGED <<sHint, sHints>> /\ (aHint' = read[c].hint \/ aHint' = aHint)
        BY <2>1 DEF SyncCommit, sessionVars
      <3> QED BY <1>0, <3>1 DEF Told, Covered
    <2>2. CASE Record(c) /\ RecordSessionHint(c)
      <3>1. /\ pc[c] = "record" /\ op[c] \in Ops /\ ~IsAttempt(op[c]) /\ op[c].session \in Sessions
            /\ Id(c) \in ClaimIds
        BY <2>2, OpFacts DEF Record, RecordSessionHint, Typed, LocalTyped, Id
      <3>2. op[c].level \in told
        BY <3>1 DEF Owning, Own, Past, Told, HintTold
      <3>3. Covered(op[c].level)
        <4>1. \A m \in told : m \in Int /\ m <= m
          BY BridgeAssumption DEF Typed, TrackerTyped, Levels
        <4> QED BY <3>2, <4>1 DEF Covered
      <3>4. /\ sHint' = [sHint EXCEPT ![op[c].session] = op[c].level]
            /\ sHints' = [sHints EXCEPT ![op[c].session] = @ \cup {op[c].level}]
            /\ aHint' = aHint
        BY <2>2 DEF Record, RecordSessionHint, importVars
      <3>5. \A s \in Sessions : /\ sHint'[s] \in {sHint[s], op[c].level}
                                /\ \A l \in sHints'[s] : l \in sHints[s] \/ l = op[c].level
        BY <3>1, <3>4 DEF Typed, SessionsTyped
      <3>6. \A s \in Sessions : Covered(sHint'[s]) /\ \A l \in sHints'[s] : Covered(l)
        BY <3>3, <3>5 DEF Told
      <3> QED BY <1>0, <3>4, <3>6 DEF Told, Covered
    <2>3. CASE ~SyncCommit(c) /\ ~(Record(c) /\ RecordSessionHint(c))
      BY <1>3, <1>4, <2>3
      DEF Work, ActionSucceeds, ActionFails, ActionTimesOut, DropClaim, MarkActed, SyncRead,
          SyncFails, Record, RecordSessionAttempt, RecordAssignmentOp, Answer, Crash,
          sessionVars, importVars
    <2> QED BY <2>1, <2>2, <2>3
  <1>5. ASSUME NEW s \in Sessions, StartSession(s) \/ ContinueSession(s)
        PROVE  /\ aHint' > 0 => aHint' \in told'
               /\ \A t \in Sessions : Covered(sHint[t])' /\ \A l \in sHints'[t] : Covered(l)'
    <2>1. aHint' = aHint /\ sHints' = sHints /\ sHint' = [sHint EXCEPT ![s] = aHint]
      BY <1>5 DEF StartSession, ContinueSession, importVars
    <2>2. \A t \in Sessions : sHint'[t] \in {sHint[t], aHint}
      BY <2>1 DEF Typed, SessionsTyped
    <2>3. Covered(aHint)
      BY DEF Told, Covered, Typed, SessionsTyped
    <2>4. \A t \in Sessions : Covered(sHint'[t]) /\ \A l \in sHints'[t] : Covered(l)
      BY <2>1, <2>2, <2>3 DEF Told
    <2> QED BY <1>0, <2>1, <2>4 DEF Told, Covered
  <1>6. ASSUME NEW s \in Sessions, NEW k \in Levels, RepeatHint(s, k)
        PROVE  /\ aHint' > 0 => aHint' \in told'
               /\ \A t \in Sessions : Covered(sHint[t])' /\ \A l \in sHints'[t] : Covered(l)'
    <2>1. /\ aHint' = aHint /\ sHint' = sHint /\ k <= sHint[s] /\ sHint[s] \in Nat
          /\ sHints' = [sHints EXCEPT ![s] = @ \cup {k}]
      BY <1>6, BridgeAssumption DEF RepeatHint, importVars, Typed, SessionsTyped
    <2>2. Covered(k)
      BY <2>1, BridgeAssumption DEF Told, Covered, Typed, TrackerTyped, Levels
    <2>3. \A t \in Sessions : \A l \in sHints'[t] : l \in sHints[t] \/ l = k
      BY <2>1 DEF Typed, SessionsTyped
    <2>4. \A t \in Sessions : Covered(sHint'[t]) /\ \A l \in sHints'[t] : Covered(l)
      BY <2>1, <2>2, <2>3 DEF Told
    <2> QED BY <1>0, <2>1, <2>4 DEF Told, Covered
  <1>7. /\ aHint' > 0 => aHint' \in told'
        /\ \A s \in Sessions : Covered(sHint[s])' /\ \A l \in sHints'[s] : Covered(l)'
    BY <1>3, <1>4, <1>5, <1>6
    DEF Next, Begin, Abandon, Age, BotActs, Reassign, vars, sessionVars, importVars
  <1> QED BY <1>0, <1>2, <1>7, ToldCallers DEF Told

\* No reveal is recorded that the tracker was not told, whoever dies between its steps and
\* in whatever order the bot tells its hints.
THEOREM HintToldFirstHolds == Spec => []HintToldFirst
  <1>1. Init => Told
    <2> SUFFICES ASSUME Init PROVE Told
      OBVIOUS
    <2>1. tHint = 0 /\ aHint = 0 /\ \A c \in Callers : read[c].hint = 0 /\ pc[c] # "mark"
      BY DEF Init, NothingRead
    <2>2. \A s \in Sessions : sHint[s] = 0 /\ sHints[s] = {}
      BY DEF Init
    <2>3. \A i \in ClaimIds : ~Acted(i)
      BY DEF Init, Acted, NoClaim
    <2> QED BY <2>1, <2>2, <2>3 DEF Told, Covered
  <1>2. QED
    BY BridgeInvariance, <1>1, ToldStep, ToldIsFirst, PTL DEF Spec

-----------------------------------------------------------------------------
(* The contract of an attempt's claim.                                     *)

ContractVars == <<StatusOf, OwnerOf, Receipts, orphaned, imported>>

\* A row of the log is numbered by the rows there were, and is the bot's or of the claim of
\* its operation.
Numbered ==
  \A e \in log :
    /\ e.id <= Cardinality(log)
    /\ \/ e.claim = None /\ e.op = None
       \/ e.op \in AttemptOps /\ e.claim = ClaimId(e.op)

LEMMA AttemptFacts ==
  ASSUME NEW o \in Ops
  PROVE  /\ IsAttempt(o) => o \in AttemptOps /\ ClaimId(o) \in AttemptClaims
         /\ ~IsAttempt(o) => ClaimId(o) \notin AttemptClaims
  <1>1. CASE o \in SessionAttempts
    BY <1>1 DEF SessionAttempts, AttemptOps, IsAttempt, ClaimId, AttemptClaims
  <1>2. CASE o \in AssignmentAttempts
    BY <1>2 DEF AssignmentAttempts, AttemptOps, IsAttempt, ClaimId, AttemptClaims
  <1>3. CASE o \in SessionHints \cup AssignmentHints
    <2>1. ~IsAttempt(o) /\ o.level \in Nat \ {0}
      BY <1>3, BridgeAssumption DEF SessionHints, AssignmentHints, IsAttempt, Levels
    <2> QED BY <2>1 DEF ClaimId, AttemptClaims
  <1> QED BY <1>1, <1>2, <1>3 DEF Ops, AttemptOps, HintOps

LEMMA NumberedStep == Typed /\ Numbered /\ [Next]_vars => Numbered'
  <1> SUFFICES ASSUME Typed, Numbered, [Next]_vars PROVE Numbered'
    OBVIOUS
  <1>1. CASE log' = log
    BY <1>1 DEF Numbered
  <1>2. ASSUME NEW e \in LogRows, e.id = Cardinality(log) + 1, log' = log \cup {e},
               \/ e.claim = None /\ e.op = None
               \/ e.op \in AttemptOps /\ e.claim = ClaimId(e.op)
        PROVE  Numbered'
    <2>1. Cardinality(log) \in Nat /\ IsFiniteSet(log) /\ \A f \in log : f.id \in Nat
      BY FS_CardinalityType, BridgeAssumption DEF Typed, TrackerTyped, LogRows, LogIds
    <2>2. e \notin log
      BY <1>2, <2>1 DEF Numbered
    <2>3. Cardinality(log') = Cardinality(log) + 1
      BY <1>2, <2>1, <2>2, FS_AddElement
    <2> QED BY <1>2, <2>1, <2>3 DEF Numbered
  <1>3. \A c \in Callers : pc[c] = "action" /\ IsAttempt(op[c]) =>
          op[c] \in AttemptOps /\ Id(c) = ClaimId(op[c])
    BY AttemptFacts DEF Typed, LocalTyped, Id
  <1> QED BY <1>1, <1>2, <1>3, LogStep

LEMMA ClaimWritten ==
  ASSUME Typed, NEW i \in ClaimIds, NEW row \in ClaimRows, claims' = [claims EXCEPT ![i] = row]
  PROVE  /\ i \in AttemptClaims =>
              /\ StatusOf' = [StatusOf EXCEPT ![i] = row.status]
              /\ OwnerOf' = [OwnerOf EXCEPT ![i] = row.op]
         /\ i \notin AttemptClaims \/ (row.status = claims[i].status /\ row.op = claims[i].op) =>
              UNCHANGED <<StatusOf, OwnerOf>>
  <1>1. AttemptClaims \subseteq ClaimIds
    BY DEF AttemptClaims, ClaimIds
  <1> QED BY <1>1 DEF Typed, ClaimsTyped, StatusOf, OwnerOf

LEMMA ReceiptFacts ==
  ASSUME Typed, Numbered, NEW i \in AttemptClaims
  PROVE  /\ Contract!ReceiptsOf(i) = {e \in log : e.claim = i}
         /\ \A e \in log : e.op \in AttemptOps /\ ClaimId(e.op) = i => e \in Contract!ReceiptsOf(i)
  <1>1. i # None
    BY NullAssumption DEF AttemptClaims, ClaimIds
  <1> QED BY <1>1, NullAssumption DEF Contract!ReceiptsOf, Receipts, Numbered, Ops

\* The claim of a request that has not let go of it, as the contract sees it.
LEMMA HeldClaim ==
  ASSUME Typed, Owning, NEW c \in Callers, Holds(c), IsAttempt(op[c])
  PROVE  /\ op[c] \in AttemptOps /\ Id(c) \in AttemptClaims /\ Id(c) \in ClaimIds
         /\ Id(c) = ClaimId(op[c])
         /\ StatusOf[Id(c)] = "pending" /\ OwnerOf[Id(c)] = op[c]
  <1>1. op[c] \in Ops
    BY DEF Typed, LocalTyped, Holds
  <1>2. op[c] \in AttemptOps /\ Id(c) \in AttemptClaims /\ Id(c) \in ClaimIds
    BY <1>1, AttemptFacts, OpFacts DEF Id
  <1> QED BY <1>2 DEF Owning, Own, StatusOf, OwnerOf, Id

LEMMA HeldIsClear ==
  ASSUME Typed, Owning, OnceEach, Numbered,
         NEW c \in Callers, pc[c] \in {"action", "drop"}, IsAttempt(op[c])
  PROVE  Contract!Clear(Id(c))
  <1>1. Holds(c)
    BY DEF Holds
  <1>2. Id(c) \in AttemptClaims /\ ~Acted(Id(c)) /\ Id(c) # None
    BY <1>1, HeldClaim, NullAssumption DEF Owning, Own, Acted
  <1>3. \A d \in Callers : pc[d] = "mark" => Id(d) # Id(c)
    BY <1>1 DEF Owning, Alone, Holds
  <1>4. \A e \in log : e.claim = Id(c) => Id(c) \in orphaned
    BY <1>2, <1>3 DEF OnceEach, Accounted
  <1> QED BY <1>2, <1>4, ReceiptFacts DEF Contract!Clear

LEMMA MarkedHasRun ==
  ASSUME Typed, Owning, Evident, Numbered, NEW c \in Callers, pc[c] = "mark", IsAttempt(op[c])
  PROVE  Contract!HasRun(Id(c))
  <1>1. /\ op[c] \in AttemptOps /\ Id(c) \in AttemptClaims
        /\ Id(c) = ClaimId(op[c]) /\ OwnerOf[Id(c)] = op[c]
    BY HeldClaim DEF Holds
  <1>2. PICK e \in log : e.op = op[c]
    BY DEF Evident, Seen, Recorded
  <1> QED BY <1>1, <1>2, ReceiptFacts DEF Contract!HasRun

LEMMA ActContract ==
  ASSUME Typed, Owning, OnceEach, Numbered, NEW c \in Callers,
         ActionSucceeds(c) \/ ActionTimesOut(c)
  PROVE  Contract!Next \/ UNCHANGED ContractVars
  <1>1. /\ pc[c] = "action" /\ Effect(op[c])
        /\ UNCHANGED <<claims, imported>>
        /\ orphaned' \in {orphaned, Orphaned(c)}
    BY DEF ActionSucceeds, ActionTimesOut, claimVars, importVars
  <1>2. UNCHANGED <<StatusOf, OwnerOf>>
    BY <1>1 DEF StatusOf, OwnerOf
  <1>3. CASE ~IsAttempt(op[c])
    BY <1>1, <1>2, <1>3 DEF Effect, TellHint, Orphaned, ContractVars, Receipts
  <1>4. CASE IsAttempt(op[c])
    <2>1. /\ op[c] \in AttemptOps /\ Id(c) \in AttemptClaims /\ Id(c) = ClaimId(op[c])
          /\ StatusOf[Id(c)] = "pending" /\ OwnerOf[Id(c)] = op[c]
      BY <1>1, <1>4, HeldClaim DEF Holds
    <2> DEFINE n == Cardinality(log) + 1
               e == [id |-> n, claim |-> Id(c), op |-> OwnerOf[Id(c)]]
    <2>2. n \in 1..MaxLog /\ log' = log \cup {e}
      BY <1>1, <1>4, <2>1, BridgeAssumption, FS_CardinalityType
      DEF Effect, AppendAttempt, Typed, TrackerTyped
    <2>3. \A r \in Receipts : r.id # n
      <3>1. \A r \in log : r.id \in Nat /\ r.id <= Cardinality(log)
        BY BridgeAssumption DEF Numbered, Typed, TrackerTyped, LogRows, LogIds
      <3>2. Cardinality(log) \in Nat
        BY FS_CardinalityType DEF Typed, TrackerTyped
      <3> QED BY <3>1, <3>2 DEF Receipts
    <2>4. Receipts' = Receipts \cup {e}
      <3>1. Id(c) # None
        BY <2>1, NullAssumption DEF AttemptClaims, ClaimIds
      <3> QED BY <2>2, <3>1 DEF Receipts
    <2>5. orphaned' \in {orphaned, orphaned \cup {Id(c)}}
      BY <1>1, <1>4 DEF Orphaned, Id
    <2>6. Contract!Clear(Id(c))
      BY <1>1, <1>4, HeldIsClear
    <2> HIDE DEF n
    <2>7. Contract!Act(Id(c))
      BY <1>1, <1>2, <2>1, <2>2, <2>3, <2>4, <2>5, <2>6 DEF Contract!Act
    <2> QED BY <2>1, <2>7 DEF Contract!Next
  <1> QED BY <1>3, <1>4

LEMMA BeginContract ==
  ASSUME Typed, NEW c \in Callers, NEW o \in Ops, Begin(c, o)
  PROVE  Contract!Next \/ UNCHANGED ContractVars
  <1> DEFINE i == ClaimId(o)
             row == [status |-> "pending", op |-> o, aged |-> FALSE]
  <1>1. /\ UNCHANGED <<Receipts, orphaned, imported>>
        /\ i \in ClaimIds /\ claims[i].status \in Statuses /\ row \in ClaimRows
    BY OpFacts
    DEF Begin, trackerVars, importVars, Receipts, Typed, ClaimsTyped, ClaimRows, Statuses
  <1>2. CASE ClaimPhase(o) # "action"
    BY <1>1, <1>2 DEF Begin, ContractVars, StatusOf, OwnerOf
  <1>3. CASE ClaimPhase(o) = "action"
    <2>1. claims' = [claims EXCEPT ![i] = row]
      BY <1>3 DEF Begin
    <2>2. claims[i].status = "none" \/ (claims[i].status = "pending" /\ claims[i].op = o)
      BY <1>1, <1>3 DEF ClaimPhase, Statuses
    <2>3. row.status = "pending" /\ row.op = o
      OBVIOUS
    <2> HIDE DEF row
    <2>4. CASE i \notin AttemptClaims \/ claims[i].status = "pending"
      BY <1>1, <2>1, <2>2, <2>3, <2>4, ClaimWritten DEF ContractVars
    <2>5. CASE i \in AttemptClaims /\ claims[i].status = "none"
      <3>1. o \in AttemptOps
        BY <2>5, AttemptFacts
      <3>2. /\ StatusOf' = [StatusOf EXCEPT ![i] = row.status]
            /\ OwnerOf' = [OwnerOf EXCEPT ![i] = row.op]
        BY <1>1, <2>1, <2>5, ClaimWritten
      <3>3. StatusOf[i] = "none"
        BY <2>5 DEF StatusOf
      <3>4. Contract!Take(i, o)
        BY <1>1, <2>3, <3>2, <3>3 DEF Contract!Take
      <3> QED BY <2>5, <3>1, <3>4 DEF Contract!Next
    <2> QED BY <2>2, <2>4, <2>5
  <1> QED BY <1>2, <1>3

LEMMA DropContract ==
  ASSUME Typed, Owning, OnceEach, Numbered, NEW c \in Callers, DropClaim(c)
  PROVE  Contract!Next \/ UNCHANGED ContractVars
  <1>1. /\ pc[c] = "drop" /\ UNCHANGED <<Receipts, orphaned, imported>>
        /\ claims' = [claims EXCEPT ![Id(c)] = NoClaim]
    BY DEF DropClaim, trackerVars, importVars, Receipts, Id
  <1>2. op[c] \in Ops /\ Id(c) \in ClaimIds /\ NoClaim \in ClaimRows
    BY <1>1, OpFacts DEF Typed, LocalTyped, Id, NoClaim, ClaimRows, Statuses
  <1>3. CASE ~IsAttempt(op[c])
    BY <1>1, <1>2, <1>3, AttemptFacts, ClaimWritten DEF Id, ContractVars
  <1>4. CASE IsAttempt(op[c])
    <2>1. Id(c) \in AttemptClaims /\ StatusOf[Id(c)] = "pending" /\ Contract!Clear(Id(c))
      BY <1>1, <1>4, HeldClaim, HeldIsClear DEF Holds
    <2>2. /\ StatusOf' = [StatusOf EXCEPT ![Id(c)] = "none"]
          /\ OwnerOf' = [OwnerOf EXCEPT ![Id(c)] = None]
      BY <1>1, <1>2, <2>1, ClaimWritten DEF NoClaim
    <2>3. Contract!GiveUp(Id(c))
      BY <1>1, <2>1, <2>2 DEF Contract!GiveUp
    <2> QED BY <2>1, <2>3 DEF Contract!Next
  <1> QED BY <1>3, <1>4

LEMMA MarkContract ==
  ASSUME Typed, Owning, Evident, Numbered, NEW c \in Callers, MarkActed(c)
  PROVE  Contract!Next \/ UNCHANGED ContractVars
  <1> DEFINE row == [claims[Id(c)] EXCEPT !.status = "action_done", !.aged = FALSE]
  <1>1. /\ pc[c] = "mark" /\ UNCHANGED <<Receipts, orphaned, imported>>
        /\ op[c] \in Ops /\ Id(c) \in ClaimIds
    BY OpFacts
    DEF MarkActed, trackerVars, importVars, Receipts, Id, Typed, LocalTyped
  <1>2. claims[Id(c)].status = "pending"
    BY <1>1 DEF Owning, Own, Holds
  <1>3. claims' = [claims EXCEPT ![Id(c)] = row]
    BY <1>2 DEF MarkActed, Marked, WithStatus, Id
  <1>4. /\ row \in ClaimRows /\ row.status = "action_done" /\ row.op = claims[Id(c)].op
    BY <1>1 DEF Typed, ClaimsTyped, ClaimRows, Statuses
  <1> HIDE DEF row
  <1>5. CASE ~IsAttempt(op[c])
    BY <1>1, <1>3, <1>4, <1>5, AttemptFacts, ClaimWritten DEF Id, ContractVars
  <1>6. CASE IsAttempt(op[c])
    <2>1. Id(c) \in AttemptClaims /\ StatusOf[Id(c)] = "pending" /\ Contract!HasRun(Id(c))
      BY <1>1, <1>6, HeldClaim, MarkedHasRun DEF Holds
    <2>2. /\ StatusOf' = [StatusOf EXCEPT ![Id(c)] = row.status]
          /\ OwnerOf' = [OwnerOf EXCEPT ![Id(c)] = row.op]
      BY <1>1, <1>3, <1>4, <2>1, ClaimWritten
    <2>3. OwnerOf' = OwnerOf
      BY <1>4, <2>1, <2>2 DEF OwnerOf
    <2>4. Contract!Mark(Id(c))
      BY <1>1, <1>4, <2>1, <2>2, <2>3 DEF Contract!Mark
    <2> QED BY <2>1, <2>4 DEF Contract!Next
  <1> QED BY <1>5, <1>6

LEMMA CrashContract ==
  ASSUME Typed, Owning, Evident, Numbered, NEW c \in Callers, Crash(c)
  PROVE  Contract!Next \/ UNCHANGED ContractVars
  <1>1. UNCHANGED <<StatusOf, OwnerOf, Receipts, imported>>
    BY DEF Crash, trackerVars, importVars, StatusOf, OwnerOf, Receipts
  <1>2. CASE orphaned' = orphaned
    BY <1>1, <1>2 DEF ContractVars
  <1>3. CASE orphaned' # orphaned
    <2>1. /\ pc[c] = "mark" /\ IsAttempt(op[c])
          /\ orphaned' = orphaned \cup {Id(c)}
      BY <1>3 DEF Crash, Orphaned, Id
    <2>2. Id(c) \in AttemptClaims /\ StatusOf[Id(c)] = "pending" /\ Contract!HasRun(Id(c))
      BY <2>1, HeldClaim, MarkedHasRun DEF Holds
    <2>3. Contract!LoseSight(Id(c))
      BY <1>1, <2>1, <2>2 DEF Contract!LoseSight
    <2> QED BY <2>2, <2>3 DEF Contract!Next
  <1> QED BY <1>2, <1>3

LEMMA RecordContract ==
  ASSUME Typed, Owning, Evident, Numbered, NEW c \in Callers, Record(c)
  PROVE  Contract!Next \/ UNCHANGED ContractVars
  <1> DEFINE row == [claims[Id(c)] EXCEPT !.status = "completed", !.aged = FALSE]
  <1>1. /\ pc[c] = "record" /\ UNCHANGED <<Receipts, orphaned, imported>>
        /\ op[c] \in Ops /\ Id(c) \in ClaimIds
    BY OpFacts DEF Record, trackerVars, importVars, Receipts, Id, Typed, LocalTyped
  <1>2. Acted(Id(c)) /\ claims[Id(c)].op = op[c]
    BY <1>1 DEF Owning, Own, Past
  <1>3. claims' = claims \/ claims' = [claims EXCEPT ![Id(c)] = row]
    BY <1>2 DEF Record, Completed, WithStatus, Id, Acted
  <1>4. /\ row \in ClaimRows /\ row.status = "completed" /\ row.op = claims[Id(c)].op
    BY <1>1 DEF Typed, ClaimsTyped, ClaimRows, Statuses
  <1> HIDE DEF row
  <1>5. CASE claims' = claims
    BY <1>1, <1>5 DEF StatusOf, OwnerOf, ContractVars
  <1>6. CASE claims' # claims
    <2>1. CASE ~IsAttempt(op[c]) \/ claims[Id(c)].status = "completed"
      BY <1>1, <1>3, <1>4, <1>6, <2>1, AttemptFacts, ClaimWritten DEF Id, ContractVars
    <2>2. CASE IsAttempt(op[c]) /\ claims[Id(c)].status = "action_done"
      <3>1. /\ op[c] \in AttemptOps /\ Id(c) \in AttemptClaims /\ ClaimId(op[c]) = Id(c)
            /\ StatusOf[Id(c)] = "action_done" /\ OwnerOf[Id(c)] = op[c]
        BY <1>1, <1>2, <2>2, AttemptFacts DEF Id, StatusOf, OwnerOf
      <3>2. PICK e \in log : e.op = op[c] /\ e.id \in imported
        BY <1>1, <2>2 DEF Evident, Seen, Brought
      <3>3. e \in Contract!ReceiptsOf(Id(c)) /\ e.op = OwnerOf[Id(c)] /\ e.id \in imported
        BY <3>1, <3>2, ReceiptFacts
      <3>4. /\ StatusOf' = [StatusOf EXCEPT ![Id(c)] = "completed"]
            /\ OwnerOf' = [OwnerOf EXCEPT ![Id(c)] = OwnerOf[Id(c)]]
        BY <1>1, <1>3, <1>4, <1>6, <3>1, ClaimWritten DEF OwnerOf
      <3>5. OwnerOf' = OwnerOf
        BY <3>4 DEF OwnerOf
      <3>6. Contract!Complete(Id(c))
        BY <1>1, <3>1, <3>3, <3>4, <3>5 DEF Contract!Complete
      <3> QED BY <3>1, <3>6 DEF Contract!Next
    <2> QED BY <1>2, <2>1, <2>2 DEF Acted
  <1> QED BY <1>5, <1>6

LEMMA ContractStep ==
  Typed /\ Owning /\ OnceEach /\ Evident /\ Numbered /\ [Next]_vars =>
    Contract!Next \/ UNCHANGED ContractVars
  <1> SUFFICES ASSUME Typed, Owning, OnceEach, Evident, Numbered, [Next]_vars
               PROVE  Contract!Next \/ UNCHANGED ContractVars
    OBVIOUS
  <1>1. ASSUME UNCHANGED <<claims, orphaned, log, imported>> PROVE UNCHANGED ContractVars
    BY <1>1 DEF ContractVars, StatusOf, OwnerOf, Receipts
  <1>2. ASSUME NEW c \in Callers, SyncCommit(c) PROVE Contract!Next
    <2>1. read[c].log \in SUBSET (1..MaxLog)
      BY DEF Typed, LocalTyped, Snapshots, LogIds
    <2>2. Contract!BringHome(read[c].log)
      BY <1>2
      DEF SyncCommit, ImportRows, claimVars, trackerVars, StatusOf, OwnerOf, Receipts,
          Contract!BringHome
    <2> QED BY <2>1, <2>2 DEF Contract!Next
  <1>3. ASSUME NEW c \in Callers, Work(c) PROVE Contract!Next \/ UNCHANGED ContractVars
    BY <1>1, <1>2, <1>3, ActContract, DropContract, MarkContract, CrashContract, RecordContract
    DEF Work, ActionFails, SyncRead, SyncFails, Answer, claimVars, importVars, trackerVars
  <1>4. ASSUME NEW i \in ClaimIds, Age(i) PROVE UNCHANGED ContractVars
    <2> DEFINE row == [claims[i] EXCEPT !.aged = TRUE]
    <2>1. /\ claims' = [claims EXCEPT ![i] = row] /\ row \in ClaimRows
          /\ row.status = claims[i].status /\ row.op = claims[i].op
      BY <1>4 DEF Age, Typed, ClaimsTyped, ClaimRows
    <2> HIDE DEF row
    <2>2. UNCHANGED <<orphaned, imported, Receipts>>
      BY <1>4 DEF Age, importVars, trackerVars, Receipts
    <2> QED BY <2>1, <2>2, ClaimWritten DEF ContractVars
  <1>5. CASE BotActs
    <2>1. UNCHANGED <<claims, orphaned, imported>>
      BY <1>5 DEF BotActs, claimVars, importVars
    <2>2. UNCHANGED Receipts
      BY <1>5 DEF BotActs, AppendAttempt, TellHint, Receipts
    <2> QED BY <2>1, <2>2 DEF ContractVars, StatusOf, OwnerOf
  <1>6. CASE \/ \E s \in Sessions : StartSession(s) \/ ContinueSession(s) \/ Abandon(s)
             \/ \E s \in Sessions, l \in Levels : RepeatHint(s, l)
             \/ Reassign \/ UNCHANGED vars
    BY <1>1, <1>6
    DEF StartSession, ContinueSession, Abandon, RepeatHint, Reassign, vars, claimVars, importVars,
        trackerVars
  <1> QED BY <1>3, <1>4, <1>5, <1>6, BeginContract DEF Next

\* For any number of requests that may die, time out, repeat and overlap, and with a bot that
\* writes to the same tracker, the bridge implements the contract of an attempt's claim.
THEOREM KeepsClaimsHolds == Spec => KeepsClaims
  <1>1. Init => Numbered /\ OnceEach /\ Evident
    BY DEF Init, Numbered, OnceEach, NoSecondAction, Accounted, Evident, Seen, Acted, NoClaim
  <1>2. Init => Contract!Init
    <2> SUFFICES ASSUME Init PROVE Contract!Init
      OBVIOUS
    <2>1. AttemptClaims \subseteq ClaimIds
      BY DEF AttemptClaims, ClaimIds
    <2> QED BY <2>1 DEF Init, NoClaim, StatusOf, OwnerOf, Receipts, Contract!Init
  <1>3. Typed /\ Owning /\ OnceEach /\ Evident /\ Numbered /\ [Next]_vars =>
          [Contract!Next]_(Contract!contractVars)
    BY ContractStep DEF Contract!contractVars, ContractVars
  <1>4. QED
    BY BridgeInvariance, <1>1, <1>2, <1>3, OnceEachStep, EvidentStep, NumberedStep, PTL
    DEF Spec, KeepsClaims, Contract!Spec

-----------------------------------------------------------------------------
(* Requests that neither die nor give up waiting.                          *)

\* What the tracker has of one claim is one row.
ExactlyOnce == \A e, f \in log : e.claim # None /\ e.claim = f.claim => e = f

LEMMA NothingIsOrphaned ==
  ASSUME Faults = {}, orphaned = {}, [Next]_vars
  PROVE  orphaned' = {}
  <1>1. ASSUME NEW c \in Callers, Work(c) PROVE orphaned' = {}
    BY <1>1
    DEF Work, ActionSucceeds, ActionFails, ActionTimesOut, DropClaim, MarkActed, SyncRead,
        SyncCommit, SyncFails, Record, Answer, Crash, claimVars
  <1>2. CASE \/ \E c \in Callers : \E o \in Ops : Begin(c, o)
             \/ \E s \in Sessions : StartSession(s) \/ ContinueSession(s) \/ Abandon(s)
             \/ \E s \in Sessions, l \in Levels : RepeatHint(s, l)
             \/ \E i \in ClaimIds : Age(i)
             \/ BotActs \/ Reassign \/ UNCHANGED vars
    BY <1>2
    DEF Begin, StartSession, ContinueSession, Abandon, RepeatHint, Age, BotActs, Reassign, vars,
        claimVars
  <1> QED BY <1>1, <1>2 DEF Next

LEMMA DroppedIsClear ==
  ASSUME Typed, Owning, OnceEach, Numbered, orphaned = {}
  PROVE  DroppedClaimDidNothing
  <1> SUFFICES ASSUME NEW c \in Callers, pc[c] = "drop", NEW e \in log, e.op = op[c]
               PROVE  FALSE
    BY DEF DroppedClaimDidNothing, RecordOf
  <1>1. op[c] \in Ops /\ op[c] # None
    BY NullAssumption DEF Typed, LocalTyped
  <1>2. op[c] \in AttemptOps /\ e.claim = ClaimId(op[c])
    BY <1>1 DEF Numbered
  <1>3. IsAttempt(op[c])
    BY <1>2 DEF AttemptOps, SessionAttempts, AssignmentAttempts, IsAttempt
  <1>4. Id(c) \in AttemptClaims /\ Id(c) = ClaimId(op[c])
    BY <1>3, HeldClaim DEF Holds
  <1>5. e \in Contract!ReceiptsOf(Id(c))
    BY <1>2, <1>4, ReceiptFacts
  <1> QED BY <1>3, <1>5, HeldIsClear DEF Contract!Clear

\* app/services.py, run_claimed_legacy_step: "Action failure deletes the claim (nothing durable
\* happened; a retry starts over)". This is so, and a claim is one row of the tracker, if no
\* request dies between its command and its mark and no command outlives its time-out: these
\* are the only ways in which it can fail, however requests repeat, overlap and age.
THEOREM ExactlyOnceWithoutFaults ==
  ASSUME Faults = {}
  PROVE  Spec => [](ExactlyOnce /\ DroppedClaimDidNothing)
  <1>1. Init => Numbered /\ OnceEach /\ orphaned = {}
    BY DEF Init, Numbered, OnceEach, NoSecondAction, Accounted
  <1>2. orphaned = {} /\ [Next]_vars => (orphaned = {})'
    BY NothingIsOrphaned
  <1>3. Typed /\ Owning /\ OnceEach /\ Numbered /\ orphaned = {} =>
          ExactlyOnce /\ DroppedClaimDidNothing
    BY DroppedIsClear DEF OnceEach, NoSecondAction, ExactlyOnce
  <1>4. QED
    BY BridgeInvariance, <1>1, <1>2, <1>3, OnceEachStep, NumberedStep, PTL DEF Spec
=============================================================================
