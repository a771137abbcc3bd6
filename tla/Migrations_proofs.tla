------------------------- MODULE Migrations_proofs -------------------------
(***************************************************************************)
(* What holds of the migrations for every number of processes, releases    *)
(* and versions, however often processes die and files are restored.       *)
(***************************************************************************)
EXTENDS Migrations, TLAPS

\* The part of the types the argument needs.
Typed ==
  /\ markers \subseteq Nat /\ effects \subseteq Nat
  /\ aiMarkers \subseteq AIVersions
  /\ pc \in [Processes -> {"down", "core", "ai", "up"}]
  /\ applied \in [Processes -> SUBSET Nat]
  /\ archive # None => archive.markers \subseteq Nat

\* A process that is down remembers nothing, and the worker never has core.db in hand.
LocalInv ==
  \A p \in Processes :
    /\ pc[p] = "down" => applied[p] = {}
    /\ pc[p] = "core" => Role[p] # "worker"
    /\ pc[p] \in {"ai", "up"} /\ Role[p] # "worker" => Registry(p) \subseteq applied[p]

IInv == Typed /\ LocalInv /\ MarkersTellTheSchema /\ VersionsInOrder /\ UpIsMigrated

LEMMA InitIInv == Init => IInv
  <1> SUFFICES ASSUME Init PROVE IInv
    OBVIOUS
  <1> USE ReleasesAssumption, NullAssumption DEF Init
  <1>1. PICK k \in Deployed : markers = 1..k /\ effects = 1..k
    OBVIOUS
  <1>2. PICK j \in 0..3 : aiMarkers = 1..j /\ aiColumns = UNION {AIColumns[v] : v \in 1..j}
    OBVIOUS
  <1>3. Typed
    BY <1>1, <1>2 DEF Typed, AIVersions
  <1>4. LocalInv /\ UpIsMigrated
    BY DEF LocalInv, UpIsMigrated
  <1>5. MarkersTellTheSchema
    BY <1>1, <1>2 DEF MarkersTellTheSchema
  <1>6. VersionsInOrder
    BY <1>1 DEF VersionsInOrder, Prefix
  <1>7. QED
    BY <1>3, <1>4, <1>5, <1>6 DEF IInv

\* Below the version a start applies next everything is marked: the start has read it
\* or applied it.
LEMMA LowerVersionsMarked ==
  ASSUME IInv, NEW p \in Processes, NEW v \in Pending(p), InOrder(p, v)
  PROVE  v \in Nat /\ v >= 1 /\ \A u \in 1..v : u # v => u \in markers
  BY ReleasesAssumption DEF IInv, UpIsMigrated, Pending, InOrder, Registry

LEMMA ApplyKeeps ==
  ASSUME IInv, NEW p \in Processes, NEW v \in Pending(p), Apply(p, v)
  PROVE  IInv'
  <1> USE ReleasesAssumption DEF IInv, Apply, backupVars
  <1>1. v \in Nat /\ v >= 1 /\ \A u \in 1..v : u # v => u \in markers
    BY LowerVersionsMarked
  <1>2. Typed'
    BY <1>1 DEF Typed
  <1>3. LocalInv'
    BY DEF LocalInv, Typed, Registry
  <1>4. MarkersTellTheSchema'
    BY DEF MarkersTellTheSchema
  <1>5. VersionsInOrder'
    BY <1>1 DEF VersionsInOrder, Prefix, Typed
  <1>6. UpIsMigrated'
    BY DEF UpIsMigrated, Typed, Registry
  <1>7. QED
    BY <1>2, <1>3, <1>4, <1>5, <1>6

LEMMA CoreDoneKeeps ==
  ASSUME IInv, NEW p \in Processes, CoreDone(p)
  PROVE  IInv'
  <1> USE ReleasesAssumption DEF IInv, CoreDone, backupVars, fileVars
  <1>1. Typed'
    BY DEF Typed
  <1>2. Registry(p) \subseteq applied[p]
    BY DEF Pending
  <1>3. LocalInv'
    BY <1>2 DEF LocalInv, Typed, Registry
  <1>4. MarkersTellTheSchema' /\ VersionsInOrder'
    BY DEF MarkersTellTheSchema, VersionsInOrder
  <1>5. UpIsMigrated'
    BY <1>2 DEF UpIsMigrated, LocalInv, Typed, Registry
  <1>6. QED
    BY <1>1, <1>3, <1>4, <1>5

LEMMA MigrateAIKeeps ==
  ASSUME IInv, NEW p \in Processes, MigrateAI(p)
  PROVE  IInv'
  <1> USE ReleasesAssumption DEF IInv, MigrateAI, backupVars
  <1>1. Typed'
    BY DEF Typed
  <1>2. LocalInv'
    BY DEF LocalInv, Typed, Registry
  <1>3. \A v \in aiMarkers' : AIColumns[v] \subseteq aiColumns'
    <2>1. TAKE v \in aiMarkers'
    <2>2. v \in AIVersions
      BY DEF Typed
    <2>3. CASE v \in aiMarkers
      BY <2>3 DEF MarkersTellTheSchema
    <2>4. CASE v \notin aiMarkers
      BY <2>2, <2>4 DEF ColumnsOf
    <2>5. QED
      BY <2>3, <2>4
  <1>4. MarkersTellTheSchema'
    BY <1>3 DEF MarkersTellTheSchema
  <1>5. VersionsInOrder'
    BY DEF VersionsInOrder
  <1>6. UpIsMigrated'
    BY DEF UpIsMigrated, LocalInv, Typed, Registry
  <1>7. QED
    BY <1>1, <1>2, <1>4, <1>5, <1>6

\* Whatever ends a process leaves the files as its last commit did.
LEMMA EndKeeps ==
  ASSUME IInv, NEW p \in Processes, Down(p), UNCHANGED <<fileVars, archive>>
  PROVE  IInv'
  <1> USE ReleasesAssumption DEF IInv, Down, fileVars
  <1>1. Typed'
    BY DEF Typed
  <1>2. LocalInv'
    BY DEF LocalInv, Typed, Registry
  <1>3. MarkersTellTheSchema' /\ VersionsInOrder'
    BY DEF MarkersTellTheSchema, VersionsInOrder
  <1>4. UpIsMigrated'
    BY DEF UpIsMigrated, Typed, Registry
  <1>5. QED
    BY <1>1, <1>2, <1>3, <1>4

LEMMA StartKeeps ==
  ASSUME IInv, NEW p \in Processes, Start(p)
  PROVE  IInv'
  <1> USE ReleasesAssumption DEF IInv, Start, fileVars, backupVars
  <1>1. Typed'
    BY DEF Typed
  <1>2. LocalInv'
    BY DEF LocalInv, Typed, Registry
  <1>3. MarkersTellTheSchema' /\ VersionsInOrder'
    BY DEF MarkersTellTheSchema, VersionsInOrder
  <1>4. UpIsMigrated'
    BY DEF UpIsMigrated, Typed, Registry
  <1>5. QED
    BY <1>1, <1>2, <1>3, <1>4

LEMMA BackupKeeps ==
  ASSUME IInv, BackupCheck \/ BackupCopy \/ Restore
  PROVE  IInv'
  <1> USE ReleasesAssumption, NullAssumption DEF IInv, fileVars, processVars
  <1>1. CASE BackupCheck
    BY <1>1 DEF BackupCheck, Typed, LocalInv, MarkersTellTheSchema, VersionsInOrder,
                UpIsMigrated, Registry
  <1>2. CASE BackupCopy
    BY <1>2 DEF BackupCopy, Typed, LocalInv, MarkersTellTheSchema, VersionsInOrder,
                UpIsMigrated, Registry
  <1>3. CASE Restore
    BY <1>3 DEF Restore, Typed, LocalInv, MarkersTellTheSchema, VersionsInOrder,
                UpIsMigrated, Registry
  <1>4. QED
    BY <1>1, <1>2, <1>3

LEMMA NextIInv == IInv /\ [Next]_vars => IInv'
  <1> SUFFICES ASSUME IInv, [Next]_vars PROVE IInv'
    OBVIOUS
  <1>1. CASE UNCHANGED vars
    BY <1>1 DEF vars, fileVars, processVars, backupVars, IInv, Typed, LocalInv,
                MarkersTellTheSchema, VersionsInOrder, UpIsMigrated, Registry
  <1>2. ASSUME NEW p \in Processes, Start(p) PROVE IInv'
    BY <1>2, StartKeeps
  <1>3. ASSUME NEW p \in Processes, Run(p) PROVE IInv'
    <2>1. ASSUME NEW v \in Pending(p), Apply(p, v) PROVE IInv'
      BY <2>1, ApplyKeeps
    <2>2. ASSUME NEW v \in Pending(p), Collide(p, v) PROVE IInv'
      BY <2>2, EndKeeps DEF Collide, backupVars
    <2>3. CASE Finish(p)
      BY <2>3, EndKeeps DEF Finish, backupVars
    <2>4. QED
      BY <1>3, <2>1, <2>2, <2>3, CoreDoneKeeps, MigrateAIKeeps DEF Run
  <1>4. ASSUME NEW p \in Processes, Crash(p) PROVE IInv'
    BY <1>4, EndKeeps DEF Crash, LeftByCrash, backupVars, fileVars
  <1>5. QED
    BY <1>1, <1>2, <1>3, <1>4, BackupKeeps DEF Next

\* In every reachable state, of any number of releases and processes, a version of
\* core.db is marked exactly if its script has run, and ai.db has the columns its
\* markers speak of.
THEOREM MarkersTellTheSchemaHolds == Spec => []MarkersTellTheSchema
  BY InitIInv, NextIInv, PTL DEF Spec, IInv

\* However starts interleave, the marked versions are 1 to some k.
THEOREM VersionsInOrderHolds == Spec => []VersionsInOrder
  BY InitIInv, NextIInv, PTL DEF Spec, IInv

\* No process works on a file older than its release, however stale the list it read.
THEOREM UpIsMigratedHolds == Spec => []UpIsMigrated
  BY InitIInv, NextIInv, PTL DEF Spec, IInv
=============================================================================
