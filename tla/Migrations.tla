----------------------------- MODULE Migrations -----------------------------
(***************************************************************************)
(* How the two database files get their schema: init_db and                *)
(* apply_migrations of src/app/db.py for core.db, migrate of               *)
(* src/app/ai/ai_db.py for ai.db, and the backup and restore of            *)
(* src/scripts/community_data.py.                                          *)
(*                                                                         *)
(* The web process, an importer (src/scripts/import_legacy.py,             *)
(* import_outtalent.py) and the worker migrate when they start, from one   *)
(* release or from two, at the same time. A start reads the applied        *)
(* versions outside of any transaction and then runs one BEGIN IMMEDIATE   *)
(* transaction per pending version: script and marker commit together, or  *)
(* neither does. A process may die at any step; compose restarts it.       *)
(*                                                                         *)
(* A file is the set of versions whose marker it carries and the set whose *)
(* script has changed it. A definition that precedes another of the same   *)
(* parameters, and that no action uses, is a seeded fault of it.           *)
(***************************************************************************)
EXTENDS Integers, FiniteSets

CONSTANTS
  Processes,   \* processes that open the databases
  Role,        \* process -> "web", "importer" or "worker"
  Knows,       \* process -> LATEST_VERSION of its release
  Alters,      \* versions whose script adds a column, so cannot run twice
  Deployed,    \* versions a core.db may have reached before (0: no file)
  MaxCrashes,  \* bound: processes that die or are stopped
  MaxRestores, \* bound: archives restored
  None

ASSUME ReleasesAssumption ==
  /\ Role \in [Processes -> {"web", "importer", "worker"}]
  /\ Knows \in [Processes -> Nat]
  /\ Alters \subseteq Nat
  /\ Deployed \subseteq Nat
  /\ MaxCrashes \in Nat /\ MaxRestores \in Nat

ASSUME NullAssumption == None \notin Nat

VARIABLES
  markers,   \* versions in schema_migrations
  effects,   \* versions whose script has changed the file
  aiMarkers, aiColumns,  \* ai.db: ai_schema_migrations, and the columns later versions add
  pc,        \* process -> "down", "core", "ai" (what it migrates) or "up"
  applied,   \* process -> versions it has read, or applied since
  checked,   \* backup: schema version read for the manifest (None: no backup runs)
  archive,   \* backup file: [version, markers, effects] (None: no file)
  crashes, restores  \* counted against the bounds

fileVars == <<markers, effects, aiMarkers, aiColumns>>
processVars == <<pc, applied>>
backupVars == <<checked, archive, restores>>
vars == <<fileVars, processVars, backupVars, crashes>>

\* The registry MIGRATIONS of a release.
Registry(p) == 1..Knows[p]

\* MAX(version) of schema_migrations.
Version(m) == IF m = {} THEN 0 ELSE CHOOSE v \in m : \A u \in m : u <= v

\* The columns versions of ai.db add to the tables of AI_SCHEMA.
AIVersions == 1..3
AIColumns == [v \in AIVersions |->
  CASE v = 1 -> {}
    [] v = 2 -> {"reserved_tokens"}
    [] v = 3 -> {"claim_generation", "estimated_input_tokens"}]

Init ==
  /\ \E k \in Deployed : markers = 1..k /\ effects = 1..k
  /\ \E k \in 0..3 :
       /\ aiMarkers = 1..k
       /\ aiColumns = UNION {AIColumns[v] : v \in 1..k}
  /\ pc = [p \in Processes |-> "down"]
  /\ applied = [p \in Processes |-> {}]
  /\ checked = None /\ archive = None
  /\ crashes = 0 /\ restores = 0

-----------------------------------------------------------------------------
(* core.db.                                                                *)

\* apply_migrations refuses a file stamped by a newer release. Only the worker never
\* migrates core.db.
Unknown(p) == markers \ Registry(p)

Start(p) ==
  /\ pc[p] = "down"
  /\ \/ /\ Role[p] = "worker"
        /\ pc' = [pc EXCEPT ![p] = "ai"]
        /\ UNCHANGED applied
     \/ /\ Role[p] # "worker"
        /\ Unknown(p) = {}
        /\ pc' = [pc EXCEPT ![p] = "core"]
        /\ applied' = [applied EXCEPT ![p] = markers]
  /\ UNCHANGED <<fileVars, backupVars, crashes>>

AllVersions(p) == Registry(p)

FreshFileOnly(p) == IF applied[p] = {} THEN Registry(p) ELSE {}

Pending(p) == Registry(p) \ applied[p]

AnyOrder(p, v) == TRUE

InOrder(p, v) == \A u \in Pending(p) : v <= u

\* The script of an applied version that adds a column fails; any other script may run
\* again, and then the insert of its marker fails.
Fails(v) == v \in markers \/ (v \in Alters /\ v \in effects)

Apply(p, v) ==
  /\ pc[p] = "core"
  /\ v \in Pending(p) /\ InOrder(p, v)
  /\ ~Fails(v)
  /\ markers' = markers \cup {v}
  /\ effects' = effects \cup {v}
  /\ applied' = [applied EXCEPT ![p] = @ \cup {v}]
  /\ UNCHANGED <<aiMarkers, aiColumns, pc, backupVars, crashes>>

Down(p) ==
  /\ pc' = [pc EXCEPT ![p] = "down"]
  /\ applied' = [applied EXCEPT ![p] = {}]

\* The transaction rolls back, the exception ends the process.
Collide(p, v) ==
  /\ pc[p] = "core"
  /\ v \in Pending(p) /\ InOrder(p, v)
  /\ Fails(v)
  /\ Down(p)
  /\ UNCHANGED <<fileVars, backupVars, crashes>>

CoreDone(p) ==
  /\ pc[p] = "core"
  /\ Pending(p) = {}
  /\ pc' = [pc EXCEPT ![p] = IF Role[p] = "web" THEN "ai" ELSE "up"]
  /\ UNCHANGED <<fileVars, applied, backupVars, crashes>>

\* An importer has done its work.
Finish(p) ==
  /\ pc[p] = "up"
  /\ Role[p] = "importer"
  /\ Down(p)
  /\ UNCHANGED <<fileVars, backupVars, crashes>>

ScriptSurvives(p) == effects \cup {v \in Pending(p) : pc[p] = "core" /\ InOrder(p, v)}

\* executescript would commit the transaction it finds open, so BEGIN is part of the
\* script: a death between script and marker leaves neither.
LeftByCrash(p) == effects

\* A process is killed or stopped, or times out on a locked file.
Crash(p) ==
  /\ pc[p] # "down"
  /\ crashes < MaxCrashes
  /\ crashes' = crashes + 1
  /\ effects' = LeftByCrash(p)
  /\ Down(p)
  /\ UNCHANGED <<markers, aiMarkers, aiColumns, backupVars>>

-----------------------------------------------------------------------------
(* ai.db: every version in one transaction, each column only if missing.   *)

ColumnsOf(v) == IF v \in aiMarkers THEN {} ELSE AIColumns[v]

MigrateAI(p) ==
  /\ pc[p] = "ai"
  /\ aiColumns' = aiColumns \cup UNION {ColumnsOf(v) : v \in AIVersions}
  /\ aiMarkers' = aiMarkers \cup AIVersions
  /\ pc' = [pc EXCEPT ![p] = "up"]
  /\ UNCHANGED <<markers, effects, applied, backupVars, crashes>>

-----------------------------------------------------------------------------
(* community_data.py, for core.db. A backup runs beside the application;   *)
(* the documentation stops everything before a restore.                    *)

BackupCheck ==
  /\ checked = None
  /\ markers # {}
  /\ checked' = Version(markers)
  /\ UNCHANGED <<fileVars, processVars, archive, restores, crashes>>

BackupCopy ==
  /\ checked # None
  /\ archive' = [version |-> checked, markers |-> markers, effects |-> effects]
  /\ checked' = None
  /\ UNCHANGED <<fileVars, processVars, restores, crashes>>

Restore ==
  /\ archive # None
  /\ \A p \in Processes : pc[p] = "down"
  /\ Version(archive.markers) = archive.version
  /\ restores < MaxRestores
  /\ restores' = restores + 1
  /\ markers' = archive.markers
  /\ effects' = archive.effects
  /\ UNCHANGED <<aiMarkers, aiColumns, processVars, checked, archive, crashes>>

-----------------------------------------------------------------------------
Run(p) ==
  \/ \E v \in Pending(p) : Apply(p, v) \/ Collide(p, v)
  \/ CoreDone(p) \/ MigrateAI(p) \/ Finish(p)

Next ==
  \/ \E p \in Processes : Start(p) \/ Run(p) \/ Crash(p)
  \/ BackupCheck \/ BackupCopy \/ Restore

Spec == Init /\ [][Next]_vars

\* A process that runs gets on with it, and compose restarts the web process
\* ("unless-stopped"). Nobody restarts an importer.
Fairness ==
  /\ \A p \in Processes : WF_vars(Run(p))
  /\ \A p \in Processes : Role[p] = "web" => WF_vars(Start(p))

FairSpec == Spec /\ Fairness

-----------------------------------------------------------------------------
(* Properties.                                                             *)

Prefix(m) == \A v \in m : v >= 1 /\ 1..v \subseteq m

\* Whoever crashes, collides or is restored in between, a version is marked exactly if
\* its script has changed the file, in core.db and in every backup of it; and ai.db has
\* the columns its markers speak of. A marker without its script, or a script without
\* its marker, stops every later start for good.
MarkersTellTheSchema ==
  /\ markers = effects
  /\ archive # None => archive.markers = archive.effects
  /\ UNION {AIColumns[v] : v \in aiMarkers} \subseteq aiColumns

\* Two releases that migrate at the same time from lists they read earlier never apply
\* a version before the one below it, nor leave a gap.
VersionsInOrder == Prefix(markers) /\ (archive # None => Prefix(archive.markers))

\* What a process believes applied is applied: none works on a file older than its own
\* release, although the list it went by may have been read before others migrated.
UpIsMigrated ==
  \A p \in Processes :
    /\ applied[p] \subseteq markers
    /\ pc[p] # "down" /\ Role[p] # "worker" /\ pc[p] # "core" => Registry(p) \subseteq markers
    /\ pc[p] = "up" /\ Role[p] # "importer" => aiMarkers = AIVersions

\* Whichever start fails because another process was faster, and however many die, the
\* web process of the newest release ends up serving a migrated file.
NewestServes ==
  \A p \in Processes :
    Role[p] = "web" /\ (\A q \in Processes : Knows[q] <= Knows[p])
      /\ (\A k \in Deployed : k <= Knows[p])
    => <>[](pc[p] = "up" /\ markers = Registry(p))

-----------------------------------------------------------------------------
(* What the documentation says, and the code does not ensure.              *)

\* app/db.py: "a database stamped with a version newer than this code refuses to run
\* rather than guessing": the versions are read once, when a process starts.
NeverServesNewer ==
  \A p \in Processes : pc[p] = "up" /\ Role[p] # "worker" => Unknown(p) = {}

\* docs/community-install.md: a backup is taken while the stack runs, and a restore
\* "validates ... schema versions": a backup that finished can be restored.
BackupRestores ==
  archive # None => Version(archive.markers) = archive.version
=============================================================================
