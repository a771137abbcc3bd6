----------------------------- MODULE Catalogue -----------------------------
(***************************************************************************)
(* The problem catalogue and the queue: ensure_problem and seed_content of *)
(* src/app/repository.py, the Outtalent import of src/app/curriculum.py,   *)
(* the starter pack of src/app/community.py, the tracker's import of       *)
(* src/scripts/import_legacy.py, which every bridge sync runs again, and   *)
(* the learner's own edits of the queue.                                   *)
(*                                                                         *)
(* The sources name problems differently: some by LeetCode id, some by     *)
(* slug alone, some by a slug that is not LeetCode's. A run of an importer *)
(* is one transaction; it is a sequence of statements taken one at a time, *)
(* and nothing else writes in between. The identity of a row is its place  *)
(* in problems: AUTOINCREMENT. A definition that precedes another of the   *)
(* same parameters, and that no action uses, is a seeded fault of it.      *)
(***************************************************************************)
EXTENDS Integers, Sequences, FiniteSets

CONSTANTS
  Slugs, Ids, Patterns,
  IdOf,        \* slug -> the LeetCode id of the problem that it is a name of, or None
  Plan,        \* what parse_roadmap reads, a sequence of references
  Outtalent,   \* the items of the artifact that are problems
  Curated,     \* LeetCode id -> skills that the artifact maps it to
  Starter,     \* the starter pack
  Trackers,    \* what the tracker may hold: [active, events]
  MaxRuns,     \* bound: runs of importers, and starts of the web process
  MaxEdits,    \* bound: edits of the queue
  None

\* How a source names a problem. Two slugs may name one problem; no slug names two, which is
\* assumed of the sources: no line of the code checks it. Only items that have an id are
\* problems of Outtalent and of the starter pack.
Reference == [id : Ids \cup {None}, slug : Slugs, pattern : Patterns \cup {None}]
Known == {r \in Reference : r.id \in {None, IdOf[r.slug]}}

ASSUME SourcesAssumption ==
  /\ None \notin Ids /\ None \notin Reference
  /\ IdOf \in [Slugs -> Ids \cup {None}]
  /\ Plan \in Seq(Known) /\ Outtalent \in Seq(Known) /\ Starter \in Seq(Known)
  /\ \A k \in DOMAIN Outtalent : Outtalent[k].id # None
  /\ \A k \in DOMAIN Starter : Starter[k].id # None
  /\ \A t \in Trackers : t.active \in Known \cup {None} /\ t.events \in Seq(Known)

VARIABLES
  problems,   \* sequence of [id, slug, pattern]
  queue,      \* problem -> [state, source, planned], for the problems that have an entry
  skills,     \* <<problem, skill>> -> provenance, for the pairs in problem_skills
  placed,     \* <<curriculum, slug>> -> problem: curriculum_items by import_key
  evidence,   \* <<reference, problem>>: what attempt_events were recorded of, and where
  assigned,   \* the problem of the active assignment, or None
  job,        \* the run in progress: [name, todo], or None
  last,       \* the name of the last run, or <<>> when the learner edited since
  runs, edits

catalogueVars == <<problems, queue, skills, placed, evidence, assigned>>
vars == <<catalogueVars, job, last, runs, edits>>

States == {"backlog", "scheduled", "learning", "blocked", "archived"}
Shelved == {"blocked", "archived"}
Entry == [state : States, source : {"study-plan", "outtalent", "active-assignment",
                                    "attempt-history", "manual"}, planned : BOOLEAN]

\* f wherever it is defined, and g elsewhere; f, but for value at key.
Over(f, g) == [x \in DOMAIN f \cup DOMAIN g |-> IF x \in DOMAIN f THEN f[x] ELSE g[x]]
Put(f, key, value) == [x \in DOMAIN f \cup {key} |-> IF x = key THEN value ELSE f[x]]

Coalesce(a, b) == IF a # None THEN a ELSE b

-----------------------------------------------------------------------------
(* ensure_problem.                                                         *)

WithId(id) == {i \in DOMAIN problems : id # None /\ problems[i].id = id}
WithSlug(slug) == {i \in DOMAIN problems : problems[i].slug = slug}

SlugFirst(r) ==
  IF WithSlug(r.slug) # {} THEN WithSlug(r.slug) ELSE WithId(r.id)

\* The canonical identity first, then the slug.
Found(r) ==
  IF WithId(r.id) # {} THEN WithId(r.id) ELSE WithSlug(r.slug)

RowOf(r) == IF Found(r) = {} THEN Len(problems) + 1 ELSE CHOOSE i \in Found(r) : TRUE

\* A row found by its id keeps its slug, and the first pattern stays.
Merged(p, r) ==
  [p EXCEPT !.id = Coalesce(p.id, r.id), !.pattern = Coalesce(p.pattern, r.pattern)]

EnsureProblem(r) ==
  problems' = IF Found(r) = {} THEN Append(problems, r)
              ELSE [problems EXCEPT ![RowOf(r)] = Merged(@, r)]

\* An upsert into queue_items: a new entry, or what becomes of the one there is.
Enqueue(i, new, updated) ==
  queue' = Put(queue, i, IF i \in DOMAIN queue THEN updated ELSE new)

NewEntry(state, source) == [state |-> state, source |-> source, planned |-> FALSE]

-----------------------------------------------------------------------------
(* The statements of a run. The priority of an entry goes with its source. *)

\* INSERT OR IGNORE: the coarse mirror of patterns as skills.
Backfilled ==
  LET classified == {i \in DOMAIN problems : problems[i].pattern # None}
      pairs == {<<i, problems[i].pattern>> : i \in classified}
  IN  Over(skills, [pair \in pairs |-> "pattern-backfill"])

\* seed_content.
Seed ==
  /\ skills' = Backfilled
  /\ UNCHANGED <<problems, queue, placed, evidence, assigned>>

\* import_legacy, a line of the study plan.
PlanEntry(r) ==
  /\ EnsureProblem(r)
  /\ Enqueue(RowOf(r), [NewEntry("backlog", "study-plan") EXCEPT !.planned = TRUE],
             [queue[RowOf(r)] EXCEPT !.source = "study-plan", !.planned = TRUE])
  /\ UNCHANGED <<skills, placed, evidence, assigned>>

\* import_legacy: every open assignment is completed, before the tracker's is inserted.
Release ==
  /\ assigned' = None
  /\ UNCHANGED <<problems, queue, skills, placed, evidence>>

Active(r) ==
  /\ EnsureProblem(r)
  /\ Enqueue(RowOf(r), NewEntry("scheduled", "active-assignment"),
             [queue[RowOf(r)] EXCEPT !.state = "scheduled"])
  /\ assigned' = RowOf(r)
  /\ UNCHANGED <<skills, placed, evidence>>

Learn(q) == [q EXCEPT !.state = "learning"]

Learnt(q) ==
  [q EXCEPT !.state = IF @ \in {"blocked", "archived", "scheduled"} THEN @ ELSE "learning"]

\* import_legacy, a line of the log. An event that is known keeps its problem. The
\* dictionary problem_ids saves lookups: a reference here is what decides the row.
Event(r) ==
  /\ EnsureProblem(r)
  /\ Enqueue(RowOf(r), NewEntry("learning", "attempt-history"), Learnt(queue[RowOf(r)]))
  /\ evidence' = IF \E e \in evidence : e[1] = r THEN evidence
                 ELSE evidence \cup {<<r, RowOf(r)>>}
  /\ UNCHANGED <<skills, placed, assigned>>

\* import_outtalent, an item. Curated skills overwrite what was there.
Item(r) ==
  /\ EnsureProblem(r)
  /\ skills' = Over([pair \in {RowOf(r)} \X Curated[r.id] |-> "curated"], skills)
  /\ Enqueue(RowOf(r), NewEntry("backlog", "outtalent"),
             [queue[RowOf(r)] EXCEPT !.source = "outtalent"])
  /\ placed' = Put(placed, <<"outtalent", r.slug>>, RowOf(r))
  /\ UNCHANGED <<evidence, assigned>>

Roadmap == {i \in DOMAIN queue : queue[i].planned \/ queue[i].source = "study-plan"}

DeepTrack ==
  [key \in {<<"deep", problems[i].slug>> : i \in Roadmap} |->
     CHOOSE i \in Roadmap : problems[i].slug = key[2]]

\* The end of import_outtalent: backfill_pattern_skills, and backfill_deep_track.
JustDeep ==
  /\ placed' = Over(DeepTrack, placed)
  /\ UNCHANGED <<problems, queue, skills, evidence, assigned>>

Converge ==
  /\ skills' = Backfilled
  /\ placed' = Over(DeepTrack, placed)
  /\ UNCHANGED <<problems, queue, evidence, assigned>>

\* bootstrap_community, a problem: no entry in the queue.
StarterProblem(r) ==
  /\ EnsureProblem(r)
  /\ skills' = Over(skills, [pair \in {<<RowOf(r), r.pattern>>} |-> "community-starter"])
  /\ placed' = Put(placed, <<"starter", r.slug>>, RowOf(r))
  /\ UNCHANGED <<queue, evidence, assigned>>

-----------------------------------------------------------------------------
(* Runs.                                                                   *)

Statements(op, references) == [i \in DOMAIN references |-> [op |-> op, of |-> references[i]]]
Bare(op) == <<[op |-> op, of |-> None]>>

LegacyRun(t) ==
  Bare("seed") \o Statements("plan", Plan) \o Bare("release")
    \o (IF t.active = None THEN <<>> ELSE Statements("active", <<t.active>>))
    \o Statements("event", t.events)
OuttalentRun == Bare("seed") \o Statements("item", Outtalent) \o Bare("converge")
StarterRun == Bare("seed") \o Statements("starter", Starter)

Jobs ==
  {[name |-> <<"legacy", t>>, todo |-> LegacyRun(t)] : t \in Trackers} \cup
  {[name |-> <<"outtalent", None>>, todo |-> OuttalentRun],
   [name |-> <<"starter", None>>, todo |-> StarterRun],
   [name |-> <<"start", None>>, todo |-> Bare("seed")]}

\* What a run in progress may be: its name, and the statements it has left.
Run ==
  [name : {"legacy", "outtalent", "starter", "start"} \X (Trackers \cup {None}),
   todo : Seq([op : {"seed", "plan", "release", "active", "event", "item", "converge",
                     "starter"},
               of : Known \cup {None}])]

ASSUME RunAssumption == None \notin Run

Begin(j) ==
  /\ job = None /\ runs < MaxRuns
  /\ job' = j /\ runs' = runs + 1
  /\ UNCHANGED <<catalogueVars, last, edits>>

Perform(s) ==
  \/ s.op = "seed" /\ Seed
  \/ s.op = "plan" /\ PlanEntry(s.of)
  \/ s.op = "release" /\ Release
  \/ s.op = "active" /\ Active(s.of)
  \/ s.op = "event" /\ Event(s.of)
  \/ s.op = "item" /\ Item(s.of)
  \/ s.op = "converge" /\ Converge
  \/ s.op = "starter" /\ StarterProblem(s.of)

Step ==
  /\ job # None /\ job.todo # <<>>
  /\ Perform(Head(job.todo))
  /\ job' = [job EXCEPT !.todo = Tail(@)]
  /\ UNCHANGED <<last, runs, edits>>

Commit ==
  /\ job # None /\ job.todo = <<>>
  /\ last' = job.name /\ job' = None
  /\ UNCHANGED <<catalogueVars, runs, edits>>

\* update_queue: ids that are no problems are skipped.
UpdateQueue(chosen, state) ==
  /\ job = None /\ edits < MaxEdits
  /\ queue' = Over([i \in chosen |-> IF i \in DOMAIN queue
                                     THEN [queue[i] EXCEPT !.state = state]
                                     ELSE NewEntry(state, "manual")], queue)
  /\ last' = <<>> /\ edits' = edits + 1
  /\ UNCHANGED <<problems, skills, placed, evidence, assigned, job, runs>>

Init ==
  /\ problems = <<>> /\ queue = <<>> /\ skills = <<>> /\ placed = <<>>
  /\ evidence = {} /\ assigned = None
  /\ job = None /\ last = <<>> /\ runs = 0 /\ edits = 0

Next ==
  \/ \E j \in Jobs : Begin(j)
  \/ Step
  \/ Commit
  \/ \E chosen \in SUBSET DOMAIN problems, state \in States \ {"learning"} :
       chosen # {} /\ UpdateQueue(chosen, state)

Spec == Init /\ [][Next]_vars

-----------------------------------------------------------------------------
(* What Today shows: _candidate_rows, daily_recommendation. The ranking is  *)
(* left open.                                                              *)

Candidates ==
  {i \in DOMAIN problems : ~(i \in DOMAIN queue /\ queue[i].state \in Shelved)}

Selected == IF assigned \in Candidates THEN {assigned} ELSE Candidates

-----------------------------------------------------------------------------
(* Properties.                                                             *)

\* Whatever is filed, is filed under a problem that exists: the foreign keys of db.py.
TypeOK ==
  /\ problems \in Seq(Known)
  /\ DOMAIN queue \subseteq DOMAIN problems
  /\ \A i \in DOMAIN queue : queue[i] \in Entry
  /\ \A pair \in DOMAIN skills : pair[1] \in DOMAIN problems
  /\ \A key \in DOMAIN placed : placed[key] \in DOMAIN problems
  /\ evidence \subseteq Known \X DOMAIN problems
  /\ assigned \in DOMAIN problems \cup {None}

\* problems.slug and problems.leetcode_id are UNIQUE: otherwise a statement would fail.
UniqueRows ==
  \A i, j \in DOMAIN problems :
    \/ problems[i].slug = problems[j].slug
    \/ problems[i].id = problems[j].id /\ problems[i].id # None
    => i = j

\* Whatever order the sources are imported in, and whatever they call a problem, what was
\* once filed stays where its name leads: the attempts recorded of a reference, and the
\* places of an item, are of the one row that the reference finds, and no row is found twice.
ReferencesKeepTheirRow ==
  /\ \A e \in evidence : Found(e[1]) = {e[2]}
  /\ \A k \in DOMAIN Outtalent :
       LET key == <<"outtalent", Outtalent[k].slug>>
       IN  key \in DOMAIN placed => Found(Outtalent[k]) = {placed[key]}
  /\ \A k \in DOMAIN Starter :
       LET key == <<"starter", Starter[k].slug>>
       IN  key \in DOMAIN placed => Found(Starter[k]) = {placed[key]}
  /\ UniqueRows

\* app/curriculum.py: "one import run fully converges": run again, no statement of an
\* importer changes a problem, an entry of the queue or a placement, and but for the
\* tracker's, whose problems are mirrored by the next run, none changes a skill; so a
\* curated skill is not overwritten, neither.
RerunChangesNothing ==
  [][(job # None /\ job.name = last) =>
       /\ UNCHANGED <<problems, queue, placed, evidence>>
       /\ job.name[1] # "legacy" => UNCHANGED skills]_vars

\* No importer brings back what the learner blocked or archived, unless the tracker has
\* just assigned it.
ShelvedStays ==
  [][\A i \in DOMAIN queue :
       (job # None /\ queue[i].state \in Shelved /\ queue'[i].state # queue[i].state) =>
         queue'[i].state = "scheduled" /\ assigned' = i]_vars

-----------------------------------------------------------------------------
(* What comments and docs say, and the code does not ensure.               *)

\* app/learning.py: "Today must point at the same work the Solve room holds".
TodayIsTheCommitment ==
  job = None /\ assigned # None => Selected = {assigned}

\* app/curriculum.py: "Outtalent placements outrank everything else in the shared queue
\* ordering".
OuttalentOutranks ==
  job = None =>
    \A key \in DOMAIN placed : key[1] = "outtalent" => queue[placed[key]].source = "outtalent"

\* docs/architecture.md: "cross-track overlap share the same problem and evidence".
OverlapIsShared ==
  \A e, f \in evidence : IdOf[e[1].slug] = IdOf[f[1].slug] /\ IdOf[e[1].slug] # None
                         => e[2] = f[2]

\* app/db.py: "every problem classified under it gets a problem_skills row".
MirrorInSync ==
  job = None => \A i \in DOMAIN problems :
    problems[i].pattern # None => <<i, problems[i].pattern>> \in DOMAIN skills
=============================================================================
