-------------------------- MODULE Catalogue_proofs --------------------------
(***************************************************************************)
(* That what was filed stays where its name leads, for every set of        *)
(* sources: theorems of the specification Catalogue.                       *)
(***************************************************************************)
EXTENDS Catalogue, TLAPS

-----------------------------------------------------------------------------
(* The invariant.                                                          *)

\* Row i is the row of r for good: it has the id of r, or, if r has none, its slug.
Settled(r, i) ==
  /\ i \in DOMAIN problems
  /\ IF r.id # None THEN problems[i].id = r.id ELSE problems[i].slug = r.slug

PlacedWell(track, items) ==
  \A k \in DOMAIN items :
    <<track, items[k].slug>> \in DOMAIN placed =>
      Settled(items[k], placed[<<track, items[k].slug>>])

EvidenceFiled == \A e \in evidence : e[1] \in Known /\ Settled(e[1], e[2])

Statement ==
  {s \in [op : {"seed", "plan", "release", "active", "event", "item", "converge", "starter"},
          of : Known \cup {None}] :
     /\ s.op \in {"plan", "active", "event", "item", "starter"} => s.of \in Known
     /\ s.op \in {"item", "starter"} => s.of.id # None}

JobOK == job # None => job \in Run /\ job.todo \in Seq(Statement)

IInv ==
  /\ problems \in Seq(Known) /\ UniqueRows
  /\ EvidenceFiled
  /\ PlacedWell("outtalent", Outtalent) /\ PlacedWell("starter", Starter)
  /\ JobOK

-----------------------------------------------------------------------------
(* ensure_problem.                                                         *)

\* What ensure_problem leaves: the reference is settled, whatever was settled still is,
\* and no two rows share a slug or an id.
LEMMA Ensured ==
  ASSUME problems \in Seq(Known), UniqueRows, NEW r \in Known, EnsureProblem(r),
         NEW k, k = RowOf(r)
  PROVE  /\ problems' \in Seq(Known) /\ UniqueRows'
         /\ Settled(r, k)'
         /\ \A q \in Known : \A i \in DOMAIN problems : Settled(q, i) => Settled(q, i)'
  <1>1. /\ r.id = None \/ (r.id = IdOf[r.slug] /\ r.id \in Ids)
        /\ r \in Reference
        /\ \A i \in DOMAIN problems :
             /\ problems[i] \in Reference
             /\ problems[i].id = None \/ problems[i].id = IdOf[problems[i].slug]
    BY DEF Known, Reference
  <1>2. CASE Found(r) = {}
    <2> DEFINE n == Len(problems) + 1
    <2>1. /\ problems' = Append(problems, r) /\ k = n
      BY <1>2 DEF EnsureProblem, RowOf
    <2>2. /\ n \in Nat /\ DOMAIN problems = 1..(n - 1) /\ DOMAIN problems' = 1..n
          /\ problems'[n] = r
          /\ \A i \in 1..(n - 1) : problems'[i] = problems[i]
          /\ problems' \in Seq(Known)
      BY <2>1
    <2>3. \A i \in 1..(n - 1) :
            problems[i].slug # r.slug /\ (r.id # None => problems[i].id # r.id)
      BY <1>2, <2>2 DEF Found, WithId, WithSlug
    <2> HIDE DEF n
    <2> QED
      BY <2>1, <2>2, <2>3 DEF UniqueRows, Settled
  <1>3. CASE Found(r) # {}
    <2>1. k \in Found(r) /\ k \in DOMAIN problems
      BY <1>3 DEF RowOf, Found, WithId, WithSlug
    <2>2. problems' = [problems EXCEPT ![k] = Merged(@, r)]
      BY <1>3 DEF EnsureProblem
    <2>3. /\ DOMAIN problems' = DOMAIN problems
          /\ problems'[k] = Merged(problems[k], r)
          /\ \A i \in DOMAIN problems : i # k => problems'[i] = problems[i]
      BY <2>1, <2>2
    <2>4. /\ problems'[k].slug = problems[k].slug
          /\ problems'[k].id = Coalesce(problems[k].id, r.id)
          /\ problems'[k].pattern = Coalesce(problems[k].pattern, r.pattern)
          /\ problems'[k] \in Reference
      BY <1>1, <2>1, <2>3 DEF Merged, Coalesce, Reference
    <2>5. \/ /\ r.id # None /\ problems[k].id = r.id
          \/ /\ \A i \in DOMAIN problems : r.id # None => problems[i].id # r.id
             /\ problems[k].slug = r.slug /\ (r.id # None => problems[k].id = None)
      BY <1>1, <2>1 DEF Found, WithId, WithSlug
    <2>6. problems'[k] \in Known
      BY <1>1, <2>1, <2>4, <2>5 DEF Known, Coalesce
    <2>7. problems' \in Seq(Known)
      BY <2>1, <2>2, <2>3, <2>6
    <2>8. UniqueRows'
      BY <2>1, <2>3, <2>4, <2>5 DEF UniqueRows, Coalesce
    <2>9. Settled(r, k)'
      BY <1>1, <2>1, <2>3, <2>4, <2>5 DEF Settled, Coalesce
    <2>10. ASSUME NEW q \in Known, NEW i \in DOMAIN problems, Settled(q, i)
           PROVE  Settled(q, i)'
      BY <2>1, <2>3, <2>4, <2>5, <2>10 DEF Settled, Coalesce
    <2> QED BY <2>7, <2>8, <2>9, <2>10
  <1> QED BY <1>2, <1>3

\* What a statement that upserts a problem may do besides: record evidence of the row, or
\* place it as an item.
LEMMA UpsertKeeps ==
  ASSUME IInv, NEW r \in Known, EnsureProblem(r), JobOK',
         evidence' \in {evidence, evidence \cup {<<r, RowOf(r)>>}},
         \/ placed' = placed
         \/ /\ r.id # None
            /\ \E track \in {"outtalent", "starter"} :
                 placed' = Put(placed, <<track, r.slug>>, RowOf(r))
  PROVE  IInv'
  <1>0. PICK k : k = RowOf(r)
    OBVIOUS
  <1>1. /\ problems' \in Seq(Known) /\ UniqueRows'
        /\ Settled(r, k)'
        /\ \A q \in Known : \A i \in DOMAIN problems : Settled(q, i) => Settled(q, i)'
    BY <1>0, Ensured DEF IInv
  <1>2. \A q \in Known : \A i : Settled(q, i) => Settled(q, i)'
    BY <1>1 DEF Settled
  <1>3. EvidenceFiled'
    <2> SUFFICES ASSUME NEW e \in evidence'
                 PROVE  e[1] \in Known /\ Settled(e[1], e[2])'
      BY DEF EvidenceFiled
    <2>1. CASE e \in evidence
      BY <1>2, <2>1 DEF IInv, EvidenceFiled
    <2>2. CASE e = <<r, k>>
      BY <1>1, <2>2
    <2> QED BY <1>0, <2>1, <2>2
  <1>4. ASSUME NEW track \in {"outtalent", "starter"}, NEW items \in Seq(Known),
               \A n \in DOMAIN items : items[n].id # None, PlacedWell(track, items)
        PROVE  PlacedWell(track, items)'
    <2> SUFFICES ASSUME NEW n \in DOMAIN items, <<track, items[n].slug>> \in DOMAIN placed'
                 PROVE  Settled(items[n], placed[<<track, items[n].slug>>])'
      BY DEF PlacedWell
    <2> DEFINE key == <<track, items[n].slug>>
    <2>1. items[n] \in Known
      BY <1>4
    <2>2. CASE key \in DOMAIN placed /\ placed'[key] = placed[key]
      BY <1>2, <1>4, <2>1, <2>2 DEF PlacedWell
    <2>3. CASE r.id # None /\ items[n].slug = r.slug /\ placed'[key] = k
      <3>1. items[n].id = r.id
        BY <1>4, <2>1, <2>3 DEF Known
      <3>2. Settled(items[n], k)'
        BY <1>1, <2>3, <3>1 DEF Settled
      <3> QED BY <2>3, <3>2
    <2>4. CASE placed' = placed
      BY <2>2, <2>4
    <2>5. CASE /\ r.id # None
               /\ \E t \in {"outtalent", "starter"} : placed' = Put(placed, <<t, r.slug>>, k)
      <3>1. PICK t \in {"outtalent", "starter"} : placed' = Put(placed, <<t, r.slug>>, k)
        BY <2>5
      <3>2. CASE key = <<t, r.slug>>
        BY <2>3, <2>5, <3>1, <3>2 DEF Put
      <3>3. CASE key # <<t, r.slug>>
        BY <2>2, <3>1, <3>3 DEF Put
      <3> QED BY <3>2, <3>3
    <2> QED BY <1>0, <2>4, <2>5
  <1>5. PlacedWell("outtalent", Outtalent)' /\ PlacedWell("starter", Starter)'
    BY <1>4, SourcesAssumption DEF IInv
  <1> QED BY <1>1, <1>3, <1>5 DEF IInv

LEMMA SettledIsFound ==
  ASSUME problems \in Seq(Known), UniqueRows, NEW r \in Known, NEW i, Settled(r, i)
  PROVE  Found(r) = {i}
  BY DEF UniqueRows, Settled, Found, WithId, WithSlug

-----------------------------------------------------------------------------
(* Steps.                                                                  *)

\* The parts of the invariant that depend on neither queue nor skills.
LEMMA NothingFiled ==
  ASSUME IInv, UNCHANGED <<problems, evidence, placed>>, JobOK'
  PROVE  IInv'
  BY DEF IInv, EvidenceFiled, PlacedWell, Settled, UniqueRows

LEMMA ConvergeKeeps ==
  ASSUME IInv, Converge, JobOK'
  PROVE  IInv'
  <1>1. ASSUME NEW track \in {"outtalent", "starter"}, NEW items \in Seq(Known),
               PlacedWell(track, items)
        PROVE  PlacedWell(track, items)'
    <2> SUFFICES ASSUME NEW n \in DOMAIN items, <<track, items[n].slug>> \in DOMAIN placed'
                 PROVE  Settled(items[n], placed[<<track, items[n].slug>>])'
      BY DEF PlacedWell
    <2> DEFINE key == <<track, items[n].slug>>
    <2>1. key \in DOMAIN placed /\ placed'[key] = placed[key]
      BY DEF Converge, Over, DeepTrack
    <2> QED BY <1>1, <2>1 DEF PlacedWell, Settled, Converge
  <1>2. PlacedWell("outtalent", Outtalent)' /\ PlacedWell("starter", Starter)'
    BY <1>1, SourcesAssumption DEF IInv
  <1>3. UniqueRows' /\ EvidenceFiled' /\ problems' \in Seq(Known)
    BY DEF Converge, IInv, UniqueRows, EvidenceFiled, Settled
  <1> QED BY <1>2, <1>3 DEF IInv

LEMMA StatementKeeps ==
  ASSUME IInv, NEW s \in Statement, Perform(s), JobOK'
  PROVE  IInv'
  <1>1. CASE s.op = "seed" /\ Seed
    BY <1>1, NothingFiled DEF Seed
  <1>2. CASE s.op = "plan" /\ PlanEntry(s.of)
    BY <1>2, UpsertKeeps DEF Statement, PlanEntry
  <1>3. CASE s.op = "release" /\ Release
    BY <1>3, NothingFiled DEF Release
  <1>4. CASE s.op = "active" /\ Active(s.of)
    BY <1>4, UpsertKeeps DEF Statement, Active
  <1>5. CASE s.op = "event" /\ Event(s.of)
    BY <1>5, UpsertKeeps DEF Statement, Event
  <1>6. CASE s.op = "item" /\ Item(s.of)
    <2>1. s.of \in Known /\ s.of.id # None
      BY <1>6 DEF Statement
    <2>2. /\ EnsureProblem(s.of) /\ evidence' = evidence
          /\ placed' = Put(placed, <<"outtalent", s.of.slug>>, RowOf(s.of))
      BY <1>6 DEF Item
    <2> QED BY <2>1, <2>2, UpsertKeeps
  <1>7. CASE s.op = "converge" /\ Converge
    BY <1>7, ConvergeKeeps
  <1>8. CASE s.op = "starter" /\ StarterProblem(s.of)
    <2>1. s.of \in Known /\ s.of.id # None
      BY <1>8 DEF Statement
    <2>2. /\ EnsureProblem(s.of) /\ evidence' = evidence
          /\ placed' = Put(placed, <<"starter", s.of.slug>>, RowOf(s.of))
      BY <1>8 DEF StarterProblem
    <2> QED BY <2>1, <2>2, UpsertKeeps
  <1> QED BY <1>1, <1>2, <1>3, <1>4, <1>5, <1>6, <1>7, <1>8 DEF Perform

LEMMA StatementsTodo ==
  Seq(Statement) \subseteq
    Seq([op : {"seed", "plan", "release", "active", "event", "item", "converge", "starter"},
         of : Known \cup {None}])
  <1> DEFINE R == [op : {"seed", "plan", "release", "active", "event", "item", "converge",
                         "starter"},
                   of : Known \cup {None}]
  <1>1. Statement \subseteq R
    BY DEF Statement
  <1> HIDE DEF R
  <1>2. ASSUME NEW todo \in Seq(Statement) PROVE todo \in Seq(R)
    BY <1>1
  <1> QED BY <1>2 DEF R

\* Every run is made of statements.
LEMMA JobsAreStatements ==
  ASSUME NEW j \in Jobs
  PROVE  j \in Run /\ j.todo \in Seq(Statement)
  <1>1. \A op \in {"seed", "release", "converge"} : Bare(op) \in Seq(Statement)
    BY DEF Bare, Statement
  <1>2. ASSUME NEW op \in {"plan", "active", "event"}, NEW refs \in Seq(Known)
        PROVE  Statements(op, refs) \in Seq(Statement)
    <2>1. \A i \in DOMAIN refs : [op |-> op, of |-> refs[i]] \in Statement
      BY DEF Statement
    <2> QED BY <2>1 DEF Statements
  <1>3. ASSUME NEW op \in {"item", "starter"}, NEW refs \in Seq(Known),
               \A n \in DOMAIN refs : refs[n].id # None
        PROVE  Statements(op, refs) \in Seq(Statement)
    <2>1. \A i \in DOMAIN refs : [op |-> op, of |-> refs[i]] \in Statement
      BY <1>3 DEF Statement
    <2> QED BY <2>1 DEF Statements
  <1>4. ASSUME NEW t \in Trackers PROVE LegacyRun(t) \in Seq(Statement)
    <2>1. Statements("plan", Plan) \in Seq(Statement)
      BY <1>2, SourcesAssumption
    <2>2. (IF t.active = None THEN <<>> ELSE Statements("active", <<t.active>>))
            \in Seq(Statement)
      <3>1. CASE t.active = None
        BY <3>1
      <3>2. CASE t.active # None
        <4>1. <<t.active>> \in Seq(Known)
          BY <3>2, SourcesAssumption
        <4> QED BY <3>2, <4>1, <1>2
      <3> QED BY <3>1, <3>2
    <2>3. Statements("event", t.events) \in Seq(Statement)
      BY <1>2, SourcesAssumption
    <2> DEFINE active == IF t.active = None THEN <<>> ELSE Statements("active", <<t.active>>)
    <2> HIDE DEF active
    <2>4. active \in Seq(Statement)
      BY <2>2 DEF active
    <2> DEFINE S == Statement
    <2> HIDE DEF S
    <2>5. /\ Bare("seed") \in Seq(S) /\ Bare("release") \in Seq(S) /\ active \in Seq(S)
          /\ Statements("plan", Plan) \in Seq(S) /\ Statements("event", t.events) \in Seq(S)
      BY <1>1, <2>1, <2>3, <2>4 DEF S
    <2>6. (((Bare("seed") \o Statements("plan", Plan)) \o Bare("release")) \o active)
             \o Statements("event", t.events) \in Seq(S)
      BY <2>5
    <2> QED BY <2>6 DEF LegacyRun, active, S
  <1>5. OuttalentRun \in Seq(Statement)
    <2>1. Statements("item", Outtalent) \in Seq(Statement)
      BY <1>3, SourcesAssumption
    <2> QED BY <1>1, <2>1 DEF OuttalentRun
  <1>6. StarterRun \in Seq(Statement)
    <2>1. Statements("starter", Starter) \in Seq(Statement)
      BY <1>3, SourcesAssumption
    <2> QED BY <1>1, <2>1 DEF StarterRun
  <1>7. j.todo \in Seq(Statement)
    BY <1>1, <1>4, <1>5, <1>6 DEF Jobs
  <1>8. /\ j = [name |-> j.name, todo |-> j.todo]
        /\ j.name \in {"legacy", "outtalent", "starter", "start"} \X (Trackers \cup {None})
    BY DEF Jobs
  <1>9. j \in Run
    BY <1>7, <1>8, StatementsTodo DEF Run
  <1> QED BY <1>7, <1>9

LEMMA RunTaken ==
  ASSUME job \in Run, job.todo \in Seq(Statement), job.todo # <<>>,
         job' = [job EXCEPT !.todo = Tail(@)]
  PROVE  job' \in Run /\ job'.name = job.name /\ job'.todo = Tail(job.todo)
  <1>1. Tail(job.todo) \in Seq(Statement)
    OBVIOUS
  <1> QED BY <1>1, StatementsTodo DEF Run

LEMMA InitIInv == Init => IInv /\ TypeOK
  BY DEF Init, IInv, UniqueRows, EvidenceFiled, PlacedWell, JobOK, TypeOK

LEMMA RunKeeps == IInv /\ [Next]_vars => IInv'
  <1> SUFFICES ASSUME IInv, [Next]_vars PROVE IInv'
    OBVIOUS
  <1>1. ASSUME NEW j \in Jobs, Begin(j) PROVE IInv'
    BY <1>1, JobsAreStatements, NothingFiled DEF Begin, catalogueVars, JobOK
  <1>2. CASE Step
    <2>1. job.todo \in Seq(Statement) /\ job.todo # <<>>
      BY <1>2 DEF Step, IInv, JobOK
    <2>2. Head(job.todo) \in Statement /\ Tail(job.todo) \in Seq(Statement)
      BY <2>1
    <2>3. job \in Run /\ job' = [job EXCEPT !.todo = Tail(@)]
      BY <1>2 DEF Step, IInv, JobOK
    <2>4. job' \in Run /\ job'.todo = Tail(job.todo)
      BY <2>1, <2>3, RunTaken
    <2>5. JobOK' /\ Perform(Head(job.todo))
      BY <1>2, <2>2, <2>4 DEF Step, JobOK
    <2> QED BY <2>2, <2>5, StatementKeeps
  <1>3. CASE Commit
    BY <1>3, NothingFiled DEF Commit, catalogueVars, JobOK
  <1>4. ASSUME NEW chosen \in SUBSET DOMAIN problems, NEW state \in States \ {"learning"},
               UpdateQueue(chosen, state)
        PROVE  IInv'
    BY <1>4, NothingFiled DEF UpdateQueue, IInv, JobOK
  <1>5. CASE UNCHANGED vars
    BY <1>5, NothingFiled DEF vars, catalogueVars, IInv, JobOK
  <1> QED BY <1>1, <1>2, <1>3, <1>4, <1>5 DEF Next

-----------------------------------------------------------------------------
(* Types. Every problem that anything speaks of has a row.                 *)

LEMMA EnqueueKeeps ==
  ASSUME TypeOK, NEW r \in Known, EnsureProblem(r)
  PROVE  /\ DOMAIN problems \subseteq DOMAIN problems' /\ RowOf(r) \in DOMAIN problems'
         /\ \A i \in DOMAIN problems : problems'[i].slug = problems[i].slug
  <1>1. CASE Found(r) = {}
    <2>1. problems' = Append(problems, r) /\ RowOf(r) = Len(problems) + 1
      BY <1>1 DEF EnsureProblem, RowOf
    <2> QED BY <2>1 DEF TypeOK
  <1>2. CASE Found(r) # {}
    <2>1. RowOf(r) \in DOMAIN problems
      BY <1>2 DEF RowOf, Found, WithId, WithSlug
    <2>2. problems' = [problems EXCEPT ![RowOf(r)] = Merged(@, r)]
      BY <1>2 DEF EnsureProblem
    <2>3. Merged(problems[RowOf(r)], r).slug = problems[RowOf(r)].slug
      BY <2>1 DEF Merged, TypeOK, Known, Reference
    <2> QED BY <2>1, <2>2, <2>3
  <1> QED BY <1>1, <1>2

\* What an upsert writes is of the row that it returns.
LEMMA UpsertTypes ==
  ASSUME TypeOK, NEW r \in Known, EnsureProblem(r), problems' \in Seq(Known),
         \/ queue' = queue
         \/ \E q \in Entry : queue' = Put(queue, RowOf(r), q),
         \A pair \in DOMAIN skills' : pair \in DOMAIN skills \/ pair[1] = RowOf(r),
         \/ placed' = placed
         \/ \E key : placed' = Put(placed, key, RowOf(r)),
         evidence' \subseteq evidence \cup {<<r, RowOf(r)>>},
         assigned' \in {assigned, RowOf(r)}
  PROVE  TypeOK'
  <1>1. PICK k : k = RowOf(r)
    OBVIOUS
  <1>2. DOMAIN problems \subseteq DOMAIN problems' /\ k \in DOMAIN problems'
    BY <1>1, EnqueueKeeps
  <1>3. DOMAIN queue' \subseteq DOMAIN problems' /\ \A i \in DOMAIN queue' : queue'[i] \in Entry
    <2>1. CASE queue' = queue
      BY <1>2, <2>1 DEF TypeOK
    <2>2. CASE \E q \in Entry : queue' = Put(queue, k, q)
      BY <1>2, <2>2 DEF TypeOK, Put
    <2> QED BY <1>1, <2>1, <2>2
  <1>4. \A pair \in DOMAIN skills' : pair[1] \in DOMAIN problems'
    BY <1>1, <1>2 DEF TypeOK
  <1>5. \A key \in DOMAIN placed' : placed'[key] \in DOMAIN problems'
    <2>1. CASE placed' = placed
      BY <1>2, <2>1 DEF TypeOK
    <2>2. CASE \E key : placed' = Put(placed, key, k)
      BY <1>2, <2>2 DEF TypeOK, Put
    <2> QED BY <1>1, <2>1, <2>2
  <1>6. evidence' \subseteq Known \X DOMAIN problems'
    BY <1>1, <1>2 DEF TypeOK
  <1>7. assigned' \in DOMAIN problems' \cup {None}
    BY <1>1, <1>2 DEF TypeOK
  <1> QED BY <1>3, <1>4, <1>5, <1>6, <1>7 DEF TypeOK

\* The entries that a statement writes, and what becomes of an entry that was there.
LEMMA EntriesWritten ==
  /\ \A state \in States : \A source \in {"study-plan", "outtalent", "active-assignment",
                                          "attempt-history", "manual"} :
       NewEntry(state, source) \in Entry
  /\ \A q \in Entry :
       /\ Learnt(q) \in Entry
       /\ q.state \in Shelved => Learnt(q).state = q.state
       /\ [q EXCEPT !.source = "study-plan", !.planned = TRUE] \in Entry
       /\ [q EXCEPT !.state = "scheduled"] \in Entry
       /\ [q EXCEPT !.source = "outtalent"] \in Entry
       /\ \A state \in States : [q EXCEPT !.state = state] \in Entry
  BY DEF NewEntry, Entry, Learnt, Shelved, States

LEMMA PlanTypes ==
  ASSUME TypeOK, problems' \in Seq(Known), NEW r \in Known, PlanEntry(r)
  PROVE  TypeOK'
  <1> DEFINE new == [NewEntry("backlog", "study-plan") EXCEPT !.planned = TRUE]
  <1> DEFINE q == IF RowOf(r) \in DOMAIN queue
                  THEN [queue[RowOf(r)] EXCEPT !.source = "study-plan", !.planned = TRUE]
                  ELSE new
  <1>1. new \in Entry
    BY DEF NewEntry, Entry, States
  <1>2. q \in Entry
    BY <1>1, EntriesWritten DEF TypeOK
  <1>3. queue' = Put(queue, RowOf(r), q)
    BY DEF PlanEntry, Enqueue
  <1> HIDE DEF q
  <1> QED BY <1>2, <1>3, UpsertTypes DEF PlanEntry

LEMMA ActiveTypes ==
  ASSUME TypeOK, problems' \in Seq(Known), NEW r \in Known, Active(r)
  PROVE  TypeOK'
  <1> DEFINE q == IF RowOf(r) \in DOMAIN queue
                  THEN [queue[RowOf(r)] EXCEPT !.state = "scheduled"]
                  ELSE NewEntry("scheduled", "active-assignment")
  <1>1. q \in Entry
    BY EntriesWritten DEF TypeOK, States
  <1>2. queue' = Put(queue, RowOf(r), q)
    BY DEF Active, Enqueue
  <1> HIDE DEF q
  <1> QED BY <1>1, <1>2, UpsertTypes DEF Active

LEMMA EventTypes ==
  ASSUME TypeOK, problems' \in Seq(Known), NEW r \in Known, Event(r)
  PROVE  TypeOK'
  <1> DEFINE q == IF RowOf(r) \in DOMAIN queue THEN Learnt(queue[RowOf(r)])
                  ELSE NewEntry("learning", "attempt-history")
  <1>1. q \in Entry
    BY EntriesWritten DEF TypeOK, States
  <1>2. queue' = Put(queue, RowOf(r), q)
    BY DEF Event, Enqueue
  <1>3. evidence' \subseteq evidence \cup {<<r, RowOf(r)>>}
    BY DEF Event
  <1> HIDE DEF q
  <1> QED BY <1>1, <1>2, <1>3, UpsertTypes DEF Event

LEMMA ItemTypes ==
  ASSUME TypeOK, problems' \in Seq(Known), NEW r \in Known, Item(r)
  PROVE  TypeOK'
  <1> DEFINE q == IF RowOf(r) \in DOMAIN queue
                  THEN [queue[RowOf(r)] EXCEPT !.source = "outtalent"]
                  ELSE NewEntry("backlog", "outtalent")
  <1>1. q \in Entry
    BY EntriesWritten DEF TypeOK, States
  <1>2. queue' = Put(queue, RowOf(r), q)
    BY DEF Item, Enqueue
  <1>3. \A pair \in DOMAIN skills' : pair \in DOMAIN skills \/ pair[1] = RowOf(r)
    BY DEF Item, Over
  <1>4. \E key : placed' = Put(placed, key, RowOf(r))
    BY DEF Item
  <1> HIDE DEF q
  <1> QED BY <1>1, <1>2, <1>3, <1>4, UpsertTypes DEF Item

LEMMA StarterTypes ==
  ASSUME TypeOK, problems' \in Seq(Known), NEW r \in Known, StarterProblem(r)
  PROVE  TypeOK'
  <1>1. \A pair \in DOMAIN skills' : pair \in DOMAIN skills \/ pair[1] = RowOf(r)
    BY DEF StarterProblem, Over
  <1>2. \E key : placed' = Put(placed, key, RowOf(r))
    BY DEF StarterProblem
  <1> QED BY <1>1, <1>2, UpsertTypes DEF StarterProblem

LEMMA MirrorTypes ==
  ASSUME TypeOK
  PROVE  /\ \A pair \in DOMAIN Backfilled : pair[1] \in DOMAIN problems
         /\ \A key \in DOMAIN Over(DeepTrack, placed) :
              Over(DeepTrack, placed)[key] \in DOMAIN problems
  <1>1. \A key \in DOMAIN DeepTrack : DeepTrack[key] \in DOMAIN problems
    BY DEF DeepTrack, Roadmap, TypeOK
  <1>2. \A pair \in DOMAIN Backfilled : pair[1] \in DOMAIN problems
    BY DEF Backfilled, Over, TypeOK
  <1> QED BY <1>1, <1>2 DEF Over, TypeOK

LEMMA TypesKept ==
  ASSUME TypeOK, IInv, IInv', [Next]_vars
  PROVE  TypeOK'
  <1>1. problems' \in Seq(Known)
    BY DEF IInv
  <1>2. CASE Step
    <2>1. PICK s \in Statement : Perform(s)
      BY <1>2 DEF Step, IInv, JobOK
    <2>2. CASE s.op = "seed" /\ Seed
      BY <2>2, MirrorTypes DEF Seed, TypeOK
    <2>3. CASE s.op = "plan" /\ PlanEntry(s.of)
      BY <1>1, <2>3, PlanTypes DEF Statement
    <2>4. CASE s.op = "release" /\ Release
      BY <2>4 DEF Release, TypeOK
    <2>5. CASE s.op = "active" /\ Active(s.of)
      BY <1>1, <2>5, ActiveTypes DEF Statement
    <2>6. CASE s.op = "event" /\ Event(s.of)
      BY <1>1, <2>6, EventTypes DEF Statement
    <2>7. CASE s.op = "item" /\ Item(s.of)
      BY <1>1, <2>7, ItemTypes DEF Statement
    <2>8. CASE s.op = "converge" /\ Converge
      BY <2>8, MirrorTypes DEF Converge, TypeOK
    <2>9. CASE s.op = "starter" /\ StarterProblem(s.of)
      BY <1>1, <2>9, StarterTypes DEF Statement
    <2> QED BY <2>1, <2>2, <2>3, <2>4, <2>5, <2>6, <2>7, <2>8, <2>9 DEF Perform
  <1>3. ASSUME NEW chosen \in SUBSET DOMAIN problems, NEW state \in States \ {"learning"},
               UpdateQueue(chosen, state)
        PROVE  TypeOK'
    <2>1. /\ DOMAIN queue' \subseteq DOMAIN problems
          /\ \A i \in DOMAIN queue' : queue'[i] \in Entry
      BY <1>3, EntriesWritten DEF UpdateQueue, Over, TypeOK
    <2> QED BY <1>3, <2>1 DEF UpdateQueue, TypeOK
  <1>4. CASE UNCHANGED catalogueVars
    BY <1>4 DEF catalogueVars, TypeOK
  <1> QED BY <1>2, <1>3, <1>4 DEF Next, Begin, Commit, vars

LEMMA Inductive == Spec => [](IInv /\ TypeOK)
  <1>1. IInv /\ TypeOK /\ [Next]_vars => (IInv /\ TypeOK)'
    BY RunKeeps, TypesKept
  <1> QED BY <1>1, InitIInv, PTL DEF Spec

-----------------------------------------------------------------------------
\* Whatever is queued, mapped, placed, recorded or assigned is a problem that has a row.
THEOREM TypeCorrect == Spec => []TypeOK
  BY Inductive, PTL

\* However the sources name problems, and in whatever order they are imported again and
\* again: what was filed under a reference is of the one row that the reference finds.
THEOREM ReferencesKeepTheirRowHolds == Spec => []ReferencesKeepTheirRow
  <1>1. IInv => ReferencesKeepTheirRow
    <2> SUFFICES ASSUME IInv PROVE ReferencesKeepTheirRow
      OBVIOUS
    <2>1. \A e \in evidence : Found(e[1]) = {e[2]}
      BY SettledIsFound DEF IInv, EvidenceFiled
    <2>2. ASSUME NEW track, NEW items \in Seq(Known), PlacedWell(track, items),
                 NEW k \in DOMAIN items, <<track, items[k].slug>> \in DOMAIN placed
          PROVE  Found(items[k]) = {placed[<<track, items[k].slug>>]}
      <3>1. items[k] \in Known
        BY <2>2
      <3> QED BY <2>2, <3>1, SettledIsFound DEF IInv, PlacedWell
    <2> QED BY <2>1, <2>2, SourcesAssumption DEF ReferencesKeepTheirRow, IInv
  <1> QED BY <1>1, Inductive, PTL

\* No importer unshelves a problem, except by assigning it.
THEOREM ShelvedStaysHolds == Spec => ShelvedStays
  <1> DEFINE Stays == \A i \in DOMAIN queue :
                        (job # None /\ queue[i].state \in Shelved
                           /\ queue'[i].state # queue[i].state) =>
                          queue'[i].state = "scheduled" /\ assigned' = i
  <1>1. IInv /\ TypeOK /\ [Next]_vars => [Stays]_vars
    <2> SUFFICES ASSUME IInv, TypeOK, [Next]_vars, job # None,
                        NEW i \in DOMAIN queue, queue[i].state \in Shelved,
                        queue'[i].state # queue[i].state
                 PROVE  queue'[i].state = "scheduled" /\ assigned' = i
      OBVIOUS
    <2>1. queue[i] \in Entry
      BY DEF TypeOK
    <2>2. Step
      BY DEF Next, Begin, Commit, UpdateQueue, catalogueVars, vars
    <2>3. PICK s \in Statement : Perform(s)
      BY <2>2 DEF Step, IInv, JobOK
    <2>4. queue' # queue
      OBVIOUS
    <2>5. CASE PlanEntry(s.of)
      BY <2>1, <2>5 DEF PlanEntry, Enqueue, Put, Entry
    <2>6. CASE Active(s.of)
      <3>1. i = RowOf(s.of) /\ queue'[i] = [queue[i] EXCEPT !.state = "scheduled"]
        BY <2>6 DEF Active, Enqueue, Put
      <3> QED BY <2>1, <2>6, <3>1 DEF Active, Entry
    <2>7. CASE Event(s.of)
      BY <2>1, <2>7, EntriesWritten DEF Event, Enqueue, Put
    <2>8. CASE Item(s.of)
      BY <2>1, <2>8 DEF Item, Enqueue, Put, Entry
    <2> QED
      BY <2>3, <2>4, <2>5, <2>6, <2>7, <2>8
         DEF Perform, Seed, Release, Converge, StarterProblem
  <1> QED BY <1>1, Inductive, PTL DEF Spec, ShelvedStays
-----------------------------------------------------------------------------
(* A run that is repeated. What a statement leaves behind is enough for it  *)
(* to change nothing the next time, and no statement of its run undoes it.  *)

IsFcn(f) == f = [x \in DOMAIN f |-> f[x]]

Fcns == IsFcn(queue) /\ IsFcn(skills) /\ IsFcn(placed)

\* Row i is the row of r, and has all that ensure_problem would give it.
Kept(r, i) == Settled(r, i) /\ (r.pattern # None => problems[i].pattern # None)

\* What a statement on row i wrote besides.
Marked(s, i) ==
  \/ /\ s.op = "plan" /\ i \in DOMAIN queue
     /\ queue[i].source = "study-plan" /\ queue[i].planned = TRUE
  \/ s.op = "active" /\ i \in DOMAIN queue /\ queue[i].state = "scheduled"
  \/ /\ s.op = "event" /\ i \in DOMAIN queue
     /\ queue[i].state \in {"learning", "blocked", "archived", "scheduled"}
     /\ \E e \in evidence : e[1] = s.of
  \/ /\ s.op = "item" /\ i \in DOMAIN queue /\ queue[i].source = "outtalent"
     /\ \A skill \in Curated[s.of.id] :
          <<i, skill>> \in DOMAIN skills /\ skills[<<i, skill>>] = "curated"
     /\ <<"outtalent", s.of.slug>> \in DOMAIN placed /\ placed[<<"outtalent", s.of.slug>>] = i
  \/ /\ s.op = "starter" /\ <<i, s.of.pattern>> \in DOMAIN skills
     /\ <<"starter", s.of.slug>> \in DOMAIN placed /\ placed[<<"starter", s.of.slug>>] = i

Upserts == {"plan", "active", "event", "item", "starter"}

Filed(s) == \E i \in DOMAIN problems : Kept(s.of, i) /\ Marked(s, i)

\* What backfill_pattern_skills and backfill_deep_track would insert is there.
Mirrored ==
  \A i \in DOMAIN problems :
    problems[i].pattern # None => <<i, problems[i].pattern>> \in DOMAIN skills

DeepDone ==
  \A i \in Roadmap :
    LET key == <<"deep", problems[i].slug>>
    IN  key \in DOMAIN placed /\ placed[key] = i

Of(todo) == {todo[n] : n \in DOMAIN todo}
Writes(j) == {s \in Of(j.todo) : s.op \in Upserts}

\* What the run in progress has behind it.
InProgress ==
  job # None =>
    \E j \in Jobs :
      /\ j.name = job.name
      /\ Of(job.todo) \subseteq Of(j.todo)
      /\ \A s \in Writes(j) : s \in Of(job.todo) \/ Filed(s)
      /\ job.name[1] \in {"starter", "start"} =>
           (\E s \in Of(job.todo) : s.op = "seed") \/ Mirrored
      /\ job.name[1] = "outtalent" =>
           IF job.todo = <<>> THEN Mirrored /\ DeepDone
           ELSE job.todo[Len(job.todo)].op = "converge"

\* A run that is complete.
Finished(j) ==
  /\ \A s \in Writes(j) : Filed(s)
  /\ j.name[1] # "legacy" => Mirrored
  /\ j.name[1] = "outtalent" => DeepDone

Repeatable ==
  (job = None \/ job.name = last) => \A j \in Jobs : j.name = last => Finished(j)

-----------------------------------------------------------------------------
(* Writes that write nothing.                                              *)

LEMMA PutIdle ==
  ASSUME NEW f, IsFcn(f), NEW key \in DOMAIN f
  PROVE  Put(f, key, f[key]) = f
  BY DEF IsFcn, Put

LEMMA OverIdle ==
  ASSUME NEW f, IsFcn(f), NEW g, DOMAIN g \subseteq DOMAIN f
  PROVE  Over(f, g) = f
  BY DEF IsFcn, Over

LEMMA OverAgrees ==
  ASSUME NEW f, NEW g, IsFcn(g),
         \A x \in DOMAIN f : x \in DOMAIN g /\ f[x] = g[x]
  PROVE  Over(f, g) = g
  BY DEF IsFcn, Over

LEMMA FcnsMade ==
  /\ \A f, key, value : IsFcn(Put(f, key, value))
  /\ \A f, g : IsFcn(Over(f, g))
  BY DEF IsFcn, Over, Put

LEMMA FcnsNext == Fcns /\ [Next]_vars => Fcns'
  <1> SUFFICES ASSUME Fcns, [Next]_vars PROVE Fcns'
    OBVIOUS
  <1>1. CASE Step
    <2>1. PICK s : Perform(s)
      BY <1>1 DEF Step
    <2>2. queue' = queue \/ IsFcn(queue')
      BY <2>1, FcnsMade DEF Perform, Seed, PlanEntry, Release, Active, Event, Item, Converge,
                            StarterProblem, Enqueue
    <2>3. skills' = skills \/ IsFcn(skills')
      BY <2>1, FcnsMade DEF Perform, Seed, PlanEntry, Release, Active, Event, Item, Converge,
                            StarterProblem, Backfilled
    <2>4. placed' = placed \/ IsFcn(placed')
      BY <2>1, FcnsMade DEF Perform, Seed, PlanEntry, Release, Active, Event, Item, Converge,
                            StarterProblem
    <2> QED BY <2>2, <2>3, <2>4 DEF Fcns, IsFcn
  <1>2. ASSUME NEW chosen, NEW state, UpdateQueue(chosen, state) PROVE Fcns'
    <2>1. IsFcn(queue')
      BY <1>2, FcnsMade DEF UpdateQueue
    <2> QED BY <1>2, <2>1 DEF UpdateQueue, Fcns, IsFcn
  <1>3. CASE UNCHANGED <<queue, skills, placed>>
    BY <1>3 DEF Fcns, IsFcn
  <1> QED BY <1>1, <1>2, <1>3 DEF Next, Begin, Commit, vars, catalogueVars

LEMMA Idle ==
  ASSUME IInv, NEW r \in Known, NEW i, Kept(r, i), EnsureProblem(r)
  PROVE  problems' = problems /\ RowOf(r) = i
  <1>1. Found(r) = {i}
    BY SettledIsFound DEF Kept, IInv
  <1>2. RowOf(r) = i /\ i \in DOMAIN problems
    BY <1>1 DEF RowOf, Kept, Settled
  <1>3. problems[i] \in Reference /\ r \in Reference
    BY <1>2 DEF IInv, Known
  <1>4. Coalesce(problems[i].id, r.id) = problems[i].id
    BY <1>3 DEF Kept, Settled, Coalesce
  <1>5. Coalesce(problems[i].pattern, r.pattern) = problems[i].pattern
    BY <1>3 DEF Kept, Coalesce
  <1>6. Merged(problems[i], r) = problems[i]
    BY <1>3, <1>4, <1>5 DEF Merged, Reference
  <1>7. problems' = [problems EXCEPT ![i] = problems[i]]
    BY <1>1, <1>2, <1>6 DEF EnsureProblem
  <1> QED BY <1>2, <1>7 DEF IInv

\* ensure_problem gives the row all that it has to give, and takes nothing from a row.
LEMMA KeptMade ==
  ASSUME IInv, NEW r \in Known, EnsureProblem(r), NEW k, k = RowOf(r)
  PROVE  /\ Kept(r, k)'
         /\ \A q \in Known : \A i \in DOMAIN problems : Kept(q, i) => Kept(q, i)'
         /\ DOMAIN problems \subseteq DOMAIN problems' /\ k \in DOMAIN problems'
         /\ \A i \in DOMAIN problems' : i # k => /\ i \in DOMAIN problems
                                                 /\ problems'[i] = problems[i]
         /\ problems'[k].pattern # None =>
              \/ problems'[k].pattern = r.pattern
              \/ k \in DOMAIN problems /\ problems[k].pattern = problems'[k].pattern
  <1>1. /\ Settled(r, k)'
        /\ \A q \in Known : \A i \in DOMAIN problems : Settled(q, i) => Settled(q, i)'
    BY Ensured DEF IInv
  <1>2. problems \in Seq(Known) /\ r \in Reference
    BY DEF IInv, Known
  <1>3. CASE Found(r) = {}
    <2>1. problems' = Append(problems, r) /\ k = Len(problems) + 1
      BY <1>3 DEF EnsureProblem, RowOf
    <2>2. /\ DOMAIN problems = 1..Len(problems) /\ DOMAIN problems' = 1..(Len(problems) + 1)
          /\ Len(problems) \in Nat /\ problems'[k] = r
          /\ \A i \in DOMAIN problems : problems'[i] = problems[i]
      BY <1>2, <2>1
    <2>3. Kept(r, k)'
      BY <1>1, <2>2 DEF Kept
    <2>4. \A q \in Known : \A i \in DOMAIN problems : Kept(q, i) => Kept(q, i)'
      BY <1>1, <2>2 DEF Kept
    <2> QED BY <2>1, <2>2, <2>3, <2>4
  <1>4. CASE Found(r) # {}
    <2>1. k \in DOMAIN problems /\ problems' = [problems EXCEPT ![k] = Merged(@, r)]
      BY <1>4 DEF RowOf, Found, WithId, WithSlug, EnsureProblem
    <2>2. /\ DOMAIN problems' = DOMAIN problems
          /\ problems'[k] = Merged(problems[k], r)
          /\ \A i \in DOMAIN problems : i # k => problems'[i] = problems[i]
      BY <2>1
    <2>3. problems[k] \in Reference
      BY <1>2, <2>1 DEF Known
    <2>4. problems'[k].pattern = Coalesce(problems[k].pattern, r.pattern)
      BY <2>2, <2>3 DEF Merged, Reference
    <2>5. Kept(r, k)'
      BY <1>1, <2>4 DEF Kept, Coalesce
    <2>6. \A q \in Known : \A i \in DOMAIN problems : Kept(q, i) => Kept(q, i)'
      BY <1>1, <2>2, <2>4 DEF Kept, Coalesce
    <2> QED BY <2>1, <2>2, <2>4, <2>5, <2>6 DEF Coalesce
  <1> QED BY <1>3, <1>4

-----------------------------------------------------------------------------
(* A run's statements do not undo one another.                             *)

\* The statements of the tracker's import. An entry that is there keeps what marks it.
LEMMA LegacyFiles ==
  ASSUME IInv, IInv', TypeOK, NEW s \in Statement, Perform(s),
         s.op \in {"seed", "plan", "release", "active", "event"}
  PROVE  /\ s.op \in Upserts => Filed(s)'
         /\ \A u \in Statement :
              u.op \in {"plan", "active", "event"} /\ Filed(u) => Filed(u)'
  <1>1. CASE s.op \in {"seed", "release"}
    <2>1. UNCHANGED <<problems, queue, placed, evidence>>
      BY <1>1 DEF Perform, Seed, Release
    <2>2. \A u \in Statement : u.op \in {"plan", "active", "event"} /\ Filed(u) => Filed(u)'
      BY <2>1 DEF Filed, Kept, Settled, Marked
    <2>3. s.op \notin Upserts
      BY <1>1 DEF Upserts
    <2> QED BY <2>2, <2>3
  <1>2. CASE s.op \in {"plan", "active", "event"}
    <2>1. PICK k : k = RowOf(s.of)
      OBVIOUS
    <2>2. s.of \in Known /\ EnsureProblem(s.of)
      <3>1. s.of \in Known
        BY <1>2 DEF Statement
      <3> QED BY <1>2, <3>1 DEF Perform, PlanEntry, Active, Event
    <2>3. /\ Kept(s.of, k)' /\ k \in DOMAIN problems'
          /\ \A q \in Known : \A i \in DOMAIN problems : Kept(q, i) => Kept(q, i)'
          /\ DOMAIN problems \subseteq DOMAIN problems'
      BY <2>1, <2>2, KeptMade
    <2>4. /\ DOMAIN queue' = DOMAIN queue \cup {k}
          /\ \A i \in DOMAIN queue : i # k => queue'[i] = queue[i]
      BY <1>2, <2>1 DEF Perform, PlanEntry, Active, Event, Enqueue, Put
    <2>5. \A i \in DOMAIN queue : queue[i] \in Entry
      BY DEF TypeOK
    <2>6. Marked(s, k)'
      <3>1. CASE s.op = "plan"
        <4>1. PlanEntry(s.of)
          BY <3>1 DEF Perform
        <4>2. queue'[k].source = "study-plan" /\ queue'[k].planned = TRUE
          BY <2>1, <2>5, <4>1 DEF PlanEntry, Enqueue, Put, NewEntry, Entry
        <4> QED BY <2>4, <3>1, <4>2 DEF Marked
      <3>2. CASE s.op = "active"
        BY <2>1, <2>5, <3>2 DEF Perform, Active, Enqueue, Put, Marked, NewEntry, Entry
      <3>3. CASE s.op = "event"
        <4> Event(s.of)
          BY <3>3 DEF Perform
        <4> DEFINE filed == <<s.of, k>>
        <4>1. queue'[k].state \in {"learning", "blocked", "archived", "scheduled"}
          BY <2>1, <2>5, <3>3 DEF Event, Enqueue, Put, NewEntry, Entry, Learnt, States
        <4>2. \E e \in evidence' : e[1] = s.of
          <5>1. (\E e \in evidence : e[1] = s.of) \/ filed \in evidence'
            BY <2>1 DEF Event
          <5>2. evidence \subseteq evidence' /\ filed[1] = s.of
            BY DEF Event
          <5> QED BY <5>1, <5>2
        <4> QED BY <2>4, <3>3, <4>1, <4>2 DEF Marked
      <3> QED BY <1>2, <3>1, <3>2, <3>3
    <2>7. evidence \subseteq evidence'
      BY <1>2 DEF Perform, PlanEntry, Active, Event
    <2>8. k \in DOMAIN queue =>
            /\ queue[k].source = "study-plan" => queue'[k].source = "study-plan"
            /\ queue[k].planned = TRUE => queue'[k].planned = TRUE
            /\ queue[k].state = "scheduled" => queue'[k].state = "scheduled"
            /\ queue[k].state \in {"learning", "blocked", "archived", "scheduled"} =>
                 queue'[k].state \in {"learning", "blocked", "archived", "scheduled"}
      <3>1. CASE s.op = "plan"
        BY <2>1, <2>5, <3>1 DEF Perform, PlanEntry, Enqueue, Put, Entry
      <3>2. CASE s.op = "active"
        BY <2>1, <2>5, <3>2 DEF Perform, Active, Enqueue, Put, Entry
      <3>3. CASE s.op = "event"
        BY <2>1, <2>5, <3>3 DEF Perform, Event, Enqueue, Put, Entry, Learnt
      <3> QED BY <1>2, <3>1, <3>2, <3>3
    <2>9. ASSUME NEW u \in Statement, u.op \in {"plan", "active", "event"},
                 NEW i \in DOMAIN problems, Kept(u.of, i), Marked(u, i)
          PROVE  Filed(u)'
      <3>1. Kept(u.of, i)' /\ i \in DOMAIN problems'
        BY <2>3, <2>9 DEF Statement
      <3>2. Marked(u, i)'
        <4>1. CASE u.op = "plan"
          BY <2>4, <2>8, <2>9, <4>1 DEF Marked
        <4>2. CASE u.op = "active"
          BY <2>4, <2>8, <2>9, <4>2 DEF Marked
        <4>3. CASE u.op = "event"
          BY <2>4, <2>7, <2>8, <2>9, <4>3 DEF Marked
        <4> QED BY <2>9, <4>1, <4>2, <4>3
      <3> QED BY <3>1, <3>2 DEF Filed
    <2>10. Filed(s)'
      BY <2>3, <2>6 DEF Filed
    <2> QED BY <2>9, <2>10 DEF Filed
  <1> QED BY <1>1, <1>2

\* Two items of one slug are one problem, and so of one row: after a step.
LEMMA OneRowNext ==
  ASSUME UniqueRows', NEW q \in Known, NEW r \in Known, q.id # None, r.id # None,
         q.slug = r.slug, NEW i, NEW k, Settled(q, i)', Settled(r, k)'
  PROVE  i = k
  BY DEF UniqueRows, Settled, Known

LEMMA OuttalentFiles ==
  ASSUME IInv, IInv', TypeOK, NEW s \in Statement, Perform(s),
         s.op \in {"seed", "item", "converge"}
  PROVE  /\ s.op \in Upserts => Filed(s)'
         /\ \A u \in Statement : u.op = "item" /\ Filed(u) => Filed(u)'
  <1>1. CASE s.op \in {"seed", "converge"}
    <2>1. /\ UNCHANGED <<problems, queue>> /\ skills' = Backfilled
          /\ placed' = placed \/ placed' = Over(DeepTrack, placed)
      BY <1>1 DEF Perform, Seed, Converge
    <2>2. \A pair \in DOMAIN skills : pair \in DOMAIN skills' /\ skills'[pair] = skills[pair]
      BY <2>1 DEF Backfilled, Over
    <2>3. \A slug : <<"outtalent", slug>> \in DOMAIN placed =>
            /\ <<"outtalent", slug>> \in DOMAIN placed'
            /\ placed'[<<"outtalent", slug>>] = placed[<<"outtalent", slug>>]
      BY <2>1 DEF Over, DeepTrack
    <2>4. \A u \in Statement : u.op = "item" /\ Filed(u) => Filed(u)'
      BY <2>1, <2>2, <2>3 DEF Filed, Kept, Settled, Marked
    <2> QED BY <1>1, <2>4 DEF Upserts
  <1>2. CASE s.op = "item"
    <2>1. PICK k : k = RowOf(s.of)
      OBVIOUS
    <2>2. /\ s.of \in Known /\ s.of.id # None /\ EnsureProblem(s.of) /\ Item(s.of)
      BY <1>2 DEF Statement, Perform, Item
    <2>3. /\ Kept(s.of, k)' /\ k \in DOMAIN problems'
          /\ \A q \in Known : \A i \in DOMAIN problems : Kept(q, i) => Kept(q, i)'
          /\ DOMAIN problems \subseteq DOMAIN problems'
      BY <2>1, <2>2, KeptMade
    <2>4. /\ DOMAIN queue' = DOMAIN queue \cup {k}
          /\ \A i \in DOMAIN queue : i # k => queue'[i] = queue[i]
          /\ queue'[k].source = "outtalent"
      <3>1. \A i \in DOMAIN queue : queue[i] \in Entry
        BY DEF TypeOK
      <3> QED BY <2>1, <2>2, <3>1 DEF Item, Enqueue, Put, NewEntry, Entry
    <2>5. /\ \A skill \in Curated[s.of.id] :
               <<k, skill>> \in DOMAIN skills' /\ skills'[<<k, skill>>] = "curated"
          /\ \A pair \in DOMAIN skills :
               pair \in DOMAIN skills' /\ skills'[pair] \in {skills[pair], "curated"}
      BY <2>1, <2>2 DEF Item, Over
    <2>6. /\ <<"outtalent", s.of.slug>> \in DOMAIN placed'
          /\ placed'[<<"outtalent", s.of.slug>>] = k
          /\ \A slug : <<"outtalent", slug>> \in DOMAIN placed /\ slug # s.of.slug =>
               /\ <<"outtalent", slug>> \in DOMAIN placed'
               /\ placed'[<<"outtalent", slug>>] = placed[<<"outtalent", slug>>]
      BY <2>1, <2>2 DEF Item, Put
    <2>7. Filed(s)'
      <3>1. Marked(s, k)'
        BY <1>2, <2>4, <2>5, <2>6 DEF Marked
      <3> QED BY <2>3, <3>1 DEF Filed
    <2>8. ASSUME NEW u \in Statement, u.op = "item",
                 NEW i \in DOMAIN problems, Kept(u.of, i), Marked(u, i)
          PROVE  Filed(u)'
      <3>1. u.of \in Known /\ u.of.id # None
        BY <2>8 DEF Statement
      <3>2. Kept(u.of, i)' /\ i \in DOMAIN problems'
        BY <2>3, <2>8, <3>1
      <3>3. u.of.slug = s.of.slug => i = k
        <4>1. UniqueRows' /\ Settled(u.of, i)' /\ Settled(s.of, k)'
          BY <2>3, <3>2 DEF Kept, IInv
        <4> QED BY <2>2, <3>1, <4>1, OneRowNext
      <3>4. /\ <<"outtalent", u.of.slug>> \in DOMAIN placed'
            /\ placed'[<<"outtalent", u.of.slug>>] = i
        BY <2>6, <2>8, <3>3 DEF Marked
      <3>5. i \in DOMAIN queue' /\ queue'[i].source = "outtalent"
        BY <2>4, <2>8 DEF Marked
      <3>6. \A skill \in Curated[u.of.id] :
              <<i, skill>> \in DOMAIN skills' /\ skills'[<<i, skill>>] = "curated"
        BY <2>5, <2>8 DEF Marked
      <3>7. Marked(u, i)'
        BY <2>8, <3>4, <3>5, <3>6 DEF Marked
      <3> QED BY <3>2, <3>7 DEF Filed
    <2> QED BY <2>7, <2>8 DEF Filed
  <1> QED BY <1>1, <1>2

LEMMA StarterFiles ==
  ASSUME IInv, IInv', TypeOK, NEW s \in Statement, Perform(s), s.op \in {"seed", "starter"}
  PROVE  /\ s.op \in Upserts => Filed(s)'
         /\ \A u \in Statement : u.op = "starter" /\ Filed(u) => Filed(u)'
         /\ s.op = "seed" \/ Mirrored => Mirrored'
  <1>1. CASE s.op = "seed"
    <2>1. UNCHANGED <<problems, queue, placed>> /\ skills' = Backfilled
      BY <1>1 DEF Perform, Seed
    <2>2. \A pair \in DOMAIN skills : pair \in DOMAIN skills' /\ skills'[pair] = skills[pair]
      BY <2>1 DEF Backfilled, Over
    <2>3. \A u \in Statement : u.op = "starter" /\ Filed(u) => Filed(u)'
      BY <2>1, <2>2 DEF Filed, Kept, Settled, Marked
    <2>4. Mirrored'
      BY <2>1 DEF Mirrored, Backfilled, Over
    <2> QED BY <1>1, <2>3, <2>4 DEF Upserts
  <1>2. CASE s.op = "starter"
    <2>1. PICK k : k = RowOf(s.of)
      OBVIOUS
    <2>2. /\ s.of \in Known /\ s.of.id # None /\ EnsureProblem(s.of) /\ StarterProblem(s.of)
      BY <1>2 DEF Statement, Perform, StarterProblem
    <2>3. /\ Kept(s.of, k)' /\ k \in DOMAIN problems'
          /\ \A q \in Known : \A i \in DOMAIN problems : Kept(q, i) => Kept(q, i)'
          /\ DOMAIN problems \subseteq DOMAIN problems'
          /\ \A i \in DOMAIN problems' : i # k => /\ i \in DOMAIN problems
                                                  /\ problems'[i] = problems[i]
          /\ problems'[k].pattern # None =>
               \/ problems'[k].pattern = s.of.pattern
               \/ k \in DOMAIN problems /\ problems[k].pattern = problems'[k].pattern
      BY <2>1, <2>2, KeptMade
    <2>5. DOMAIN skills' = DOMAIN skills \cup {<<k, s.of.pattern>>}
      BY <2>1, <2>2 DEF StarterProblem, Over
    <2>6. /\ <<"starter", s.of.slug>> \in DOMAIN placed'
          /\ placed'[<<"starter", s.of.slug>>] = k
          /\ \A slug : <<"starter", slug>> \in DOMAIN placed /\ slug # s.of.slug =>
               /\ <<"starter", slug>> \in DOMAIN placed'
               /\ placed'[<<"starter", slug>>] = placed[<<"starter", slug>>]
      BY <2>1, <2>2 DEF StarterProblem, Put
    <2>7. Filed(s)'
      <3>1. Marked(s, k)'
        BY <1>2, <2>5, <2>6 DEF Marked
      <3> QED BY <2>3, <3>1 DEF Filed
    <2>8. ASSUME NEW u \in Statement, u.op = "starter",
                 NEW i \in DOMAIN problems, Kept(u.of, i), Marked(u, i)
          PROVE  Filed(u)'
      <3>1. u.of \in Known /\ u.of.id # None
        BY <2>8 DEF Statement
      <3>2. Kept(u.of, i)' /\ i \in DOMAIN problems'
        BY <2>3, <2>8, <3>1
      <3>3. u.of.slug = s.of.slug => i = k
        <4>1. UniqueRows' /\ Settled(u.of, i)' /\ Settled(s.of, k)'
          BY <2>3, <3>2 DEF Kept, IInv
        <4> QED BY <2>2, <3>1, <4>1, OneRowNext
      <3>4. /\ <<"starter", u.of.slug>> \in DOMAIN placed'
            /\ placed'[<<"starter", u.of.slug>>] = i
        BY <2>6, <2>8, <3>3 DEF Marked
      <3>5. Marked(u, i)'
        BY <2>5, <2>8, <3>4 DEF Marked
      <3> QED BY <3>2, <3>5 DEF Filed
    <2>9. Mirrored => Mirrored'
      BY <2>3, <2>5 DEF Mirrored
    <2> QED BY <1>2, <2>7, <2>8, <2>9 DEF Filed
  <1> QED BY <1>1, <1>2

-----------------------------------------------------------------------------
(* A statement whose work is done changes nothing.                         *)

LEMMA QueueIdle ==
  ASSUME IsFcn(queue), NEW i \in DOMAIN queue, NEW new, NEW updated, updated = queue[i],
         Enqueue(i, new, updated)
  PROVE  queue' = queue
  BY PutIdle DEF Enqueue

LEMMA FiledIdle ==
  ASSUME IInv, TypeOK, Fcns, NEW s \in Statement, Perform(s), s.op \in Upserts, Filed(s)
  PROVE  /\ UNCHANGED <<problems, queue, placed, evidence>>
         /\ s.op \in {"item", "starter"} => skills' = skills
  <1>1. PICK i \in DOMAIN problems : Kept(s.of, i) /\ Marked(s, i)
    BY DEF Filed
  <1>2. s.of \in Known
    BY DEF Statement, Upserts
  <1>3. EnsureProblem(s.of)
    <2>1. Perform(s) /\ s.op \in {"plan", "active", "event", "item", "starter"}
      BY DEF Upserts
    <2> QED BY <2>1 DEF Perform, PlanEntry, Active, Event, Item, StarterProblem
  <1>4. problems' = problems /\ RowOf(s.of) = i
    BY <1>1, <1>2, <1>3, Idle
  <1>5. i \in DOMAIN queue => queue[i] \in Entry
    BY DEF TypeOK
  <1>6. CASE s.op = "plan"
    <2>1. PlanEntry(s.of)
      BY <1>6 DEF Perform
    <2>2. i \in DOMAIN queue /\ queue[i].source = "study-plan" /\ queue[i].planned = TRUE
      BY <1>1, <1>6 DEF Marked
    <2>3. [queue[i] EXCEPT !.source = "study-plan", !.planned = TRUE] = queue[i]
      BY <1>5, <2>2 DEF Entry
    <2>4. queue' = queue
      BY <1>4, <2>1, <2>2, <2>3, QueueIdle DEF PlanEntry, Fcns
    <2> QED BY <1>4, <1>6, <2>1, <2>4 DEF PlanEntry
  <1>7. CASE s.op = "active"
    <2>1. Active(s.of)
      BY <1>7 DEF Perform
    <2>2. i \in DOMAIN queue /\ queue[i].state = "scheduled"
      BY <1>1, <1>7 DEF Marked
    <2>3. [queue[i] EXCEPT !.state = "scheduled"] = queue[i]
      BY <1>5, <2>2 DEF Entry
    <2>4. queue' = queue
      BY <1>4, <2>1, <2>2, <2>3, QueueIdle DEF Active, Fcns
    <2> QED BY <1>4, <1>7, <2>1, <2>4 DEF Active
  <1>8. CASE s.op = "event"
    <2>1. Event(s.of)
      BY <1>8 DEF Perform
    <2>2. /\ i \in DOMAIN queue
          /\ queue[i].state \in {"learning", "blocked", "archived", "scheduled"}
          /\ \E e \in evidence : e[1] = s.of
      BY <1>1, <1>8 DEF Marked
    <2>3. Learnt(queue[i]) = queue[i]
      BY <1>5, <2>2 DEF Entry, Learnt
    <2>4. queue' = queue
      BY <1>4, <2>1, <2>2, <2>3, QueueIdle DEF Event, Fcns
    <2>5. evidence' = evidence
      BY <2>1, <2>2 DEF Event
    <2> QED BY <1>4, <1>8, <2>1, <2>4, <2>5 DEF Event
  <1>9. CASE s.op = "item"
    <2>1. Item(s.of)
      BY <1>9 DEF Perform
    <2>2. /\ i \in DOMAIN queue /\ queue[i].source = "outtalent"
          /\ \A skill \in Curated[s.of.id] :
               <<i, skill>> \in DOMAIN skills /\ skills[<<i, skill>>] = "curated"
          /\ <<"outtalent", s.of.slug>> \in DOMAIN placed
          /\ placed[<<"outtalent", s.of.slug>>] = i
      BY <1>1, <1>9 DEF Marked
    <2>3. [queue[i] EXCEPT !.source = "outtalent"] = queue[i]
      BY <1>5, <2>2 DEF Entry
    <2>4. queue' = queue
      BY <1>4, <2>1, <2>2, <2>3, QueueIdle DEF Item, Fcns
    <2>5. placed' = placed
      BY <1>4, <2>1, <2>2, PutIdle DEF Item, Fcns
    <2>6. skills' = skills
      <3> DEFINE curated == [pair \in {i} \X Curated[s.of.id] |-> "curated"]
      <3>1. \A pair \in DOMAIN curated : pair \in DOMAIN skills /\ curated[pair] = skills[pair]
        BY <2>2
      <3>2. IsFcn(skills) /\ skills' = Over(curated, skills)
        BY <1>4, <2>1 DEF Fcns, Item
      <3> HIDE DEF curated
      <3> QED BY <3>1, <3>2, OverAgrees
    <2> QED BY <1>4, <1>9, <2>1, <2>4, <2>5, <2>6 DEF Item
  <1>10. CASE s.op = "starter"
    <2>1. StarterProblem(s.of)
      BY <1>10 DEF Perform
    <2>2. /\ <<i, s.of.pattern>> \in DOMAIN skills
          /\ <<"starter", s.of.slug>> \in DOMAIN placed
          /\ placed[<<"starter", s.of.slug>>] = i
      BY <1>1, <1>10 DEF Marked
    <2>3. placed' = placed
      BY <1>4, <2>1, <2>2, PutIdle DEF StarterProblem, Fcns
    <2>4. skills' = skills
      <3> DEFINE pairs == [pair \in {<<i, s.of.pattern>>} |-> "community-starter"]
      <3>1. skills' = Over(skills, pairs) /\ DOMAIN pairs \subseteq DOMAIN skills
        BY <1>4, <2>1, <2>2 DEF StarterProblem
      <3> QED BY <3>1, OverIdle DEF Fcns
    <2> QED BY <1>4, <1>10, <2>1, <2>3, <2>4 DEF StarterProblem
  <1> QED BY <1>6, <1>7, <1>8, <1>9, <1>10 DEF Upserts

LEMMA BackfillIdle ==
  ASSUME Fcns, Mirrored
  PROVE  Backfilled = skills
  <1> DEFINE classified == {i \in DOMAIN problems : problems[i].pattern # None}
  <1> DEFINE pairs == {<<i, problems[i].pattern>> : i \in classified}
  <1> DEFINE mirror == [pair \in pairs |-> "pattern-backfill"]
  <1>1. DOMAIN mirror \subseteq DOMAIN skills
    BY DEF Mirrored
  <1> QED BY <1>1, OverIdle DEF Backfilled, Fcns

LEMMA DeepIdle ==
  ASSUME Fcns, DeepDone
  PROVE  Over(DeepTrack, placed) = placed
  <1>1. ASSUME NEW key \in DOMAIN DeepTrack
        PROVE  key \in DOMAIN placed /\ DeepTrack[key] = placed[key]
    <2>1. PICK n \in Roadmap : key = <<"deep", problems[n].slug>>
      BY <1>1 DEF DeepTrack
    <2>2. PICK i : i = (CHOOSE k \in Roadmap : problems[k].slug = key[2])
      OBVIOUS
    <2>3. i \in Roadmap /\ problems[i].slug = problems[n].slug
      BY <2>1, <2>2
    <2>4. DeepTrack[key] = i
      BY <1>1, <2>2 DEF DeepTrack
    <2> QED BY <2>1, <2>3, <2>4 DEF DeepDone
  <1>2. IsFcn(placed)
    BY DEF Fcns
  <1> QED BY <1>1, <1>2, OverAgrees

\* backfill_pattern_skills and backfill_deep_track do their work.
LEMMA ConvergeMakes ==
  ASSUME IInv, TypeOK, Converge
  PROVE  Mirrored' /\ DeepDone'
  <1>1. Mirrored'
    BY DEF Converge, Mirrored, Backfilled, Over
  <1>2. Roadmap' = Roadmap /\ problems' = problems /\ placed' = Over(DeepTrack, placed)
    BY DEF Converge, Roadmap
  <1>3. ASSUME NEW i \in Roadmap
        PROVE  LET key == <<"deep", problems[i].slug>>
               IN  key \in DOMAIN placed' /\ placed'[key] = i
    <2> DEFINE key == <<"deep", problems[i].slug>>
    <2>1. key \in DOMAIN DeepTrack
      BY DEF DeepTrack
    <2>2. PICK n : n = (CHOOSE k \in Roadmap : problems[k].slug = key[2])
      OBVIOUS
    <2>3. n \in Roadmap /\ problems[n].slug = problems[i].slug
      BY <2>2
    <2>4. n = i
      <3>1. Roadmap \subseteq DOMAIN problems
        BY DEF Roadmap, TypeOK
      <3> QED BY <2>3, <3>1 DEF IInv, UniqueRows
    <2>5. DeepTrack[key] = i
      BY <2>1, <2>2, <2>4 DEF DeepTrack
    <2> QED BY <1>2, <2>1, <2>5 DEF Over
  <1> QED BY <1>1, <1>2, <1>3 DEF DeepDone

-----------------------------------------------------------------------------
(* What a run is made of.                                                  *)

LEMMA OfJoined ==
  ASSUME NEW S, NEW a \in Seq(S), NEW b \in Seq(S)
  PROVE  Of(a \o b) = Of(a) \cup Of(b)
  <1>1. /\ DOMAIN (a \o b) = 1..(Len(a) + Len(b))
        /\ DOMAIN a = 1..Len(a) /\ DOMAIN b = 1..Len(b) /\ Len(a) \in Nat /\ Len(b) \in Nat
        /\ \A n \in 1..Len(a) : (a \o b)[n] = a[n]
        /\ \A n \in 1..Len(b) : (a \o b)[Len(a) + n] = b[n]
    OBVIOUS
  <1>2. ASSUME NEW n \in DOMAIN (a \o b) PROVE (a \o b)[n] \in Of(a) \cup Of(b)
    <2>1. CASE n <= Len(a)
      BY <1>1, <2>1 DEF Of
    <2>2. CASE n > Len(a)
      <3>1. n - Len(a) \in 1..Len(b) /\ n = Len(a) + (n - Len(a))
        BY <1>1, <2>2
      <3>2. (a \o b)[n] = b[n - Len(a)]
        BY <1>1, <3>1
      <3> QED BY <1>1, <3>1, <3>2 DEF Of
    <2> QED BY <1>1, <2>1, <2>2
  <1>3. ASSUME NEW n \in DOMAIN a PROVE a[n] \in Of(a \o b)
    BY <1>1 DEF Of
  <1>4. ASSUME NEW n \in DOMAIN b PROVE b[n] \in Of(a \o b)
    <2>1. Len(a) + n \in DOMAIN (a \o b) /\ (a \o b)[Len(a) + n] = b[n]
      BY <1>1
    <2> QED BY <2>1 DEF Of
  <1> QED BY <1>2, <1>3, <1>4 DEF Of

\* What is done of a run, and what is left.
LEMMA OfTaken ==
  ASSUME NEW S, NEW todo \in Seq(S), todo # <<>>
  PROVE  /\ Of(todo) = {Head(todo)} \cup Of(Tail(todo))
         /\ Tail(todo) # <<>> => Tail(todo)[Len(Tail(todo))] = todo[Len(todo)]
         /\ Tail(todo) = <<>> => Head(todo) = todo[Len(todo)]
  <1>1. /\ DOMAIN todo = 1..Len(todo) /\ Len(todo) \in Nat \ {0} /\ Head(todo) = todo[1]
        /\ DOMAIN Tail(todo) = 1..(Len(todo) - 1) /\ Len(Tail(todo)) = Len(todo) - 1
        /\ \A n \in 1..(Len(todo) - 1) : Tail(todo)[n] = todo[n + 1]
    OBVIOUS
  <1>2. Of(todo) \subseteq {Head(todo)} \cup Of(Tail(todo))
    <2> SUFFICES ASSUME NEW n \in DOMAIN todo, n # 1
                 PROVE  todo[n] \in Of(Tail(todo))
      BY <1>1 DEF Of
    <2>1. n - 1 \in DOMAIN Tail(todo) /\ Tail(todo)[n - 1] = todo[n]
      BY <1>1
    <2> QED BY <2>1 DEF Of
  <1>3. Head(todo) \in Of(todo) /\ Of(Tail(todo)) \subseteq Of(todo)
    BY <1>1 DEF Of
  <1>4. Tail(todo) # <<>> => Tail(todo)[Len(Tail(todo))] = todo[Len(todo)]
    <2>1. CASE Len(todo) = 1
      BY <1>1, <2>1
    <2>2. CASE Len(todo) > 1
      BY <1>1, <2>2
    <2> QED BY <1>1, <2>1, <2>2
  <1>5. Tail(todo) = <<>> => Head(todo) = todo[Len(todo)]
    <2>1. Len(<<>>) = 0
      OBVIOUS
    <2>2. Tail(todo) = <<>> => Len(Tail(todo)) = Len(<<>>)
      BY Zenon
    <2>3. Tail(todo) = <<>> => Len(todo) = 1
      BY <1>1, <2>1, <2>2
    <2> QED BY <1>1, <2>3
  <1> QED BY <1>2, <1>3, <1>4, <1>5

LEMMA OfStatements ==
  ASSUME NEW op, NEW refs
  PROVE  \A s \in Of(Statements(op, refs)) : s.op = op
  BY DEF Of, Statements

LEMMA OfBare ==
  ASSUME NEW op
  PROVE  \A s : s \in Of(Bare(op)) <=> s = [op |-> op, of |-> None]
  <1>1. DOMAIN Bare(op) = {1} /\ Bare(op)[1] = [op |-> op, of |-> None]
    BY DEF Bare
  <1> QED BY <1>1 DEF Of

LegacyOps == {"seed", "plan", "release", "active", "event"}
OuttalentOps == {"seed", "item", "converge"}
StarterOps == {"seed", "starter"}

LEMMA StatementsTyped ==
  ASSUME NEW Ops, NEW op \in Ops, NEW refs \in Seq(Known)
  PROVE  Statements(op, refs) \in Seq([op : Ops, of : Known \cup {None}])
  <1>1. \A n \in DOMAIN refs :
          [op |-> op, of |-> refs[n]] \in [op : Ops, of : Known \cup {None}]
    OBVIOUS
  <1>2. DOMAIN refs = 1..Len(refs) /\ Len(refs) \in Nat
    OBVIOUS
  <1> QED BY <1>1, <1>2 DEF Statements

LEMMA LegacyShape ==
  ASSUME NEW t \in Trackers
  PROVE  \A s \in Of(LegacyRun(t)) : s.op \in LegacyOps
  <1> DEFINE S == [op : LegacyOps, of : Known \cup {None}]
  <1>1. Bare("seed") \in Seq(S) /\ Bare("release") \in Seq(S)
    BY DEF Bare, LegacyOps
  <1>2. ASSUME NEW op \in LegacyOps, NEW refs \in Seq(Known)
        PROVE  Statements(op, refs) \in Seq(S)
    BY StatementsTyped
  <1>3. Statements("plan", Plan) \in Seq(S) /\ Statements("event", t.events) \in Seq(S)
    BY <1>2, SourcesAssumption DEF LegacyOps
  <1> DEFINE active == IF t.active = None THEN <<>> ELSE Statements("active", <<t.active>>)
  <1>4. active \in Seq(S)
    <2>1. CASE t.active = None
      BY <2>1
    <2>2. CASE t.active # None
      <3>1. <<t.active>> \in Seq(Known) /\ "active" \in LegacyOps
        BY <2>2, SourcesAssumption DEF LegacyOps
      <3> QED BY <1>2, <2>2, <3>1
    <2> QED BY <2>1, <2>2
  <1>5. LegacyRun(t) =
          (((Bare("seed") \o Statements("plan", Plan)) \o Bare("release")) \o active)
             \o Statements("event", t.events)
    BY DEF LegacyRun
  <1>6. \A s \in S : s.op \in LegacyOps
    OBVIOUS
  <1> HIDE DEF S, active
  <1>7. LegacyRun(t) \in Seq(S)
    BY <1>1, <1>3, <1>4, <1>5
  <1> QED BY <1>6, <1>7 DEF Of

LEMMA OuttalentShape ==
  /\ \A s \in Of(OuttalentRun) : s.op \in OuttalentOps
  /\ OuttalentRun # <<>> /\ OuttalentRun[Len(OuttalentRun)].op = "converge"
  <1> DEFINE S == [op : OuttalentOps, of : Known \cup {None}]
  <1>1. Bare("seed") \in Seq(S)
    BY DEF Bare, OuttalentOps
  <1>2. Statements("item", Outtalent) \in Seq(S)
    BY SourcesAssumption, StatementsTyped DEF OuttalentOps
  <1>3. PICK s : s = [op |-> "converge", of |-> None]
    OBVIOUS
  <1>4. s \in S /\ s.op = "converge" /\ Bare("converge") = <<s>>
    BY <1>3 DEF Bare, OuttalentOps
  <1>5. \A q \in S : q.op \in OuttalentOps
    OBVIOUS
  <1> DEFINE done == Bare("seed") \o Statements("item", Outtalent)
  <1>6. OuttalentRun = done \o <<s>>
    BY <1>4 DEF OuttalentRun
  <1> HIDE DEF S
  <1>7. done \in Seq(S)
    BY <1>1, <1>2
  <1> HIDE DEF done
  <1>8. done \o <<s>> \in Seq(S) /\ Len(done \o <<s>>) = Len(done) + 1
    BY <1>4, <1>7
  <1>9. (done \o <<s>>)[Len(done) + 1] = s
    BY <1>4, <1>7
  <1>10. done \o <<s>> # <<>>
    BY <1>7, <1>8
  <1> QED BY <1>4, <1>5, <1>6, <1>8, <1>9, <1>10 DEF Of

LEMMA StarterShape ==
  /\ \A s \in Of(StarterRun) : s.op \in StarterOps
  /\ \E s \in Of(StarterRun) : s.op = "seed"
  <1> DEFINE S == [op : StarterOps, of : Known \cup {None}]
  <1>1. Bare("seed") \in Seq(S)
    BY DEF Bare, StarterOps
  <1>2. Statements("starter", Starter) \in Seq(S)
    BY SourcesAssumption, StatementsTyped DEF StarterOps
  <1>3. PICK s : s = [op |-> "seed", of |-> None]
    OBVIOUS
  <1>4. s \in Of(Bare("seed")) /\ s.op = "seed"
    BY <1>3, OfBare
  <1>5. \A q \in S : q.op \in StarterOps
    OBVIOUS
  <1> HIDE DEF S
  <1>6. StarterRun \in Seq(S)
    BY <1>1, <1>2 DEF StarterRun
  <1>7. Of(Bare("seed")) \subseteq Of(StarterRun)
    BY <1>1, <1>2, OfJoined DEF StarterRun
  <1> QED BY <1>4, <1>5, <1>6, <1>7 DEF Of

LEMMA StartShape ==
  /\ \A s \in Of(Bare("seed")) : s.op \in StarterOps
  /\ \E s \in Of(Bare("seed")) : s.op = "seed"
  <1>1. PICK s : s = [op |-> "seed", of |-> None]
    OBVIOUS
  <1> QED BY <1>1, OfBare DEF StarterOps

LEMMA JobShape ==
  ASSUME NEW j \in Jobs
  PROVE  /\ j.name[1] \in {"legacy", "outtalent", "starter", "start"}
         /\ j.name[1] = "legacy" => \A s \in Of(j.todo) : s.op \in LegacyOps
         /\ j.name[1] = "outtalent" =>
              /\ \A s \in Of(j.todo) : s.op \in OuttalentOps
              /\ j.todo # <<>> /\ j.todo[Len(j.todo)].op = "converge"
         /\ j.name[1] \in {"starter", "start"} =>
              /\ \A s \in Of(j.todo) : s.op \in StarterOps
              /\ \E s \in Of(j.todo) : s.op = "seed"
         /\ j.name # <<>>
  <1>1. CASE \E t \in Trackers : j = [name |-> <<"legacy", t>>, todo |-> LegacyRun(t)]
    BY <1>1, LegacyShape
  <1>2. CASE j = [name |-> <<"outtalent", None>>, todo |-> OuttalentRun]
    BY <1>2, OuttalentShape
  <1>3. CASE j = [name |-> <<"starter", None>>, todo |-> StarterRun]
    BY <1>3, StarterShape
  <1>4. CASE j = [name |-> <<"start", None>>, todo |-> Bare("seed")]
    BY <1>4, StartShape
  <1> QED BY <1>1, <1>2, <1>3, <1>4 DEF Jobs

\* A run is known by its name.
LEMMA NamesDecide ==
  ASSUME NEW j \in Jobs, NEW k \in Jobs, j.name = k.name
  PROVE  j = k
  BY DEF Jobs

-----------------------------------------------------------------------------
(* What was done in a run stays done to its end, and in the next.          *)

\* One statement after another, the work of a run is done.
LEMMA WorkStays ==
  ASSUME IInv, IInv', TypeOK, NEW j \in Jobs, NEW s \in Of(j.todo), Perform(s),
         NEW u \in Writes(j), u = s \/ Filed(u)
  PROVE  Filed(u)'
  <1>1. s \in Statement /\ u \in Statement /\ u.op \in Upserts /\ u \in Of(j.todo)
    BY JobsAreStatements DEF Of, Writes
  <1>2. CASE j.name[1] = "legacy"
    <2>1. s.op \in LegacyOps /\ u.op \in LegacyOps
      BY <1>1, <1>2, JobShape
    <2>2. u.op \in {"plan", "active", "event"}
      BY <1>1, <2>1 DEF LegacyOps, Upserts
    <2> QED BY <1>1, <2>1, <2>2, LegacyFiles DEF LegacyOps
  <1>3. CASE j.name[1] = "outtalent"
    <2>1. s.op \in OuttalentOps /\ u.op \in OuttalentOps
      BY <1>1, <1>3, JobShape
    <2>2. u.op = "item"
      BY <1>1, <2>1 DEF OuttalentOps, Upserts
    <2> QED BY <1>1, <2>1, <2>2, OuttalentFiles DEF OuttalentOps
  <1>4. CASE j.name[1] \in {"starter", "start"}
    <2>1. s.op \in StarterOps /\ u.op \in StarterOps
      BY <1>1, <1>4, JobShape
    <2>2. u.op = "starter"
      BY <1>1, <2>1 DEF StarterOps, Upserts
    <2> QED BY <1>1, <2>1, <2>2, StarterFiles DEF StarterOps
  <1> QED BY <1>2, <1>3, <1>4, JobShape

LEMMA StepGoesOn ==
  ASSUME IInv, IInv', TypeOK, InProgress, Step
  PROVE  InProgress'
  <1>1. /\ job # None /\ job.todo \in Seq(Statement) /\ job.todo # <<>>
        /\ Perform(Head(job.todo)) /\ job' = [job EXCEPT !.todo = Tail(@)]
    BY DEF Step, IInv, JobOK
  <1>2. PICK j \in Jobs :
          /\ j.name = job.name
          /\ Of(job.todo) \subseteq Of(j.todo)
          /\ \A s \in Writes(j) : s \in Of(job.todo) \/ Filed(s)
          /\ job.name[1] \in {"starter", "start"} =>
               (\E s \in Of(job.todo) : s.op = "seed") \/ Mirrored
          /\ job.name[1] = "outtalent" =>
               IF job.todo = <<>> THEN Mirrored /\ DeepDone
               ELSE job.todo[Len(job.todo)].op = "converge"
    BY <1>1 DEF InProgress
  <1> DEFINE s == Head(job.todo)
  <1> DEFINE left == Tail(job.todo)
  <1>3. /\ Of(job.todo) = {s} \cup Of(left)
        /\ left # <<>> => left[Len(left)] = job.todo[Len(job.todo)]
        /\ left = <<>> => s = job.todo[Len(job.todo)]
    BY <1>1, OfTaken
  <1>4. job'.name = job.name /\ job'.todo = left
    <2>1. job \in Run
      BY <1>1 DEF IInv, JobOK
    <2> QED BY <1>1, <2>1, RunTaken
  <1>5. s \in Of(j.todo) /\ Perform(s) /\ s \in Statement
    BY <1>1, <1>2, <1>3
  <1> HIDE DEF s, left
  <1>6. \A u \in Writes(j) : u \in Of(left) \/ Filed(u)'
    BY <1>2, <1>3, <1>5, WorkStays
  <1>7. ASSUME job.name[1] \in {"starter", "start"}
        PROVE  (\E u \in Of(left) : u.op = "seed") \/ Mirrored'
    <2>1. s.op \in StarterOps
      BY <1>2, <1>5, <1>7, JobShape
    <2>2. s.op = "seed" \/ Mirrored => Mirrored'
      BY <1>5, <2>1, StarterFiles DEF StarterOps
    <2> QED BY <1>2, <1>3, <1>7, <2>2
  <1>8. ASSUME job.name[1] = "outtalent"
        PROVE  IF left = <<>> THEN Mirrored' /\ DeepDone' ELSE left[Len(left)].op = "converge"
    <2>1. job.todo[Len(job.todo)].op = "converge"
      BY <1>1, <1>2, <1>8
    <2>2. ASSUME left = <<>> PROVE Mirrored' /\ DeepDone'
      <3>1. s.op = "converge"
        BY <1>3, <2>1, <2>2
      <3>2. Converge
        BY <1>5, <3>1 DEF Perform
      <3> QED BY <3>2, ConvergeMakes
    <2> QED BY <1>3, <2>1, <2>2
  <1> QED BY <1>2, <1>3, <1>4, <1>6, <1>7, <1>8 DEF InProgress

\* A statement of a run that is complete.
LEMMA RepeatedStep ==
  ASSUME IInv, TypeOK, Fcns, NEW j \in Jobs, Finished(j), NEW s \in Of(j.todo), Perform(s)
  PROVE  /\ UNCHANGED <<problems, queue, placed, evidence>>
         /\ j.name[1] # "legacy" => skills' = skills
  <1>1. s \in Statement
    BY JobsAreStatements DEF Of
  <1>2. j.name[1] # "legacy" => s.op \in OuttalentOps \cup StarterOps
    BY JobShape
  <1>3. CASE s.op \in Upserts
    <2>1. Filed(s)
      BY <1>3 DEF Finished, Writes
    <2>2. j.name[1] # "legacy" => s.op \in {"item", "starter"}
      BY <1>2, <1>3 DEF OuttalentOps, StarterOps, Upserts
    <2> QED BY <1>1, <1>3, <2>1, <2>2, FiledIdle
  <1>4. CASE s.op = "seed"
    <2>1. Seed
      BY <1>4 DEF Perform
    <2>2. j.name[1] # "legacy" => Mirrored
      BY DEF Finished
    <2> QED BY <2>1, <2>2, BackfillIdle DEF Seed
  <1>5. CASE s.op = "release"
    <2>1. Release
      BY <1>5 DEF Perform
    <2> QED BY <2>1 DEF Release
  <1>6. CASE s.op = "converge"
    <2>1. Converge
      BY <1>6 DEF Perform
    <2>2. j.name[1] = "outtalent"
      BY <1>6, JobShape DEF LegacyOps, StarterOps
    <2>3. Mirrored /\ DeepDone
      BY <2>2 DEF Finished
    <2> QED BY <2>1, <2>3, BackfillIdle, DeepIdle DEF Converge
  <1> QED BY <1>1, <1>3, <1>4, <1>5, <1>6 DEF Statement, Upserts

LEMMA FinishedStays ==
  ASSUME NEW j \in Jobs, Finished(j), UNCHANGED <<problems, queue, placed, evidence>>,
         j.name[1] # "legacy" => skills' = skills
  PROVE  Finished(j)'
  <1>1. Roadmap' = Roadmap
    BY DEF Roadmap
  <1>2. CASE j.name[1] # "legacy"
    <2>1. \A u \in Writes(j) : Filed(u) => Filed(u)'
      BY <1>2 DEF Filed, Kept, Settled, Marked
    <2>2. (Mirrored => Mirrored') /\ (DeepDone => DeepDone')
      BY <1>1, <1>2 DEF Mirrored, DeepDone
    <2> QED BY <2>1, <2>2 DEF Finished, Writes
  <1>3. CASE j.name[1] = "legacy"
    <2>1. \A u \in Writes(j) : u.op \in {"plan", "active", "event"}
      BY <1>3, JobShape DEF Writes, LegacyOps, Upserts
    <2>2. \A u \in Writes(j) : Filed(u) => Filed(u)'
      BY <2>1 DEF Filed, Kept, Settled, Marked
    <2>3. \A u \in Writes(j) : Filed(u)'
      BY <2>2 DEF Finished
    <2> QED BY <1>3, <2>3 DEF Finished, Writes
  <1> QED BY <1>2, <1>3

RepeatInv == Fcns /\ InProgress /\ Repeatable

Repeats ==
  (job # None /\ job.name = last) =>
    /\ UNCHANGED <<problems, queue, placed, evidence>>
    /\ job.name[1] # "legacy" => UNCHANGED skills

LEMMA StepRepeats ==
  ASSUME IInv, IInv', TypeOK, RepeatInv, Step
  PROVE  RepeatInv' /\ Repeats
  <1>1. Fcns' /\ InProgress'
    BY FcnsNext, StepGoesOn DEF RepeatInv, Next
  <1>2. /\ job # None /\ job.todo \in Seq(Statement) /\ job.todo # <<>> /\ last' = last
        /\ Perform(Head(job.todo)) /\ job' = [job EXCEPT !.todo = Tail(@)]
    BY DEF Step, IInv, JobOK
  <1>3. PICK j \in Jobs : j.name = job.name /\ Of(job.todo) \subseteq Of(j.todo)
    BY <1>2 DEF RepeatInv, InProgress
  <1>4. Head(job.todo) \in Of(j.todo)
    BY <1>2, <1>3, OfTaken
  <1>5. CASE job.name = last
    <2>1. Finished(j)
      BY <1>3, <1>5 DEF RepeatInv, Repeatable
    <2>2. /\ UNCHANGED <<problems, queue, placed, evidence>>
          /\ j.name[1] # "legacy" => skills' = skills
      BY <1>2, <1>4, <2>1, RepeatedStep DEF RepeatInv
    <2>3. Finished(j)'
      BY <2>1, <2>2, FinishedStays
    <2>4. \A k \in Jobs : k.name = last => k = j
      BY <1>3, <1>5, NamesDecide
    <2>5. Repeatable'
      BY <1>2, <2>3, <2>4 DEF Repeatable
    <2> QED BY <1>1, <1>3, <2>2, <2>5 DEF RepeatInv, Repeats
  <1>6. CASE job.name # last
    <2>1. job' # None /\ job'.name = job.name
      <3>1. job \in Run
        BY <1>2 DEF IInv, JobOK
      <3>2. job' \in Run /\ job'.name = job.name
        BY <1>2, <3>1, RunTaken
      <3> QED BY <3>2, RunAssumption
    <2>2. Repeatable'
      BY <1>2, <1>6, <2>1 DEF Repeatable
    <2> QED BY <1>1, <1>6, <2>2 DEF RepeatInv, Repeats
  <1> QED BY <1>5, <1>6

LEMMA FiledFrame ==
  ASSUME UNCHANGED catalogueVars
  PROVE  /\ \A s : Filed(s)' <=> Filed(s)
         /\ Mirrored' <=> Mirrored
         /\ DeepDone' <=> DeepDone
  BY DEF catalogueVars, Filed, Kept, Settled, Marked, Mirrored, DeepDone, Roadmap

LEMMA FinishedFrame ==
  ASSUME UNCHANGED catalogueVars
  PROVE  \A j : Finished(j)' <=> Finished(j)
  BY FiledFrame DEF Finished, Writes, Of

LEMMA RepeatNext ==
  ASSUME IInv, IInv', TypeOK, RepeatInv, [Next]_vars
  PROVE  RepeatInv' /\ [Repeats]_vars
  <1>1. Fcns'
    BY FcnsNext DEF RepeatInv
  <1>2. ASSUME NEW j \in Jobs, Begin(j) PROVE RepeatInv' /\ Repeats
    <2>1. UNCHANGED catalogueVars /\ job = None /\ job' = j /\ last' = last
      BY <1>2 DEF Begin
    <2>2. InProgress'
      <3>1. \A s \in Writes(j) : s \in Of(j.todo)
        BY DEF Writes
      <3> QED BY <2>1, <3>1, JobShape DEF InProgress
    <2>3. Repeatable'
      BY <2>1, FinishedFrame DEF RepeatInv, Repeatable
    <2> QED BY <1>1, <2>1, <2>2, <2>3 DEF RepeatInv, Repeats
  <1>3. CASE Step
    BY <1>3, StepRepeats
  <1>4. CASE Commit
    <2>1. /\ UNCHANGED catalogueVars /\ job # None /\ job.todo = <<>>
          /\ job' = None /\ last' = job.name
      BY <1>4 DEF Commit
    <2>2. PICK j \in Jobs :
            /\ j.name = job.name
            /\ \A s \in Writes(j) : s \in Of(job.todo) \/ Filed(s)
            /\ job.name[1] \in {"starter", "start"} =>
                 (\E s \in Of(job.todo) : s.op = "seed") \/ Mirrored
            /\ job.name[1] = "outtalent" => Mirrored /\ DeepDone
      BY <2>1 DEF RepeatInv, InProgress
    <2>3. Of(job.todo) = {}
      BY <2>1 DEF Of
    <2>4. Finished(j)
      BY <2>2, <2>3, JobShape DEF Finished
    <2>5. Repeatable'
      BY <2>1, <2>2, <2>4, FinishedFrame, NamesDecide DEF Repeatable
    <2> QED BY <1>1, <2>1, <2>5 DEF RepeatInv, InProgress, Repeats, catalogueVars
  <1>5. ASSUME NEW chosen, NEW state, UpdateQueue(chosen, state) PROVE RepeatInv' /\ Repeats
    <2>1. job = None /\ job' = None /\ last' = <<>>
      BY <1>5 DEF UpdateQueue
    <2>2. Repeatable'
      BY <2>1, JobShape DEF Repeatable
    <2> QED BY <1>1, <2>1, <2>2 DEF RepeatInv, InProgress, Repeats
  <1>6. CASE UNCHANGED vars
    <2>1. UNCHANGED <<catalogueVars, job, last>>
      BY <1>6 DEF vars
    <2>2. InProgress'
      BY <2>1, FiledFrame DEF RepeatInv, InProgress
    <2>3. Repeatable'
      BY <2>1, FinishedFrame DEF RepeatInv, Repeatable
    <2> QED BY <1>1, <1>6, <2>2, <2>3 DEF RepeatInv
  <1> QED BY <1>2, <1>3, <1>4, <1>5, <1>6 DEF Next

\* However often the sources were imported before, and in whatever order: an importer that
\* is run twice in a row finds, the second time, all that it would write.
THEOREM RerunChangesNothingHolds == Spec => RerunChangesNothing
  <1>1. Init => RepeatInv
    BY JobShape DEF Init, RepeatInv, Fcns, IsFcn, InProgress, Repeatable
  <1>2. IInv /\ IInv' /\ TypeOK /\ RepeatInv /\ [Next]_vars => RepeatInv'
    BY RepeatNext
  <1>3. Spec => []RepeatInv
    BY <1>1, <1>2, Inductive, PTL DEF Spec
  <1>4. IInv /\ IInv' /\ TypeOK /\ RepeatInv /\ [Next]_vars => [Repeats]_vars
    BY RepeatNext
  <1> QED BY <1>3, <1>4, Inductive, PTL DEF Spec, RerunChangesNothing, Repeats
=============================================================================
