------------------------ MODULE LearnerModel_proofs ------------------------
(***************************************************************************)
(* What holds of the evidence for every catalogue, every set of reports    *)
(* and every calendar, however web attempts, imports and starts interleave.*)
(***************************************************************************)
EXTENDS LearnerModel, FiniteSetTheorems, WellFoundedInduction, TLAPS

\* A skip recorded here has lost its tag, so that no later start classifies it.
SkipsAreUntagged ==
  \A i \in DOMAIN events :
    events[i].origin = "web" /\ events[i].result = "skipped" => events[i].tag = None

\* No row is of a day to come.
DatedByNow == \A i \in DOMAIN events : events[i].day <= today

IInv ==
  /\ TypeOK /\ SkipsAreUntagged /\ ReportedFailuresCount
  /\ DatedByNow /\ MemoryFollowsEvidence

-----------------------------------------------------------------------------
(* Lemmas about the operators.                                             *)

\* Normalisation yields an outcome, and takes the tag of a skip only.
LEMMA RecordedOutcome ==
  ASSUME NEW r \in Outcome
  PROVE  /\ Recorded(r) \in Outcome
         /\ Recorded(r).result = "skipped" => Recorded(r).tag = None
  <1> DEFINE hinted == r.result = "green" /\ r.hint # None
  <1> DEFINE result == IF hinted THEN "yellow" ELSE r.result
  <1> DEFINE independent == r.independent /\ r.result = "green" /\ ~hinted
  <1> DEFINE accepted == r.accepted /\ r.result # "skipped"
  <1> DEFINE tag == IF r.result = "skipped" THEN None ELSE r.tag
  <1>1. /\ result \in {"green", "yellow", "red", "skipped"} /\ tag \in Tags \cup {None}
        /\ result = "skipped" => tag = None
    BY DEF Outcome
  <1>2. independent \in BOOLEAN /\ accepted \in BOOLEAN
    BY Zenon DEF Outcome
  <1>3. Recorded(r) = [r EXCEPT !.result = result, !.independent = independent,
                                !.accepted = accepted, !.tag = tag]
    BY DEF Recorded
  <1> HIDE DEF result, independent, accepted, tag
  <1> QED BY <1>1, <1>2, <1>3 DEF Outcome

\* The scheduler leaves a stability of a day at least, as of the day of the attempt, and
\* a due date within the 60 days after it.
LEMMA ScheduleBounds ==
  ASSUME NEW m \in Memory \cup {None}, NEW e \in Event
  PROVE  /\ Schedule(m, e) \in Memory
         /\ Schedule(m, e).last = e.day
         /\ Schedule(m, e).stability >= 1000
         /\ Schedule(m, e).due \in e.day + 1 .. e.day + 60
  <1> DEFINE before == IF m = None THEN 1000 ELSE Larger(1000, m.stability)
  <1> DEFINE delay == IF m = None THEN 0 ELSE Larger(0, e.day - m.last)
  <1> DEFINE bonus == IF delay >= 7 THEN 125 ELSE IF delay >= 2 THEN 110 ELSE 100
  <1> DEFINE lapse == e.result \in {"red", "skipped"} \/ e.hint # None \/ ~e.independent
  <1> DEFINE shrunk == IF m = None \/ ~m.counted THEN 1000
                       ELSE Larger(1000, (before * 62) \div 100)
  <1> DEFINE partly == Larger(1000, (before * 9) \div 10)
  <1> DEFINE grown == Larger(2000, (((before * 215) \div 100) * bonus) \div 100)
  <1>1. before \in Nat
    BY DEF Memory, Larger
  <1>2. bonus \in {100, 110, 125}
    OBVIOUS
  <1>3. shrunk \in Nat /\ shrunk >= 1000
    <2> HIDE DEF before
    <2> QED BY <1>1 DEF Larger
  <1>4. partly \in Nat /\ partly >= 1000
    <2> HIDE DEF before
    <2> QED BY <1>1 DEF Larger
  <1>5. grown \in Nat /\ grown >= 2000
    <2> HIDE DEF before, bonus
    <2>1. (before * 215) \div 100 \in Nat
      BY <1>1
    <2>2. ((before * 215) \div 100) * bonus \in Nat
      BY <1>2, <2>1
    <2>3. (((before * 215) \div 100) * bonus) \div 100 \in Int
      BY <2>2
    <2> QED BY <2>3 DEF Larger
  <1> DEFINE stability ==
        IF lapse THEN shrunk ELSE IF e.result = "yellow" THEN partly ELSE grown
  <1> DEFINE rounded == (stability + 500) \div 1000
  <1> DEFINE interval ==
        IF lapse \/ e.result = "yellow" THEN 1
        ELSE IF rounded > 60 THEN 60 ELSE Larger(2, rounded)
  <1>6. stability \in Nat /\ stability >= 1000
    <2> HIDE DEF shrunk, partly, grown, lapse
    <2> QED BY <1>3, <1>4, <1>5
  <1>7. interval \in 1..60
    <2> HIDE DEF stability, lapse
    <2> QED BY <1>6 DEF Larger
  <1>8. Schedule(m, e) = [stability |-> stability, counted |-> TRUE, last |-> e.day,
                          due |-> e.day + interval]
    BY DEF Schedule
  <1>9. e.day \in Nat
    BY DEF Event
  <1> HIDE DEF stability, interval
  <1> QED
    BY <1>6, <1>7, <1>8, <1>9 DEF Memory

-----------------------------------------------------------------------------
(* The invariant.                                                          *)

LEMMA InitIInv == Init => IInv
  BY EvidenceAssumption, NullAssumption
     DEF Init, IInv, TypeOK, SkipsAreUntagged, ReportedFailuresCount, DatedByNow,
         MemoryFollowsEvidence, DaysHere, Rows, RowsOf

\* What the memory of p promises.
RemembersHere(p) ==
  IF DaysHere(p) = {} THEN memory[p] = None
  ELSE /\ memory[p] # None /\ Timely(memory[p])
       /\ memory[p].last \in DaysHere(p)
       /\ \A day \in DaysHere(p) : day <= memory[p].last

\* A memory that is not written stands, if no attempt here adds a row of its problem.
LEMMA MemoryStands ==
  ASSUME MemoryFollowsEvidence, NEW p \in Problems, p \notin copied,
         memory'[p] = memory[p], DaysHere(p)' = DaysHere(p)
  PROVE  RemembersHere(p)'
  <1>1. RemembersHere(p)
    BY DEF MemoryFollowsEvidence, RemembersHere
  <1> QED BY <1>1 DEF RemembersHere, Timely

\* A row that is inserted moves the later ones, and is not of an attempt here.
LEMMA RowInserted ==
  ASSUME TypeOK, NEW e \in Event, e.origin = "tracker",
         NEW k \in 1..Len(events) + 1, events' = InsertAt(events, k, e)
  PROVE  \E n \in Nat :
           /\ DOMAIN events = 1..n /\ DOMAIN events' = 1..(n + 1) /\ k \in 1..(n + 1)
           /\ events' \in Seq(Event) /\ events'[k] = e
           /\ \A i \in 1..n : Moved(k, i) \in 1..(n + 1) /\ events'[Moved(k, i)] = events[i]
           /\ \A j \in 1..(n + 1) : j # k => \E i \in 1..n : j = Moved(k, i)
           /\ \A i, j \in 1..n : Moved(k, i) = Moved(k, j) => i = j
           /\ \A p \in Problems : DaysHere(p)' = DaysHere(p)
  <1> DEFINE n == Len(events)
  <1>1. n \in Nat /\ DOMAIN events = 1..n /\ events \in Seq(Event) /\ k \in 1..(n + 1)
    BY DEF TypeOK
  <1>2. /\ events' \in Seq(Event) /\ DOMAIN events' = 1..(n + 1) /\ events'[k] = e
        /\ \A i \in 1..(k - 1) : events'[i] = events[i]
        /\ \A i \in k..n : events'[i + 1] = events[i]
    <2> DEFINE front == SubSeq(events, 1, k - 1)
    <2> DEFINE back == SubSeq(events, k, n)
    <2>1. /\ front \in Seq(Event) /\ Len(front) = k - 1
          /\ \A i \in 1..(k - 1) : front[i] = events[i]
      BY <1>1
    <2>2. /\ back \in Seq(Event) /\ Len(back) = n - k + 1
          /\ \A i \in 1..(n - k + 1) : back[i] = events[k + i - 1]
      BY <1>1
    <2>3. events' = front \o <<e>> \o back
      BY DEF InsertAt
    <2> HIDE DEF front, back, n
    <2> DEFINE start == front \o <<e>>
    <2>4. /\ start \in Seq(Event) /\ Len(start) = k /\ start[k] = e
          /\ \A i \in 1..(k - 1) : start[i] = events[i]
      BY <1>1, <2>1
    <2> HIDE DEF start
    <2>5. events' = start \o back
      BY <2>3 DEF start
    <2>6. events' \in Seq(Event) /\ Len(events') = n + 1
      BY <1>1, <2>2, <2>4, <2>5
    <2>7. \A i \in 1..k : events'[i] = start[i]
      BY <1>1, <2>2, <2>4, <2>5
    <2>8. \A i \in 1..(n - k + 1) : events'[k + i] = back[i]
      BY <1>1, <2>2, <2>4, <2>5
    <2>9. ASSUME NEW i \in k..n PROVE events'[i + 1] = events[i]
      <3>1. i - k + 1 \in 1..(n - k + 1) /\ k + (i - k + 1) = i + 1 /\ k + (i - k + 1) - 1 = i
        BY <1>1
      <3> QED BY <2>2, <2>8, <3>1
    <2> QED BY <1>1, <2>4, <2>6, <2>7, <2>9
  <1> HIDE DEF n
  <1>3. \A i \in 1..n : Moved(k, i) \in 1..(n + 1) /\ events'[Moved(k, i)] = events[i]
    BY <1>1, <1>2 DEF Moved
  <1>4. ASSUME NEW j \in 1..(n + 1), j # k PROVE \E i \in 1..n : j = Moved(k, i)
    <2>1. CASE j < k
      <3>1. j \in 1..n /\ j = Moved(k, j)
        BY <1>1, <2>1 DEF Moved
      <3> QED BY <3>1
    <2>2. CASE j > k
      <3>1. j - 1 \in 1..n /\ j = Moved(k, j - 1)
        BY <1>1, <2>2 DEF Moved
      <3> QED BY <3>1
    <2> QED BY <1>1, <1>4, <2>1, <2>2
  <1>5. \A i, j \in 1..n : Moved(k, i) = Moved(k, j) => i = j
    BY <1>1 DEF Moved
  <1>6. ASSUME NEW p \in Problems PROVE DaysHere(p)' = DaysHere(p)
    <2>1. \A i \in 1..n :
            i \in RowsOf(p) /\ events[i].origin = "web" =>
              Moved(k, i) \in RowsOf(p)' /\ events'[Moved(k, i)].origin = "web"
      BY <1>1, <1>2, <1>3 DEF RowsOf, Rows
    <2>2. \A j \in 1..(n + 1) :
            j \in RowsOf(p)' /\ events'[j].origin = "web" =>
              \E i \in RowsOf(p) : events[i].origin = "web" /\ events'[j] = events[i]
      <3> SUFFICES ASSUME NEW j \in 1..(n + 1), j \in RowsOf(p)', events'[j].origin = "web"
                   PROVE  \E i \in RowsOf(p) : events[i].origin = "web" /\ events'[j] = events[i]
        OBVIOUS
      <3>1. j # k
        BY <1>2
      <3>2. PICK i \in 1..n : j = Moved(k, i)
        BY <1>4, <3>1
      <3>3. events'[j] = events[i]
        BY <1>3, <3>2
      <3>4. i \in RowsOf(p)
        BY <1>1, <3>3 DEF RowsOf, Rows
      <3> QED BY <3>3, <3>4
    <2>3. RowsOf(p) \subseteq 1..n /\ RowsOf(p)' \subseteq 1..(n + 1)
      BY <1>1, <1>2 DEF RowsOf, Rows
    <2>4. DaysHere(p) \subseteq DaysHere(p)'
      <3> SUFFICES ASSUME NEW i \in RowsOf(p), events[i].origin = "web"
                   PROVE  events[i].day \in DaysHere(p)'
        BY DEF DaysHere
      <3> QED BY <1>3, <2>1, <2>3 DEF DaysHere
    <2>5. DaysHere(p)' \subseteq DaysHere(p)
      <3> SUFFICES ASSUME NEW j \in RowsOf(p)', events'[j].origin = "web"
                   PROVE  events'[j].day \in DaysHere(p)
        BY DEF DaysHere
      <3> QED BY <2>2, <2>3 DEF DaysHere
    <2> QED BY <2>4, <2>5
  <1> QED BY <1>1, <1>2, <1>3, <1>4, <1>5, <1>6

\* The days of attempts here, after one more event.
LEMMA DaysAppended ==
  ASSUME TypeOK, NEW e \in Event, e.origin = "web", events' = Append(events, e),
         NEW p \in Problems
  PROVE  DaysHere(p)' = IF e.problem = p /\ e.result # "skipped" THEN DaysHere(p) \cup {e.day}
                        ELSE DaysHere(p)
  <1> DEFINE n == Len(events) + 1
  <1>1. /\ n \in Nat /\ DOMAIN events = 1..(n - 1) /\ DOMAIN events' = 1..n
        /\ events'[n] = e
        /\ \A i \in 1..(n - 1) : events'[i] = events[i]
    BY DEF TypeOK
  <1> HIDE DEF n
  <1> DEFINE here == {j \in RowsOf(p) : events[j].origin = "web"}
  <1>2. /\ here \subseteq 1..(n - 1)
        /\ here' = IF e.problem = p /\ e.result # "skipped" THEN here \cup {n} ELSE here
    BY <1>1 DEF RowsOf, Rows
  <1>3. DaysHere(p) = {events[i].day : i \in here} /\ DaysHere(p)' = {events'[i].day : i \in here'}
    BY DEF DaysHere
  <1> HIDE DEF here
  <1>4. {events'[i].day : i \in here} = {events[i].day : i \in here}
    BY <1>1, <1>2
  <1> QED BY <1>1, <1>2, <1>3, <1>4

LEMMA AttemptKeeps ==
  ASSUME IInv, NEW p \in Problems, NEW r \in Reports, Attempt(p, r)
  PROVE  IInv'
  <1> DEFINE e == EventOf(Recorded(r), p, today, "web")
  <1>1. /\ events' = Append(events, e)
        /\ classified' = classified \cup Classified(e)
        /\ memory' = [memory EXCEPT ![p] = Remembered(@, e)]
        /\ copied' = IF e.result = "skipped" THEN copied ELSE copied \ {p}
        /\ today' = today
    BY DEF Attempt
  <1>2. /\ e \in Event /\ e.problem = p /\ e.origin = "web" /\ e.day = today
        /\ e.result = "skipped" => e.tag = None
    BY RecordedOutcome, EvidenceAssumption DEF EventOf, Event, Outcome, IInv, TypeOK
  <1> HIDE DEF e
  <1>3. memory[p] \in Memory \cup {None} /\ memory \in [Problems -> Memory \cup {None}]
    BY DEF IInv, TypeOK
  <1> DEFINE n == Len(events) + 1
  <1>4. /\ n \in Nat /\ DOMAIN events = 1..(n - 1) /\ DOMAIN events' = 1..n
        /\ events'[n] = e
        /\ \A i \in 1..(n - 1) : events'[i] = events[i]
        /\ events' \in Seq(Event)
    BY <1>1, <1>2 DEF IInv, TypeOK
  <1>5. Classified(e) = IF e.tag # None THEN {n} ELSE {}
    BY <1>2 DEF Classified
  <1> HIDE DEF n
  <1>6. DatedByNow'
    BY <1>1, <1>2, <1>4, EvidenceAssumption DEF IInv, DatedByNow, TypeOK
  <1>7. MemoryFollowsEvidence' /\ memory' \in [Problems -> Memory \cup {None}]
    <2>1. CASE e.result = "skipped"
      <3>1. memory' = memory /\ copied' = copied
        BY <1>1, <1>3, <2>1 DEF Remembered
      <3>2. \A q \in Problems : DaysHere(q)' = DaysHere(q)
        BY <1>1, <1>2, <2>1, DaysAppended DEF IInv
      <3>3. \A q \in Problems \ copied' : RemembersHere(q)'
        BY <3>1, <3>2, MemoryStands DEF IInv
      <3> QED BY <1>3, <3>1, <3>3 DEF MemoryFollowsEvidence, RemembersHere
    <2>2. CASE e.result # "skipped"
      <3> DEFINE m == Schedule(memory[p], e)
      <3>1. m \in Memory /\ m.last = e.day /\ Timely(m)
        BY <1>2, <1>3, ScheduleBounds DEF Timely
      <3>2. memory' = [memory EXCEPT ![p] = m] /\ copied' = copied \ {p}
        BY <1>1, <1>3, <2>2 DEF Remembered
      <3> HIDE DEF m
      <3>3. ASSUME NEW q \in Problems, q \notin copied' PROVE RemembersHere(q)'
        <4>1. CASE q = p
          <5>1. memory'[p] = m /\ m # None
            BY <1>3, <3>1, <3>2, NullAssumption
          <5>2. DaysHere(p)' = DaysHere(p) \cup {today}
            BY <1>1, <1>2, <2>2, DaysAppended DEF IInv
          <5>3. \A day \in DaysHere(p)' : day <= today
            <6>1. \A day \in DaysHere(p) : day <= today
              BY DEF DaysHere, RowsOf, Rows, IInv, DatedByNow
            <6>2. today <= today
              BY EvidenceAssumption DEF IInv, TypeOK
            <6> QED BY <5>2, <6>1, <6>2
          <5>4. Timely(memory[p])'
            BY <3>1, <5>1 DEF Timely
          <5> QED BY <1>2, <3>1, <4>1, <5>1, <5>2, <5>3, <5>4 DEF RemembersHere
        <4>2. CASE q # p
          <5>1. memory'[q] = memory[q] /\ q \notin copied
            BY <1>3, <3>2, <3>3, <4>2
          <5>2. DaysHere(q)' = DaysHere(q)
            BY <1>1, <1>2, <4>2, DaysAppended DEF IInv
          <5> QED BY <5>1, <5>2, MemoryStands DEF IInv
        <4> QED BY <4>1, <4>2
      <3> QED BY <1>3, <3>1, <3>2, <3>3 DEF MemoryFollowsEvidence, RemembersHere
    <2> QED BY <2>1, <2>2
  <1>8. TypeOK'
    BY <1>1, <1>4, <1>5, <1>7 DEF IInv, TypeOK
  <1>9. SkipsAreUntagged'
    BY <1>2, <1>4 DEF IInv, SkipsAreUntagged
  <1>10. ReportedFailuresCount'
    <2>1. \A i \in DOMAIN events' :
            events'[i].origin = "web" => (i \in classified' <=> events'[i].tag # None)
      BY <1>1, <1>2, <1>4, <1>5 DEF IInv, TypeOK, ReportedFailuresCount
    <2>2. ASSUME NEW i \in DOMAIN events', events'[i].origin = "web",
                 events'[i].result = "skipped"
          PROVE  i \notin Rows' /\ i \notin classified'
      BY <1>9, <2>1, <2>2 DEF Rows, SkipsAreUntagged
    <2> QED BY <2>1, <2>2 DEF ReportedFailuresCount, TrapEvidence
  <1> QED BY <1>6, <1>7, <1>8, <1>9, <1>10 DEF IInv

\* A start classifies what has a tag; so does an import that finds nothing new in the log.
LEMMA ClassifyingKeeps ==
  ASSUME IInv, NothingLogged, today' = today
  PROVE  /\ events' \in Seq(Event) /\ classified' \subseteq DOMAIN events'
         /\ SkipsAreUntagged' /\ ReportedFailuresCount' /\ DatedByNow'
         /\ \A p \in Problems : DaysHere(p)' = DaysHere(p)
  <1> USE DEF NothingLogged
  <1>1. events' \in Seq(Event) /\ classified' \subseteq DOMAIN events'
    BY DEF IInv, TypeOK, Tagged
  <1>2. SkipsAreUntagged' /\ DatedByNow'
    BY DEF IInv, SkipsAreUntagged, DatedByNow
  <1>3. ReportedFailuresCount'
    BY DEF IInv, ReportedFailuresCount, SkipsAreUntagged, TrapEvidence, Tagged, Rows
  <1>4. \A p \in Problems : DaysHere(p)' = DaysHere(p)
    BY DEF DaysHere, RowsOf, Rows
  <1> QED BY <1>1, <1>2, <1>3, <1>4

\* A line of the log keeps what is classified of the rows it moves, and is no attempt here.
LEMMA LoggingKeeps ==
  ASSUME IInv, NEW p \in Problems, NEW r \in Imported, NEW day \in 0..today,
         Logged(p, r, day), today' = today
  PROVE  /\ events' \in Seq(Event) /\ classified' \subseteq DOMAIN events'
         /\ SkipsAreUntagged' /\ ReportedFailuresCount' /\ DatedByNow'
         /\ \A q \in Problems : DaysHere(q)' = DaysHere(q)
  <1> DEFINE e == EventOf(r, p, day, "tracker")
  <1>1. PICK k \in 1..Len(events) + 1 :
          events' = InsertAt(events, k, e) /\ classified' = {Moved(k, i) : i \in Tagged}
    BY DEF Logged
  <1>2. today \in Nat /\ day \in Nat /\ day <= today
    BY EvidenceAssumption DEF IInv, TypeOK
  <1>3. e \in Event /\ e.origin = "tracker" /\ e.day = day
    BY <1>2, EvidenceAssumption DEF EventOf, Event, Outcome
  <1> HIDE DEF e
  <1>4. PICK n \in Nat :
          /\ DOMAIN events = 1..n /\ DOMAIN events' = 1..(n + 1) /\ k \in 1..(n + 1)
          /\ events' \in Seq(Event) /\ events'[k] = e
          /\ \A i \in 1..n : Moved(k, i) \in 1..(n + 1) /\ events'[Moved(k, i)] = events[i]
          /\ \A j \in 1..(n + 1) : j # k => \E i \in 1..n : j = Moved(k, i)
          /\ \A i, j \in 1..n : Moved(k, i) = Moved(k, j) => i = j
          /\ \A q \in Problems : DaysHere(q)' = DaysHere(q)
    <2>1. TypeOK
      BY DEF IInv
    <2> QED BY <1>1, <1>3, <2>1, RowInserted
  <1>5. Tagged \subseteq 1..n
    BY <1>4 DEF Tagged
  <1>6. classified' \subseteq DOMAIN events'
    BY <1>1, <1>4, <1>5
  <1>7. ASSUME NEW j \in DOMAIN events', events'[j].origin = "web"
        PROVE  \E i \in DOMAIN events :
                 events'[j] = events[i] /\ (j \in classified' <=> i \in Tagged)
    <2>1. j # k
      BY <1>3, <1>4, <1>7
    <2>2. PICK i \in 1..n : j = Moved(k, i)
      BY <1>4, <2>1
    <2>3. events'[j] = events[i]
      BY <1>4, <2>2
    <2>4. j \in classified' <=> i \in Tagged
      BY <1>1, <1>4, <1>5, <2>2
    <2> QED BY <1>4, <2>3, <2>4
  <1>8. SkipsAreUntagged'
    BY <1>7 DEF IInv, SkipsAreUntagged
  <1>9. ReportedFailuresCount'
    <2>1. \A j \in DOMAIN events' :
            events'[j].origin = "web" => (j \in classified' <=> events'[j].tag # None)
      BY <1>7 DEF Tagged
    <2>2. ASSUME NEW j \in DOMAIN events', events'[j].origin = "web",
                 events'[j].result = "skipped"
          PROVE  j \notin Rows' /\ j \notin classified'
      BY <1>8, <2>1, <2>2 DEF Rows, SkipsAreUntagged
    <2> QED BY <2>1, <2>2 DEF ReportedFailuresCount, TrapEvidence
  <1>10. DatedByNow'
    <2> SUFFICES ASSUME NEW j \in 1..(n + 1) PROVE events'[j].day <= today
      BY <1>4 DEF DatedByNow
    <2>1. CASE j = k
      BY <1>2, <1>3, <1>4, <2>1
    <2>2. CASE j # k
      <3>1. PICK i \in 1..n : j = Moved(k, i)
        BY <1>4, <2>2
      <3>2. events'[j] = events[i]
        BY <1>4, <3>1
      <3> QED BY <1>4, <3>2 DEF IInv, DatedByNow
    <2> QED BY <2>1, <2>2
  <1> QED BY <1>4, <1>6, <1>8, <1>9, <1>10

LEMMA SeedKeeps ==
  ASSUME IInv, Seed
  PROVE  IInv'
  <1>1. NothingLogged /\ today' = today /\ memory' = memory /\ copied' = copied
    BY DEF Seed, NothingLogged
  <1>2. /\ events' \in Seq(Event) /\ classified' \subseteq DOMAIN events'
        /\ SkipsAreUntagged' /\ ReportedFailuresCount' /\ DatedByNow'
        /\ \A p \in Problems : DaysHere(p)' = DaysHere(p)
    BY <1>1, ClassifyingKeeps
  <1>3. TypeOK'
    BY <1>1, <1>2 DEF IInv, TypeOK
  <1>4. \A p \in Problems \ copied' : RemembersHere(p)'
    BY <1>1, <1>2, MemoryStands DEF IInv
  <1>5. MemoryFollowsEvidence'
    BY <1>4 DEF MemoryFollowsEvidence, RemembersHere
  <1> QED BY <1>2, <1>3, <1>5 DEF IInv

LEMMA ImportKeeps ==
  ASSUME IInv, NEW state \in States, Import(state)
  PROVE  IInv'
  <1>1. /\ today' = today
        /\ memory' = [p \in Problems |-> IF state[p] = None THEN memory[p] ELSE Filled(state[p])]
        /\ copied' = copied \cup {p \in Problems : state[p] # None}
    BY DEF Import, Copy
  <1>2. /\ events' \in Seq(Event) /\ classified' \subseteq DOMAIN events'
        /\ SkipsAreUntagged' /\ ReportedFailuresCount' /\ DatedByNow'
        /\ \A p \in Problems : DaysHere(p)' = DaysHere(p)
    BY <1>1, ClassifyingKeeps, LoggingKeeps DEF Import
  <1>3. TypeOK'
    <2>1. ASSUME NEW p \in Problems, state[p] # None PROVE Filled(state[p]) \in Memory
      <3>1. state[p] \in Told /\ today \in Nat
        BY <2>1, EvidenceAssumption DEF IInv, TypeOK
      <3> QED BY <3>1 DEF Filled, Told, Memory
    <2>2. memory' \in [Problems -> Memory \cup {None}]
      BY <1>1, <2>1 DEF IInv, TypeOK
    <2> QED BY <1>1, <1>2, <2>2 DEF IInv, TypeOK
  <1>4. ASSUME NEW p \in Problems, p \notin copied' PROVE RemembersHere(p)'
    <2>1. p \notin copied /\ memory'[p] = memory[p]
      BY <1>1, <1>4
    <2> QED BY <1>2, <2>1, MemoryStands DEF IInv
  <1>5. MemoryFollowsEvidence'
    BY <1>4 DEF MemoryFollowsEvidence, RemembersHere
  <1> QED BY <1>2, <1>3, <1>5 DEF IInv

LEMMA StepKeeps == IInv /\ [Next]_vars => IInv'
  <1> SUFFICES ASSUME IInv, [Next]_vars PROVE IInv'
    OBVIOUS
  <1>1. ASSUME NEW p \in Problems, NEW r \in Reports, Attempt(p, r) PROVE IInv'
    BY <1>1, AttemptKeeps
  <1>2. CASE Seed
    BY <1>2, SeedKeeps
  <1>3. ASSUME NEW state \in States, Import(state) PROVE IInv'
    BY <1>3, ImportKeeps
  <1>4. ASSUME UNCHANGED evidenceVars, today' = today \/ \E days \in Sleeps : Sleep(days)
        PROVE  IInv'
    <2>1. UNCHANGED <<events, classified, memory, copied>>
      BY <1>4 DEF evidenceVars
    <2>2. today \in Nat /\ today' \in Nat /\ today <= today' /\ today' \in 0..MaxDay
      BY <1>4, EvidenceAssumption DEF IInv, TypeOK, Sleep
    <2>3. TypeOK'
      BY <2>1, <2>2 DEF IInv, TypeOK
    <2>4. SkipsAreUntagged' /\ ReportedFailuresCount'
      BY <2>1 DEF IInv, SkipsAreUntagged, ReportedFailuresCount, TrapEvidence, Rows
    <2>5. DatedByNow'
      <3> SUFFICES ASSUME NEW i \in DOMAIN events PROVE events[i].day <= today'
        BY <2>1 DEF DatedByNow
      <3>1. events[i] \in Event /\ events[i].day <= today
        BY DEF IInv, TypeOK, DatedByNow
      <3>2. events[i].day \in Nat
        BY <3>1 DEF Event
      <3> QED BY <2>2, <3>1, <3>2
    <2>6. \A p \in Problems : DaysHere(p)' = DaysHere(p)
      BY <2>1 DEF DaysHere, RowsOf, Rows
    <2>7. \A p \in Problems \ copied' : RemembersHere(p)'
      BY <2>1, <2>6, MemoryStands DEF IInv
    <2>8. MemoryFollowsEvidence'
      BY <2>7 DEF MemoryFollowsEvidence, RemembersHere
    <2> QED BY <2>3, <2>4, <2>5, <2>8 DEF IInv
  <1>5. ASSUME NEW days \in Sleeps, Sleep(days) PROVE IInv'
    BY <1>4, <1>5 DEF Sleep
  <1>6. CASE UNCHANGED vars
    BY <1>4, <1>6 DEF vars
  <1> QED BY <1>1, <1>2, <1>3, <1>5, <1>6 DEF Next

LEMMA Inductive == Spec => []IInv
  BY InitIInv, StepKeeps, PTL DEF Spec

\* The variables stay in their types.
THEOREM TypeCorrect == Spec => []TypeOK
  BY Inductive, PTL DEF IInv

\* A failure reported here is classified at once and stays so, a skip never becomes
\* part of a trap.
THEOREM ReportedFailuresCountHolds == Spec => []ReportedFailuresCount
  BY Inductive, PTL DEF IInv

\* Whatever state files hold, and however imports, skips and attempts alternate: the memory
\* of a problem is sound and as of the latest attempt here, from the first attempt on that
\* follows what an import wrote; a problem without either is not remembered.
THEOREM MemoryFollowsEvidenceHolds == Spec => []MemoryFollowsEvidence
  BY Inductive, PTL DEF IInv

-----------------------------------------------------------------------------
(* Largest elements: an induction, by way of the least number that would   *)
(* be a counterexample.                                                    *)

LEMMA LeastOf ==
  ASSUME NEW T \in SUBSET Nat, T # {}
  PROVE  \E n \in T : \A m \in T : n <= m
  <1> DEFINE Less == {p \in Nat \X Nat : p[1] < p[2]}
  <1>1. IsWellFoundedOn(Less, Nat)
    BY NatLessThanWellFounded DEF OpToRel
  <1>2. \E n \in T : \A m \in T : ~(<<m, n>> \in Less)
    <2> HIDE DEF Less
    <2> QED BY <1>1, WFMin
  <1>3. PICK n \in T : \A m \in T : ~(<<m, n>> \in Less)
    BY <1>2
  <1>4. ASSUME NEW m \in T PROVE n <= m
    <2>1. m \in Nat /\ n \in Nat /\ <<m, n>> \in Nat \X Nat /\ ~(<<m, n>> \in Less)
      BY <1>3
    <2>2. ~(m < n)
      BY <2>1
    <2> QED BY <2>1, <2>2
  <1> QED BY <1>4

LEMMA LatestIsLargest ==
  ASSUME NEW S \in SUBSET Nat, S # {}, NEW b \in Nat, \A x \in S : x <= b
  PROVE  Latest(S) \in S /\ \A x \in S : x <= Latest(S)
  <1> DEFINE Bounds == {n \in Nat : \A x \in S : x <= n}
  <1>1. PICK n \in Bounds : \A m \in Bounds : n <= m
    <2>1. b \in Bounds /\ Bounds \subseteq Nat
      OBVIOUS
    <2> HIDE DEF Bounds
    <2> QED BY <2>1, LeastOf
  <1>2. n \in S
    <2>1. SUFFICES ASSUME n \notin S PROVE FALSE
      OBVIOUS
    <2>2. n \in Nat /\ \A x \in S : x < n
      BY <1>1, <2>1
    <2>3. n # 0
      <3>1. PICK x \in S : x < n
        BY <2>2
      <3> QED BY <3>1
    <2>4. n - 1 \in Bounds
      BY <2>2, <2>3
    <2> QED BY <1>1, <2>2, <2>4
  <1>3. \E i \in S : \A j \in S : j <= i
    BY <1>1, <1>2
  <1> QED BY <1>3 DEF Latest

-----------------------------------------------------------------------------
(* What an attempt adds to what is observed.                               *)

\* An event that is appended leaves what the earlier ones say.
LEMMA SignalsStay ==
  ASSUME TypeOK, NEW e \in Event, events' = Append(events, e),
         NEW n, n = Len(events) + 1, classified' \in {classified, classified \cup {n}}
  PROVE  /\ n \in Nat /\ events'[n] = e /\ Len(events') = n
         /\ Rows \subseteq 1..(n - 1)
         /\ Rows' = IF e.result = "skipped" THEN Rows ELSE Rows \cup {n}
         /\ \A i \in Rows : events'[i] = events[i]
         /\ \A i \in Rows, d \in Dimensions : Signal(i, d)' = Signal(i, d)
  <1>1. /\ n \in Nat /\ DOMAIN events = 1..(n - 1) /\ DOMAIN events' = 1..n
        /\ events'[n] = e /\ Len(events') = n
        /\ \A i \in 1..(n - 1) : events'[i] = events[i]
    BY DEF TypeOK
  <1>2. /\ Rows \subseteq 1..(n - 1)
        /\ Rows' = IF e.result = "skipped" THEN Rows ELSE Rows \cup {n}
    BY <1>1 DEF Rows
  <1>3. ASSUME NEW i \in Rows, NEW d \in Dimensions
        PROVE  Signal(i, d)' = Signal(i, d)
    <2>1. i \in 1..(n - 1) /\ events'[i] = events[i] /\ (i \in classified' <=> i \in classified)
      BY <1>1, <1>2
    <2>2. FailedDimensions(i)' = FailedDimensions(i) /\ Clean(i)' = Clean(i)
      BY <2>1 DEF FailedDimensions, Clean
    <2>3. FromResult(i, d)' = FromResult(i, d)
      BY <2>1, <2>2 DEF FromResult
    <2> DEFINE earlier == {j \in RowsOf(events[i].problem) : j < i}
    <2>4. earlier \subseteq 1..(n - 1) /\ \A x \in earlier : x <= i
      <3>1. earlier \subseteq Rows
        BY DEF RowsOf
      <3>2. earlier \subseteq 1..(n - 1)
        BY <1>2, <3>1
      <3> QED BY <1>1, <2>1, <3>2
    <2>5. earlier' = earlier
      <3>1. \A j : j \in Rows' /\ j < i => j \in Rows
        BY <1>1, <1>2, <2>1
      <3>2. Rows \subseteq Rows' /\ \A j \in Rows : events'[j] = events[j]
        BY <1>1, <1>2
      <3>3. earlier = {j \in Rows : events[j].problem = events[i].problem /\ j < i}
        BY DEF RowsOf
      <3>4. earlier' = {j \in Rows' : events'[j].problem = events'[i].problem /\ j < i}
        BY DEF RowsOf
      <3> HIDE DEF earlier
      <3> QED BY <2>1, <3>1, <3>2, <3>3, <3>4
    <2>6. DaysSincePrevious(i)' = DaysSincePrevious(i)
      <3>1. CASE earlier = {}
        BY <2>1, <2>5, <3>1 DEF DaysSincePrevious
      <3>2. CASE earlier # {}
        <4>1. Latest(earlier) \in 1..(n - 1)
          <5>1. earlier \in SUBSET Nat /\ i \in Nat
            BY <2>1, <2>4
          <5> HIDE DEF earlier
          <5> QED BY <2>4, <3>2, <5>1, LatestIsLargest
        <4>2. events'[Latest(earlier)] = events[Latest(earlier)]
          BY <1>1, <4>1
        <4>3. DaysSincePrevious(i) = events[i].day - events[Latest(earlier)].day
          BY <3>2 DEF DaysSincePrevious
        <4>4. DaysSincePrevious(i)' = events'[i].day - events'[Latest(earlier')].day
          BY <2>5, <3>2 DEF DaysSincePrevious
        <4> QED BY <2>1, <2>5, <4>2, <4>3, <4>4
      <3> QED BY <3>1, <3>2
    <2>7. FromScore(i)' = FromScore(i)
      BY <2>1 DEF FromScore
    <2>8. FromGap(i)' = FromGap(i)
      BY <2>1, <2>2, <2>6 DEF FromGap
    <2>9. Signal(i, d) = CASE d = "retention" -> FromGap(i)
                           [] d = "explanation" /\ events[i].score # None -> FromScore(i)
                           [] OTHER -> FromResult(i, d)
      BY DEF Signal
    <2> QED BY <2>1, <2>3, <2>7, <2>8 DEF Signal
  <1> QED BY <1>1, <1>2, <1>3

\* The observations of a dimension are numbers of rows.
LEMMA ObservationsAreRows ==
  ASSUME TypeOK, NEW s, NEW d
  PROVE  /\ Observations(s, d) \subseteq Rows /\ Rows \subseteq 1..Len(events)
         /\ Len(events) \in Nat
         /\ Observations(s, d) # {} =>
              /\ Latest(Observations(s, d)) \in Observations(s, d)
              /\ \A i \in Observations(s, d) : i <= Latest(Observations(s, d))
         /\ \A signal : /\ Saying(s, d, signal) \subseteq Observations(s, d)
                        /\ IsFiniteSet(Saying(s, d, signal))
                        /\ Cardinality(Saying(s, d, signal)) \in Nat
  <1>1. /\ Observations(s, d) \subseteq Rows /\ Rows \subseteq 1..Len(events)
        /\ Len(events) \in Nat
    BY DEF Observations, Rows, TypeOK
  <1>2. Observations(s, d) \in SUBSET Nat /\ \A i \in Observations(s, d) : i <= Len(events)
    <2>1. \A i \in 1..Len(events) : i \in Nat /\ i <= Len(events)
      BY <1>1
    <2> QED BY <1>1, <2>1
  <1>3. ASSUME NEW signal
        PROVE  /\ Saying(s, d, signal) \subseteq Observations(s, d)
               /\ IsFiniteSet(Saying(s, d, signal))
               /\ Cardinality(Saying(s, d, signal)) \in Nat
    <2>1. Saying(s, d, signal) \subseteq Observations(s, d)
      BY DEF Saying
    <2>2. IsFiniteSet(1..Len(events))
      BY <1>1, FS_Interval
    <2>3. IsFiniteSet(Saying(s, d, signal))
      BY <1>1, <2>1, <2>2, FS_Subset
    <2> QED BY <2>1, <2>3, FS_CardinalityType
  <1> QED BY <1>1, <1>2, <1>3, LatestIsLargest

\* Nothing new is observed of a dimension.
NothingNew(n, s, d) ==
  /\ n \notin Observations(s, d)'
  /\ Observations(s, d)' = Observations(s, d)
  /\ \A signal : Saying(s, d, signal)' = Saying(s, d, signal)
  /\ Observations(s, d) # {} =>
       /\ Signal(Latest(Observations(s, d)), d)' = Signal(Latest(Observations(s, d)), d)
       /\ events'[Latest(Observations(s, d))] = events[Latest(Observations(s, d))]

\* The event e, the n-th, is one observation more, and the latest.
OneNew(n, e, s, d) ==
  /\ n \in Observations(s, d)' /\ n \notin Observations(s, d)
  /\ e.result # "skipped" /\ e.problem \in ProblemsOf(s) /\ Signal(n, d)' # None
  /\ Latest(Observations(s, d))' = n
  /\ \A signal :
       Saying(s, d, signal)' =
         IF Signal(n, d)' = signal THEN Saying(s, d, signal) \cup {n} ELSE Saying(s, d, signal)

\* What becomes of what is observed of a dimension: nothing, or one observation more.
LEMMA OneObservation ==
  ASSUME TypeOK, NEW e \in Event, events' = Append(events, e),
         NEW n, n = Len(events) + 1, classified' \in {classified, classified \cup {n}},
         NEW s, NEW d \in Dimensions
  PROVE  NothingNew(n, s, d) \/ OneNew(n, e, s, d)
  <1>1. /\ n \in Nat /\ events'[n] = e
        /\ Rows \subseteq 1..(n - 1)
        /\ Rows' = IF e.result = "skipped" THEN Rows ELSE Rows \cup {n}
        /\ \A i \in Rows : events'[i] = events[i]
        /\ \A i \in Rows : Signal(i, d)' = Signal(i, d)
    BY SignalsStay
  <1>2. n \notin Rows
    BY <1>1
  <1>3. ProblemsOf(s)' = ProblemsOf(s)
    BY DEF ProblemsOf
  <1>4. \A i \in Rows : i \in Observations(s, d)' <=> i \in Observations(s, d)
    BY <1>1, <1>3 DEF Observations
  <1>5. Observations(s, d)' \subseteq Rows \cup {n}
    BY <1>1 DEF Observations
  <1>6. Observations(s, d) \subseteq Rows
    BY DEF Observations
  <1>7. CASE n \notin Observations(s, d)'
    <2>1. Observations(s, d)' = Observations(s, d)
      BY <1>4, <1>5, <1>6, <1>7
    <2>2. ASSUME NEW signal PROVE Saying(s, d, signal)' = Saying(s, d, signal)
      <3>1. \A i \in Observations(s, d) : Signal(i, d)' = Signal(i, d)
        BY <1>1, <1>6
      <3>2. \A i : i \in Saying(s, d, signal) <=>
                     i \in Observations(s, d) /\ Signal(i, d) = signal
        BY DEF Saying
      <3>3. \A i : i \in Saying(s, d, signal)' <=>
                     i \in Observations(s, d)' /\ Signal(i, d)' = signal
        BY DEF Saying
      <3> QED BY <2>1, <3>1, <3>2, <3>3
    <2>3. Observations(s, d) # {} => Latest(Observations(s, d)) \in Rows
      BY <1>6, ObservationsAreRows
    <2> QED BY <1>1, <1>7, <2>1, <2>2, <2>3 DEF NothingNew
  <1>8. CASE n \in Observations(s, d)'
    <2>1. Observations(s, d)' = Observations(s, d) \cup {n}
      BY <1>4, <1>5, <1>6, <1>8
    <2>2. e.result # "skipped" /\ e.problem \in ProblemsOf(s) /\ Signal(n, d)' # None
      BY <1>1, <1>2, <1>3, <1>8 DEF Observations
    <2>3. ASSUME NEW signal
          PROVE  Saying(s, d, signal)' =
                   IF Signal(n, d)' = signal THEN Saying(s, d, signal) \cup {n}
                   ELSE Saying(s, d, signal)
      <3>1. \A i \in Observations(s, d) : Signal(i, d)' = Signal(i, d)
        BY <1>1, <1>6
      <3>2. \A i : i \in Saying(s, d, signal) <=>
                     i \in Observations(s, d) /\ Signal(i, d) = signal
        BY DEF Saying
      <3>3. \A i : i \in Saying(s, d, signal)' <=>
                     i \in Observations(s, d)' /\ Signal(i, d)' = signal
        BY DEF Saying
      <3> QED BY <2>1, <3>1, <3>2, <3>3
    <2>4. Latest(Observations(s, d)') = n
      <3> DEFINE S == Observations(s, d)'
      <3>1. S \in SUBSET Nat /\ n \in S /\ \A x \in S : x <= n
        <4>1. \A x \in Rows : x \in Nat /\ x <= n
          BY <1>1
        <4>2. S = Observations(s, d) \cup {n} /\ Observations(s, d) \subseteq Rows
          BY <1>6, <2>1
        <4>3. n \in Nat /\ n <= n
          BY <1>1
        <4> HIDE DEF S
        <4> QED BY <4>1, <4>2, <4>3
      <3> HIDE DEF S
      <3>2. Latest(S) \in S /\ \A x \in S : x <= Latest(S)
        BY <1>1, <3>1, LatestIsLargest
      <3>3. Latest(S) = n
        <4>1. Latest(S) \in Nat /\ Latest(S) <= n /\ n <= Latest(S)
          BY <3>1, <3>2
        <4> QED BY <1>1, <4>1
      <3> QED BY <3>3 DEF S
    <2>5. Latest(Observations(s, d))' = n
      BY <2>4
    <2> QED BY <1>2, <1>6, <1>8, <2>2, <2>3, <2>5 DEF OneNew
  <1> QED BY <1>7, <1>8

-----------------------------------------------------------------------------
(* Cells: what becomes of the state of a skill in a dimension.             *)

Failures(s, d) == Cardinality(Saying(s, d, "failed"))
LastSignal(s, d) == Signal(Latest(Observations(s, d)), d)

\* The cell has heard nothing.
Unheard(s, d) ==
  /\ Observations(s, d)' = Observations(s, d)
  /\ IndependentCount(s, d)' = IndependentCount(s, d) /\ Failures(s, d)' = Failures(s, d)
  /\ Observations(s, d) # {} => LastSignal(s, d)' = LastSignal(s, d)

\* The cell has heard of a failure, or of nothing and may have been forgotten.
Sinks(s, d) ==
  \/ Unheard(s, d) /\ (Proven(s, d) /\ Observations(s, d) # {} /\ Decays(s, d) => Decays(s, d)')
  \/ /\ Observations(s, d)' # {} /\ LastSignal(s, d)' = "failed"
     /\ IndependentCount(s, d)' = IndependentCount(s, d)
     /\ Failures(s, d)' = Failures(s, d) + 1

\* The cell has heard of a proof, or of nothing and is remembered as well as before.
Climbs(s, d) ==
  \/ Unheard(s, d) /\ (Proven(s, d) /\ Observations(s, d) # {} /\ Decays(s, d)' => Decays(s, d))
  \/ /\ Observations(s, d)' # {} /\ LastSignal(s, d)' = "independent" /\ ~Decays(s, d)'
     /\ IndependentCount(s, d)' = IndependentCount(s, d) + 1

LEMMA Counts ==
  ASSUME TypeOK, NEW s, NEW d
  PROVE  /\ IndependentCount(s, d) \in Nat /\ Failures(s, d) \in Nat
         /\ Observations(s, d) = {} => IndependentCount(s, d) = 0
  <1>1. IndependentCount(s, d) \in Nat /\ Failures(s, d) \in Nat
    BY ObservationsAreRows DEF IndependentCount, Failures
  <1>2. ASSUME Observations(s, d) = {} PROVE IndependentCount(s, d) = 0
    <2>1. Saying(s, d, "independent") = {}
      BY <1>2 DEF Saying
    <2> QED BY <2>1, FS_EmptySet DEF IndependentCount
  <1> QED BY <1>1, <1>2

LEMMA NaiveCases ==
  ASSUME NEW s, NEW d
  PROVE  Naive(s, d) =
           IF Observations(s, d) = {} THEN "no_evidence"
           ELSE IF IndependentCount(s, d) >= 2 /\ LastSignal(s, d) # "failed"
             THEN IF Decays(s, d) THEN "decaying" ELSE "independent"
             ELSE IF IndependentCount(s, d) = 1 THEN "developing" ELSE "fragile"
  BY DEF Naive, Proven, Threshold, LastSignal

\* The same of the next state.
LEMMA NaiveCasesNext ==
  ASSUME NEW s, NEW d
  PROVE  Naive(s, d)' =
           IF Observations(s, d)' = {} THEN "no_evidence"
           ELSE IF IndependentCount(s, d)' >= 2 /\ LastSignal(s, d)' # "failed"
             THEN IF Decays(s, d)' THEN "decaying" ELSE "independent"
             ELSE IF IndependentCount(s, d)' = 1 THEN "developing" ELSE "fragile"
  BY DEF Naive, Proven, Threshold, LastSignal

LEMMA SinkingCell ==
  ASSUME TypeOK, NEW s, NEW d, Sinks(s, d)
  PROVE  /\ Naive(s, d) = "fragile" => Naive(s, d)' = "fragile"
         /\ Naive(s, d) = "no_evidence" => Naive(s, d)' \in {"no_evidence", "fragile"}
         /\ Value(Naive(s, d)') <= Value(Naive(s, d))
         /\ Failures(s, d)' >= Failures(s, d)
  <1>1. /\ IndependentCount(s, d) \in Nat /\ Failures(s, d) \in Nat
        /\ Observations(s, d) = {} => IndependentCount(s, d) = 0
    BY Counts
  <1>2. CASE Unheard(s, d) /\ (Proven(s, d) /\ Observations(s, d) # {} /\ Decays(s, d) => Decays(s, d)')
    <2>1. /\ Observations(s, d)' = Observations(s, d)
          /\ IndependentCount(s, d)' = IndependentCount(s, d)
          /\ Failures(s, d)' = Failures(s, d)
          /\ Observations(s, d) # {} => LastSignal(s, d)' = LastSignal(s, d)
      BY <1>2 DEF Unheard
    <2>2. \/ Naive(s, d)' = Naive(s, d)
          \/ Naive(s, d) = "independent" /\ Naive(s, d)' = "decaying"
      <3>1. /\ Observations(s, d) # {} /\ IndependentCount(s, d) >= 2
            /\ LastSignal(s, d) # "failed"
            => (Decays(s, d) => Decays(s, d)')
        BY <1>2 DEF Proven, Threshold, LastSignal
      <3> QED BY <2>1, <3>1, NaiveCases, NaiveCasesNext
    <2>3. Naive(s, d) \in {"no_evidence", "decaying", "independent", "developing", "fragile"}
      BY NaiveCases
    <2> QED BY <1>1, <2>1, <2>2, <2>3 DEF Value
  <1>3. CASE /\ Observations(s, d)' # {} /\ LastSignal(s, d)' = "failed"
             /\ IndependentCount(s, d)' = IndependentCount(s, d)
             /\ Failures(s, d)' = Failures(s, d) + 1
    <2>1. Naive(s, d)' = IF IndependentCount(s, d) = 1 THEN "developing" ELSE "fragile"
      BY <1>3, NaiveCasesNext
    <2>2. IndependentCount(s, d) = 1 => Naive(s, d) = "developing"
      BY <1>1, NaiveCases
    <2>3. Naive(s, d) \in {"no_evidence", "decaying", "independent", "developing", "fragile"}
      BY NaiveCases
    <2>4. Naive(s, d) \in {"no_evidence", "fragile"} => IndependentCount(s, d) # 1
      BY <1>1, NaiveCases
    <2> QED BY <1>1, <1>3, <2>1, <2>2, <2>3, <2>4 DEF Value
  <1> QED BY <1>2, <1>3 DEF Sinks

LEMMA ClimbingCell ==
  ASSUME TypeOK, NEW s, NEW d, Climbs(s, d)
  PROVE  /\ Naive(s, d)' = "fragile" =>
              Naive(s, d) = "fragile" /\ Failures(s, d)' = Failures(s, d)
         /\ Naive(s, d)' = "no_evidence" => Naive(s, d) = "no_evidence"
         /\ Value(Naive(s, d)') >= Value(Naive(s, d))
  <1>1. /\ IndependentCount(s, d) \in Nat
        /\ Observations(s, d) = {} => IndependentCount(s, d) = 0
    BY Counts
  <1>2. CASE Unheard(s, d) /\ (Proven(s, d) /\ Observations(s, d) # {} /\ Decays(s, d)' => Decays(s, d))
    <2>1. /\ Observations(s, d)' = Observations(s, d)
          /\ IndependentCount(s, d)' = IndependentCount(s, d)
          /\ Failures(s, d)' = Failures(s, d)
          /\ Observations(s, d) # {} => LastSignal(s, d)' = LastSignal(s, d)
      BY <1>2 DEF Unheard
    <2>2. \/ Naive(s, d)' = Naive(s, d)
          \/ Naive(s, d) = "decaying" /\ Naive(s, d)' = "independent"
      <3>1. /\ Observations(s, d) # {} /\ IndependentCount(s, d) >= 2
            /\ LastSignal(s, d) # "failed"
            => (Decays(s, d)' => Decays(s, d))
        BY <1>2 DEF Proven, Threshold, LastSignal
      <3> QED BY <2>1, <3>1, NaiveCases, NaiveCasesNext
    <2>3. Naive(s, d) \in {"no_evidence", "decaying", "independent", "developing", "fragile"}
      BY NaiveCases
    <2> QED BY <1>1, <2>1, <2>2, <2>3 DEF Value
  <1>3. CASE /\ Observations(s, d)' # {} /\ LastSignal(s, d)' = "independent" /\ ~Decays(s, d)'
             /\ IndependentCount(s, d)' = IndependentCount(s, d) + 1
    <2>1. Naive(s, d)' = IF IndependentCount(s, d) >= 1 THEN "independent" ELSE "developing"
      BY <1>1, <1>3, NaiveCasesNext
    <2>2. IndependentCount(s, d) = 0 => Naive(s, d) \in {"no_evidence", "fragile"}
      BY <1>1, NaiveCases
    <2>3. Naive(s, d) \in {"no_evidence", "decaying", "independent", "developing", "fragile"}
      BY NaiveCases
    <2> QED BY <1>1, <2>1, <2>2, <2>3 DEF Value
  <1> QED BY <1>2, <1>3 DEF Climbs

LEMMA StateCases ==
  ASSUME NEW s, NEW d
  PROVE  /\ Naive(s, d) \in {"no_evidence", "decaying", "independent", "developing", "fragile"}
         /\ Value(Naive(s, d)) \in Nat /\ Value(Naive(s, d)) > 10
         /\ \/ SkillState(s, d) = Naive(s, d)
            \/ SkillState(s, d) = "blocked" /\ Value(SkillState(s, d)) = 10
         /\ SkillState(s, d) = "blocked" <=>
              /\ Naive(s, d) = "fragile" /\ Failures(s, d) >= 2
              /\ \E q \in Prerequisites[s] : IsWeak(q)
  <1>1. Naive(s, d) \in {"no_evidence", "decaying", "independent", "developing", "fragile"}
    BY NaiveCases
  <1>2. Value(Naive(s, d)) \in Nat /\ Value(Naive(s, d)) > 10
    BY <1>1 DEF Value
  <1>3. SkillState(s, d) =
          IF /\ Naive(s, d) = "fragile" /\ Failures(s, d) >= 2
             /\ \E q \in Prerequisites[s] : IsWeak(q)
          THEN "blocked" ELSE Naive(s, d)
    BY DEF SkillState, Failures
  <1>4. Value("blocked") = 10
    BY DEF Value
  <1> QED BY <1>1, <1>2, <1>3, <1>4

LEMMA StateCasesNext ==
  ASSUME NEW s, NEW d
  PROVE  /\ Naive(s, d)' \in {"no_evidence", "decaying", "independent", "developing", "fragile"}
         /\ Value(Naive(s, d)') \in Nat /\ Value(Naive(s, d)') > 10
         /\ \/ SkillState(s, d)' = Naive(s, d)'
            \/ SkillState(s, d)' = "blocked" /\ Value(SkillState(s, d)') = 10
         /\ SkillState(s, d)' = "blocked" <=>
              /\ Naive(s, d)' = "fragile" /\ Failures(s, d)' >= 2
              /\ \E q \in Prerequisites[s] : IsWeak(q)'
  <1>1. Naive(s, d)' \in {"no_evidence", "decaying", "independent", "developing", "fragile"}
    BY NaiveCasesNext
  <1>2. Value(Naive(s, d)') \in Nat /\ Value(Naive(s, d)') > 10
    BY <1>1 DEF Value
  <1>3. SkillState(s, d)' =
          IF /\ Naive(s, d)' = "fragile" /\ Failures(s, d)' >= 2
             /\ \E q \in Prerequisites[s] : IsWeak(q)'
          THEN "blocked" ELSE Naive(s, d)'
    BY DEF SkillState, Failures
  <1>4. Value("blocked") = 10
    BY DEF Value
  <1> QED BY <1>1, <1>2, <1>3, <1>4

\* A cell that is blocked stays so, because weak prerequisites stay weak.
LEMMA AllSink ==
  ASSUME TypeOK, \A s : \A d \in Dimensions : Sinks(s, d)
  PROVE  NoCellRises
  <1>1. CoreDimensions \subseteq Dimensions
    BY DEF CoreDimensions, Dimensions
  <1>2. \A s : IsWeak(s) => IsWeak(s)'
    <2> SUFFICES ASSUME NEW s, IsWeak(s) PROVE IsWeak(s)'
      OBVIOUS
    <2>1. \A d \in CoreDimensions :
            /\ Naive(s, d) = "fragile" => Naive(s, d)' = "fragile"
            /\ Naive(s, d) = "no_evidence" => Naive(s, d)' \in {"no_evidence", "fragile"}
      BY <1>1, SinkingCell
    <2> QED BY <2>1 DEF IsWeak
  <1>3. \A s : \A d \in Dimensions : /\ Value(SkillState(s, d)') <= Value(SkillState(s, d))
                                     /\ Value(SkillState(s, d)) \in Nat
                                     /\ Value(SkillState(s, d)') \in Nat
    <2> SUFFICES ASSUME NEW s, NEW d \in Dimensions
                 PROVE  /\ Value(SkillState(s, d)') <= Value(SkillState(s, d))
                        /\ Value(SkillState(s, d)) \in Nat
                        /\ Value(SkillState(s, d)') \in Nat
      OBVIOUS
    <2>1. /\ Naive(s, d) = "fragile" => Naive(s, d)' = "fragile"
          /\ Value(Naive(s, d)') <= Value(Naive(s, d))
          /\ Failures(s, d)' >= Failures(s, d) /\ Failures(s, d) \in Nat
          /\ Failures(s, d)' \in Int
      <3>1. Failures(s, d) \in Nat
        BY Counts
      <3>2. Failures(s, d)' \in Int
        BY <3>1 DEF Sinks, Unheard
      <3> QED BY <3>1, <3>2, SinkingCell
    <2>2. SkillState(s, d) = "blocked" => SkillState(s, d)' = "blocked"
      <3> SUFFICES ASSUME SkillState(s, d) = "blocked" PROVE SkillState(s, d)' = "blocked"
        OBVIOUS
      <3>1. /\ Naive(s, d) = "fragile" /\ Failures(s, d) >= 2
            /\ \E q \in Prerequisites[s] : IsWeak(q)
        BY StateCases
      <3>2. Naive(s, d)' = "fragile" /\ Failures(s, d)' >= 2
        BY <2>1, <3>1
      <3>3. \E q \in Prerequisites[s] : IsWeak(q)'
        BY <1>2, <3>1
      <3> QED BY <3>2, <3>3, StateCases, StateCasesNext
    <2>3. /\ Value(Naive(s, d)) \in Nat /\ Value(Naive(s, d)) > 10
          /\ SkillState(s, d) = Naive(s, d)
             \/ (SkillState(s, d) = "blocked" /\ Value(SkillState(s, d)) = 10)
      BY StateCases
    <2>4. /\ Value(Naive(s, d)') \in Nat /\ Value(Naive(s, d)') > 10
          /\ SkillState(s, d)' = Naive(s, d)'
             \/ (SkillState(s, d)' = "blocked" /\ Value(SkillState(s, d)') = 10)
      BY StateCasesNext
    <2> QED BY <2>1, <2>2, <2>3, <2>4
  <1>4. \A s : Readiness(s)' <= Readiness(s) /\ Readiness(s) \in Nat /\ Readiness(s)' \in Nat
    <2> SUFFICES ASSUME NEW s
                 PROVE  Readiness(s)' <= Readiness(s) /\ Readiness(s) \in Nat
                        /\ Readiness(s)' \in Nat
      OBVIOUS
    <2>1. \A d \in {"recognition", "derivation", "implementation"} :
            /\ Value(SkillState(s, d)') <= Value(SkillState(s, d))
            /\ Value(SkillState(s, d)) \in Nat /\ Value(SkillState(s, d)') \in Nat
      BY <1>3 DEF Dimensions
    <2>2. Readiness(s)' = Value(SkillState(s, "recognition")') + Value(SkillState(s, "derivation")')
                            + Value(SkillState(s, "implementation")')
      BY DEF Readiness
    <2> QED BY <2>1, <2>2 DEF Readiness
  <1>5. \A p \in Problems : Gated(p) => Gated(p)'
    <2> SUFFICES ASSUME NEW p \in Problems, NEW s \in Core[p], NEW q \in Prerequisites[s],
                        Readiness(q) < 105
                 PROVE  Readiness(q)' < 105
      BY DEF Gated
    <2> QED BY <1>4
  <1> QED BY <1>3, <1>5 DEF NoCellRises

LEMMA AllClimb ==
  ASSUME TypeOK, TypeOK',
         \A s : \A d \in Dimensions : d \in CoreDimensions \/ ~FirstRemembered(s) => Climbs(s, d)
  PROVE  NoCellFalls
  <1>1. CoreDimensions \subseteq Dimensions
    BY DEF CoreDimensions, Dimensions
  <1>2. \A s : IsWeak(s)' => IsWeak(s)
    <2> SUFFICES ASSUME NEW s, IsWeak(s)' PROVE IsWeak(s)
      OBVIOUS
    <2>1. \A d \in CoreDimensions :
            /\ Naive(s, d)' = "fragile" => Naive(s, d) = "fragile"
            /\ Naive(s, d)' = "no_evidence" => Naive(s, d) = "no_evidence"
      BY <1>1, ClimbingCell
    <2> QED BY <2>1 DEF IsWeak
  <1>3. \A s : \A d \in Dimensions :
          d \in CoreDimensions \/ ~FirstRemembered(s) =>
            /\ Value(SkillState(s, d)') >= Value(SkillState(s, d))
            /\ Value(SkillState(s, d)) \in Nat
            /\ Value(SkillState(s, d)') \in Nat
    <2> SUFFICES ASSUME NEW s, NEW d \in Dimensions, d \in CoreDimensions \/ ~FirstRemembered(s)
                 PROVE  /\ Value(SkillState(s, d)') >= Value(SkillState(s, d))
                        /\ Value(SkillState(s, d)) \in Nat
                        /\ Value(SkillState(s, d)') \in Nat
      OBVIOUS
    <2>1. /\ Naive(s, d)' = "fragile" =>
               Naive(s, d) = "fragile" /\ Failures(s, d)' = Failures(s, d)
          /\ Value(Naive(s, d)') >= Value(Naive(s, d))
      BY ClimbingCell
    <2>2. SkillState(s, d)' = "blocked" => SkillState(s, d) = "blocked"
      <3> SUFFICES ASSUME SkillState(s, d)' = "blocked" PROVE SkillState(s, d) = "blocked"
        OBVIOUS
      <3>1. /\ Naive(s, d)' = "fragile" /\ Failures(s, d)' >= 2
            /\ \E q \in Prerequisites[s] : IsWeak(q)'
        BY StateCasesNext
      <3>2. Naive(s, d) = "fragile" /\ Failures(s, d) >= 2
        BY <2>1, <3>1
      <3>3. \E q \in Prerequisites[s] : IsWeak(q)
        BY <1>2, <3>1
      <3> QED BY <3>2, <3>3, StateCases, StateCasesNext
    <2>3. /\ Value(Naive(s, d)) \in Nat /\ Value(Naive(s, d)) > 10
          /\ SkillState(s, d) = Naive(s, d)
             \/ (SkillState(s, d) = "blocked" /\ Value(SkillState(s, d)) = 10)
      BY StateCases
    <2>4. /\ Value(Naive(s, d)') \in Nat /\ Value(Naive(s, d)') > 10
          /\ SkillState(s, d)' = Naive(s, d)'
             \/ (SkillState(s, d)' = "blocked" /\ Value(SkillState(s, d)') = 10)
      BY StateCasesNext
    <2> QED BY <2>1, <2>2, <2>3, <2>4
  <1>4. \A s : Readiness(s)' >= Readiness(s) /\ Readiness(s) \in Nat /\ Readiness(s)' \in Nat
    <2> SUFFICES ASSUME NEW s
                 PROVE  Readiness(s)' >= Readiness(s) /\ Readiness(s) \in Nat
                        /\ Readiness(s)' \in Nat
      OBVIOUS
    <2>1. \A d \in {"recognition", "derivation", "implementation"} :
            /\ Value(SkillState(s, d)') >= Value(SkillState(s, d))
            /\ Value(SkillState(s, d)) \in Nat /\ Value(SkillState(s, d)') \in Nat
      BY <1>1, <1>3 DEF CoreDimensions
    <2>2. Readiness(s)' = Value(SkillState(s, "recognition")') + Value(SkillState(s, "derivation")')
                            + Value(SkillState(s, "implementation")')
      BY DEF Readiness
    <2> QED BY <2>1, <2>2 DEF Readiness
  <1>5. \A p \in Problems : Gated(p)' => Gated(p)
    <2> SUFFICES ASSUME NEW p \in Problems, NEW s \in Core[p], NEW q \in Prerequisites[s],
                        Readiness(q)' < 105
                 PROVE  Readiness(q) < 105
      BY DEF Gated
    <2> QED BY <1>4
  <1> QED BY <1>3, <1>5 DEF NoCellFalls

-----------------------------------------------------------------------------
(* Forgetting: what is remembered decays no later for a failure, and no     *)
(* earlier for a clean success.                                            *)

\* Longer stability decays later.
LEMMA ForgottenMonotone ==
  ASSUME NEW a \in Int, NEW b \in Int, a <= b, NEW t \in Int, Forgotten(b, t)
  PROVE  Forgotten(a, t)
  BY DEF Forgotten, Larger

\* What is forgotten at all is of yesterday or earlier, so that a day's stability is over.
LEMMA ForgottenIsOfYesterday ==
  ASSUME NEW a \in Int, NEW t \in Int, Forgotten(a, t)
  PROVE  t >= 1 /\ Forgotten(1000, t)
  <1>1. Larger(0, t) \in Int /\ Larger(0, t) > 0
    BY DEF Forgotten, Larger
  <1>2. t >= 1
    BY <1>1 DEF Larger
  <1> QED BY <1>2 DEF Forgotten, Larger

\* What is forgotten stays forgotten.
LEMMA ForgottenForGood ==
  ASSUME NEW a \in Int, NEW t \in Int, NEW u \in Int, t <= u, Forgotten(a, t)
  PROVE  Forgotten(a, u)
  BY DEF Forgotten, Larger

\* A failure leaves a day's stability, or no more than there was.
LEMMA RedShrinks ==
  ASSUME NEW m \in Memory \cup {None}, NEW e \in Event, e.result = "red"
  PROVE  \/ Schedule(m, e).stability <= 1000
         \/ m # None /\ Schedule(m, e).stability <= m.stability
  <1>1. CASE m = None
    BY <1>1 DEF Schedule
  <1>2. CASE m # None
    <2> DEFINE x == m.stability
    <2> DEFINE before == Larger(1000, x)
    <2> DEFINE shrunk == (before * 62) \div 100
    <2>1. x \in Int
      BY <1>2 DEF Memory
    <2>2. Schedule(m, e).stability \in {1000, Larger(1000, shrunk)}
      BY <1>2 DEF Schedule
    <2> HIDE DEF x
    <2>3. before \in Nat /\ before >= x /\ (before = 1000 \/ before = x)
      BY <2>1 DEF Larger
    <2> HIDE DEF before
    <2>4. shrunk \in Int /\ shrunk <= before
      BY <2>3
    <2> HIDE DEF shrunk
    <2>5. Larger(1000, shrunk) <= 1000 \/ Larger(1000, shrunk) <= x
      BY <2>1, <2>3, <2>4 DEF Larger
    <2> QED BY <1>2, <2>2, <2>5 DEF x
  <1> QED BY <1>1, <1>2

\* A clean success leaves no less than there was.
LEMMA CleanGrows ==
  ASSUME NEW m \in Memory, NEW e \in Event,
         e.result = "green", e.independent, e.hint = None, m # None
  PROVE  Schedule(m, e).stability >= m.stability
  <1> DEFINE before == Larger(1000, m.stability)
  <1> DEFINE delay == Larger(0, e.day - m.last)
  <1> DEFINE bonus == IF delay >= 7 THEN 125 ELSE IF delay >= 2 THEN 110 ELSE 100
  <1> DEFINE grown == (((before * 215) \div 100) * bonus) \div 100
  <1>1. Schedule(m, e).stability = Larger(2000, grown)
    BY DEF Schedule
  <1>2. m.stability \in Int /\ before \in Nat /\ before >= m.stability
    BY DEF Memory, Larger
  <1>3. bonus \in {100, 110, 125}
    OBVIOUS
  <1> HIDE DEF before, bonus
  <1>4. (before * 215) \div 100 \in Nat /\ (before * 215) \div 100 >= before
    BY <1>2
  <1>5. \A y \in Nat : /\ (y * 100) \div 100 >= y /\ (y * 110) \div 100 >= y
                       /\ (y * 125) \div 100 >= y
    OBVIOUS
  <1>6. grown >= (before * 215) \div 100 /\ grown \in Int
    BY <1>3, <1>4, <1>5
  <1> HIDE DEF grown
  <1> QED BY <1>1, <1>2, <1>4, <1>6 DEF Larger

\* A dimension that is observed was so on a day, and the days since are a number.
LEMMA ObservedOnADay ==
  ASSUME TypeOK, NEW s, NEW d, Observations(s, d) # {}
  PROVE  /\ events[Latest(Observations(s, d))].day \in Nat
         /\ today - events[Latest(Observations(s, d))].day \in Int
  <1>1. PICK i \in Observations(s, d) : i = Latest(Observations(s, d))
    BY ObservationsAreRows
  <1>2. events[i] \in Event
    BY <1>1 DEF Observations, Rows, TypeOK
  <1> QED BY <1>1, <1>2, EvidenceAssumption DEF Event, TypeOK

\* After a failure what had decayed has decayed, whatever was remembered.
LEMMA RedForgets ==
  ASSUME TypeOK, NEW e \in Event, e.result = "red",
         memory' = [memory EXCEPT ![e.problem] = Schedule(memory[e.problem], e)],
         today' = today,
         NEW s, NEW d, Observations(s, d)' = Observations(s, d), Observations(s, d) # {},
         events'[Latest(Observations(s, d))] = events[Latest(Observations(s, d))],
         Decays(s, d)
  PROVE  Decays(s, d)'
  <1> DEFINE elapsed == today - events[Latest(Observations(s, d))].day
  <1>1. memory \in [Problems -> Memory \cup {None}] /\ elapsed \in Int
    BY ObservedOnADay DEF TypeOK
  <1>2. /\ Stabilities(s) # {}
        /\ \A x \in Stabilities(s) : Forgotten(x, elapsed)
        /\ elapsed = today' - events'[Latest(Observations(s, d)')].day
    BY DEF Decays
  <1> HIDE DEF elapsed
  <1>3. /\ ProblemsOf(s) \subseteq Problems /\ e.problem \in Problems
        /\ \A q \in ProblemsOf(s) : memory[q] # None => memory[q].stability \in Stabilities(s)
    BY DEF Stabilities, ProblemsOf, Event
  <1>4. \A x \in Stabilities(s) : x \in Int
    BY <1>1, <1>3 DEF Stabilities, Memory
  <1>5. /\ Schedule(memory[e.problem], e) \in Memory
        /\ Schedule(memory[e.problem], e) # None
    BY <1>1, <1>3, ScheduleBounds, NullAssumption
  <1>6. ASSUME NEW q \in ProblemsOf(s), memory'[q] # None
        PROVE  Forgotten(memory'[q].stability, elapsed)
    <2>1. CASE q # e.problem
      BY <1>1, <1>2, <1>3, <1>6, <2>1
    <2>2. CASE q = e.problem
      <3>1. memory'[q] = Schedule(memory[q], e) /\ memory[q] \in Memory \cup {None}
        BY <1>1, <1>3, <2>2
      <3> DEFINE y == Schedule(memory[q], e).stability
      <3>2. y \in Int
        BY <1>5, <2>2 DEF Memory
      <3>3. y <= 1000 \/ (memory[q] # None /\ y <= memory[q].stability)
        BY <3>1, RedShrinks
      <3> HIDE DEF y
      <3>4. Forgotten(1000, elapsed)
        BY <1>1, <1>2, <1>4, ForgottenIsOfYesterday
      <3>5. Forgotten(y, elapsed)
        BY <1>1, <1>2, <1>3, <1>4, <3>2, <3>3, <3>4, ForgottenMonotone
      <3> QED BY <3>1, <3>5 DEF y
    <2> QED BY <2>1, <2>2
  <1>7. \E q \in ProblemsOf(s) : memory'[q] # None
    <2>1. PICK q \in ProblemsOf(s) : memory[q] # None
      BY <1>2 DEF Stabilities
    <2> QED BY <1>1, <1>3, <1>5, <2>1
  <1>8. Stabilities(s)' = {memory'[q].stability : q \in {r \in ProblemsOf(s) : memory'[r] # None}}
    BY DEF Stabilities, ProblemsOf
  <1>9. Stabilities(s)' # {} /\ \A x \in Stabilities(s)' : Forgotten(x, elapsed)
    BY <1>6, <1>7, <1>8
  <1> QED BY <1>2, <1>9 DEF Decays

\* After a clean success what has decayed had decayed, unless nothing was remembered.
LEMMA CleanRemembers ==
  ASSUME TypeOK, NEW e \in Event,
         e.result = "green", e.independent, e.hint = None,
         memory' = [memory EXCEPT ![e.problem] = Schedule(memory[e.problem], e)],
         today' = today,
         NEW s, NEW d, Observations(s, d)' = Observations(s, d), Observations(s, d) # {},
         events'[Latest(Observations(s, d))] = events[Latest(Observations(s, d))],
         Stabilities(s) # {}, Decays(s, d)'
  PROVE  Decays(s, d)
  <1> DEFINE elapsed == today - events[Latest(Observations(s, d))].day
  <1>1. memory \in [Problems -> Memory \cup {None}] /\ elapsed \in Int
    BY ObservedOnADay DEF TypeOK
  <1>2. \A x \in Stabilities(s)' : Forgotten(x, elapsed)
    BY DEF Decays
  <1> HIDE DEF elapsed
  <1>3. /\ ProblemsOf(s) \subseteq Problems /\ e.problem \in Problems
        /\ \A q \in ProblemsOf(s) : memory'[q] # None => memory'[q].stability \in Stabilities(s)'
    BY DEF Stabilities, ProblemsOf, Event
  <1>4. ASSUME NEW q \in ProblemsOf(s), memory[q] # None
        PROVE  Forgotten(memory[q].stability, elapsed)
    <2>1. memory[q] \in Memory /\ memory[q].stability \in Int
      BY <1>1, <1>3, <1>4 DEF Memory
    <2>2. CASE q # e.problem
      BY <1>1, <1>2, <1>3, <1>4, <2>2
    <2>3. CASE q = e.problem
      <3> DEFINE m == Schedule(memory[q], e)
      <3>1. memory'[q] = m
        BY <1>1, <1>3, <2>3
      <3>2. m \in Memory /\ m # None
        BY <2>1, ScheduleBounds, NullAssumption
      <3>3. m.stability >= memory[q].stability
        BY <1>4, <2>1, CleanGrows
      <3> HIDE DEF m
      <3>4. m.stability \in Int
        BY <3>2 DEF Memory
      <3>5. Forgotten(m.stability, elapsed)
        BY <1>2, <1>3, <3>1, <3>2
      <3> QED BY <1>1, <2>1, <3>3, <3>4, <3>5, ForgottenMonotone
    <2> QED BY <2>2, <2>3
  <1>5. \A x \in Stabilities(s) : Forgotten(x, elapsed)
    BY <1>4 DEF Stabilities
  <1> QED BY <1>5 DEF Decays, elapsed

\* What was observed today has not decayed.
LEMMA FreshIsRemembered ==
  ASSUME TypeOK', NEW s, NEW d, events'[Latest(Observations(s, d))'].day = today'
  PROVE  ~Decays(s, d)'
  <1>1. SUFFICES ASSUME Decays(s, d)' PROVE FALSE
    OBVIOUS
  <1> DEFINE elapsed == today' - events'[Latest(Observations(s, d)')].day
  <1>2. elapsed = 0
    <2>1. today' \in Int
      BY EvidenceAssumption DEF TypeOK
    <2>2. Latest(Observations(s, d))' = Latest(Observations(s, d)')
      OBVIOUS
    <2> DEFINE day == events'[Latest(Observations(s, d)')].day
    <2>3. day = today'
      BY <2>2
    <2> HIDE DEF day
    <2>4. today' - day = 0
      BY <2>1, <2>3
    <2> QED BY <2>4 DEF day
  <1>3. PICK x \in Stabilities(s)' : Forgotten(x, elapsed)
    BY <1>1 DEF Decays
  <1>4. x \in Int
    BY DEF Stabilities, ProblemsOf, TypeOK, Memory
  <1> HIDE DEF elapsed
  <1>5. elapsed >= 1
    BY <1>2, <1>3, <1>4, ForgottenIsOfYesterday
  <1> QED BY <1>2, <1>5

-----------------------------------------------------------------------------
(* Every cell sinks, or climbs.                                            *)

\* An attempt that only fails is red, one that is not and only proves is clean.
SaysSomething(n, e) ==
  /\ LastSays' \subseteq {"failed"} => e.result = "red"
  /\ LastSays' \subseteq {"independent"} /\ e.result # "red" =>
       e.result = "green" /\ e.independent /\ e.hint = None
  /\ \A d \in Dimensions : Signal(n, d)' \in LastSays' \cup {None}

\* For it says something of recognition or of derivation.
LEMMA AttemptSays ==
  ASSUME NEW e, e.result # "skipped", ~(e.result = "green" /\ e.hint # None),
         e.result \in {"green", "yellow", "red", "skipped"},
         NEW n, Len(events') = n, n \in Rows', events'[n] = e
  PROVE  SaysSomething(n, e)
  <1>1. \A d \in Dimensions : Signal(n, d)' \in LastSays' \cup {None}
    BY DEF LastSays
  <1>2. PICK d \in {"recognition", "derivation"} : d \notin FailedDimensions(n)'
    BY DEF FailedDimensions
  <1>3. ASSUME e.result # "red"
        PROVE  Signal(n, d)' =
                 IF e.result = "green" /\ e.independent THEN "independent" ELSE "assisted"
    <2>1. Clean(n)' <=> e.result = "green" /\ e.independent
      BY DEF Clean
    <2>2. Signal(n, d)' = FromResult(n, d)'
      BY <1>2 DEF Signal
    <2>3. FromResult(n, d)' = IF Clean(n)' THEN "independent" ELSE "assisted"
      BY <1>2, <1>3 DEF FromResult, CoreDimensions
    <2> QED BY <2>1, <2>2, <2>3
  <1>4. e.result # "red" => Signal(n, d)' \in LastSays'
    BY <1>1, <1>2, <1>3, NullAssumption DEF Dimensions
  <1>5. LastSays' \subseteq {"failed"} => e.result = "red"
    BY <1>3, <1>4
  <1>6. LastSays' \subseteq {"independent"} /\ e.result # "red" =>
          e.result = "green" /\ e.independent
    BY <1>3, <1>4
  <1> QED BY <1>1, <1>5, <1>6 DEF SaysSomething

\* What an attempt here does.
AttemptOf(e) ==
  /\ events' = Append(events, e) /\ today' = today
  /\ e.day = today /\ (e.result = "green" => e.hint = None)
  /\ classified' \in {classified, classified \cup {Len(events) + 1}}
  /\ memory' = IF e.result = "skipped" THEN memory
               ELSE [memory EXCEPT ![e.problem] = Schedule(memory[e.problem], e)]

LEMMA AttemptStep ==
  ASSUME IInv, NEW p \in Problems, NEW r \in Reports, Attempt(p, r)
  PROVE  \E e \in Event : AttemptOf(e)
  <1> DEFINE e == EventOf(Recorded(r), p, today, "web")
  <1>1. /\ events' = Append(events, e) /\ today' = today
        /\ classified' = classified \cup Classified(e)
        /\ memory' = [memory EXCEPT ![p] = Remembered(@, e)]
    BY DEF Attempt
  <1>2. e \in Event /\ e.problem = p /\ e.day = today
    BY RecordedOutcome, EvidenceAssumption DEF EventOf, Event, Outcome, IInv, TypeOK
  <1>3. e.result = "green" => e.hint = None
    BY EvidenceAssumption DEF EventOf, Recorded, Outcome
  <1> HIDE DEF e
  <1>4. classified' \in {classified, classified \cup {Len(events) + 1}}
    BY <1>1 DEF Classified
  <1>5. memory \in [Problems -> Memory \cup {None}]
    BY DEF IInv, TypeOK
  <1>6. memory' = IF e.result = "skipped" THEN memory
                  ELSE [memory EXCEPT ![e.problem] = Schedule(memory[e.problem], e)]
    BY <1>1, <1>2, <1>5 DEF Remembered
  <1> QED BY <1>1, <1>2, <1>3, <1>4, <1>6 DEF AttemptOf

\* A cell that has not heard of an attempt.
Deaf(s, d) ==
  /\ Unheard(s, d)
  /\ Observations(s, d) # {} =>
       events'[Latest(Observations(s, d))] = events[Latest(Observations(s, d))]

\* A cell that has heard of the attempt e, the n-th event.
Heard(n, e, s, d) ==
  /\ n \in Observations(s, d)' /\ Latest(Observations(s, d))' = n
  /\ e.result # "skipped" /\ Signal(n, d)' # None /\ LastSignal(s, d)' = Signal(n, d)'
  /\ IndependentCount(s, d)' =
       IF Signal(n, d)' = "independent" THEN IndependentCount(s, d) + 1
       ELSE IndependentCount(s, d)
  /\ Failures(s, d)' =
       IF Signal(n, d)' = "failed" THEN Failures(s, d) + 1 ELSE Failures(s, d)

LEMMA CellOfAttempt ==
  ASSUME TypeOK, NEW e \in Event, events' = Append(events, e),
         NEW n, n = Len(events) + 1, classified' \in {classified, classified \cup {n}},
         NEW s, NEW d \in Dimensions
  PROVE  Deaf(s, d) \/ Heard(n, e, s, d)
  <1>1. CASE NothingNew(n, s, d)
    <2>1. /\ IndependentCount(s, d)' = IndependentCount(s, d)
          /\ Failures(s, d)' = Failures(s, d)
      BY <1>1 DEF NothingNew, IndependentCount, Failures
    <2>2. Observations(s, d) # {} => LastSignal(s, d)' = LastSignal(s, d)
      BY <1>1 DEF NothingNew, LastSignal
    <2> QED BY <1>1, <2>1, <2>2 DEF NothingNew, Deaf, Unheard
  <1>2. CASE OneNew(n, e, s, d)
    <2>1. ASSUME NEW signal
          PROVE  Cardinality(Saying(s, d, signal)') =
                   IF Signal(n, d)' = signal THEN Cardinality(Saying(s, d, signal)) + 1
                   ELSE Cardinality(Saying(s, d, signal))
      <3>1. /\ Saying(s, d, signal) \subseteq Observations(s, d)
            /\ IsFiniteSet(Saying(s, d, signal))
        BY ObservationsAreRows
      <3>2. n \notin Saying(s, d, signal)
        BY <1>2, <3>1 DEF OneNew
      <3>3. Cardinality(Saying(s, d, signal) \cup {n}) = Cardinality(Saying(s, d, signal)) + 1
        BY <3>1, <3>2, FS_AddElement
      <3>4. Saying(s, d, signal)' =
              IF Signal(n, d)' = signal THEN Saying(s, d, signal) \cup {n}
              ELSE Saying(s, d, signal)
        BY <1>2 DEF OneNew
      <3>5. CASE Signal(n, d)' = signal
        BY <3>3, <3>4, <3>5
      <3>6. CASE Signal(n, d)' # signal
        BY <3>4, <3>6
      <3> QED BY <3>5, <3>6
    <2>2. /\ IndependentCount(s, d)' =
               IF Signal(n, d)' = "independent" THEN IndependentCount(s, d) + 1
               ELSE IndependentCount(s, d)
          /\ Failures(s, d)' =
               IF Signal(n, d)' = "failed" THEN Failures(s, d) + 1 ELSE Failures(s, d)
      BY <2>1 DEF IndependentCount, Failures
    <2>3. LastSignal(s, d)' = Signal(n, d)'
      BY <1>2 DEF OneNew, LastSignal
    <2> QED BY <1>2, <2>2, <2>3 DEF OneNew, Heard
  <1> QED BY <1>1, <1>2, OneObservation

\* After an attempt that only failed, and after a skip, every cell has sunk.
LEMMA FailedAttempt ==
  ASSUME IInv, IInv', NEW p \in Problems, NEW r \in Reports, Attempt(p, r),
         LastSays' \subseteq {"failed"}
  PROVE  NoCellRises
  <1>0. PICK e \in Event : AttemptOf(e)
    BY AttemptStep
  <1>1. /\ events' = Append(events, e) /\ today' = today
        /\ e.day = today /\ (e.result = "green" => e.hint = None)
        /\ classified' \in {classified, classified \cup {Len(events) + 1}}
        /\ memory' = IF e.result = "skipped" THEN memory
                     ELSE [memory EXCEPT ![e.problem] = Schedule(memory[e.problem], e)]
    BY <1>0 DEF AttemptOf
  <1>n. PICK n : n = Len(events) + 1
    OBVIOUS
  <1>2. TypeOK /\ classified' \in {classified, classified \cup {n}}
    BY <1>1, <1>n DEF IInv
  <1>3. /\ events'[n] = e /\ Len(events') = n
        /\ e.result # "skipped" => n \in Rows'
    BY <1>1, <1>2, <1>n, SignalsStay
  <1>4. e.result # "skipped" =>
          e.result = "red" /\ \A d \in Dimensions : Signal(n, d)' \in {"failed", None}
    <2> SUFFICES ASSUME e.result # "skipped"
                 PROVE  e.result = "red" /\ \A d \in Dimensions : Signal(n, d)' \in {"failed", None}
      OBVIOUS
    <2>1. /\ e.result # "skipped" /\ ~(e.result = "green" /\ e.hint # None)
          /\ e.result \in {"green", "yellow", "red", "skipped"}
          /\ Len(events') = n /\ n \in Rows' /\ events'[n] = e
      BY <1>1, <1>3 DEF Event
    <2>2. SaysSomething(n, e)
      BY <2>1, AttemptSays
    <2> QED BY <1>3, <2>2 DEF SaysSomething
  <1>5. ASSUME NEW s, NEW d \in Dimensions PROVE Sinks(s, d)
    <2>1. CASE Deaf(s, d)
      <3>1. ASSUME Observations(s, d) # {}, Decays(s, d) PROVE Decays(s, d)'
        <4>1. /\ Observations(s, d)' = Observations(s, d)
              /\ events'[Latest(Observations(s, d))] = events[Latest(Observations(s, d))]
          BY <2>1, <3>1 DEF Deaf, Unheard
        <4>2. CASE e.result = "skipped"
          <5>1. memory' = memory /\ today' = today
            BY <1>1, <4>2
          <5> QED BY <3>1, <4>1, <5>1 DEF Decays, Stabilities, ProblemsOf
        <4>3. CASE e.result # "skipped"
          BY <1>1, <1>2, <1>4, <3>1, <4>1, <4>3, RedForgets
        <4> QED BY <4>2, <4>3
      <3> QED BY <2>1, <3>1 DEF Deaf, Sinks
    <2>2. CASE Heard(n, e, s, d)
      <3>1. Signal(n, d)' = "failed"
        BY <1>4, <2>2 DEF Heard
      <3>2. IndependentCount(s, d) \in Nat /\ Failures(s, d) \in Nat
        BY Counts DEF IInv
      <3> QED BY <2>2, <3>1, <3>2 DEF Heard, Sinks
    <2> QED BY <1>1, <1>2, <2>1, <2>2, <1>n, CellOfAttempt
  <1> QED BY <1>2, <1>5, AllSink

\* After an attempt that only proved something, and after a skip, every cell has climbed.
LEMMA CleanAttempt ==
  ASSUME IInv, IInv', NEW p \in Problems, NEW r \in Reports, Attempt(p, r),
         LastSays' \subseteq {"independent"}, events'[Len(events')].result # "red"
  PROVE  NoCellFalls
  <1>0. PICK e \in Event : AttemptOf(e)
    BY AttemptStep
  <1>1. /\ events' = Append(events, e) /\ today' = today
        /\ e.day = today /\ (e.result = "green" => e.hint = None)
        /\ classified' \in {classified, classified \cup {Len(events) + 1}}
        /\ memory' = IF e.result = "skipped" THEN memory
                     ELSE [memory EXCEPT ![e.problem] = Schedule(memory[e.problem], e)]
    BY <1>0 DEF AttemptOf
  <1>n. PICK n : n = Len(events) + 1
    OBVIOUS
  <1>2. TypeOK /\ TypeOK' /\ classified' \in {classified, classified \cup {n}}
    BY <1>1, <1>n DEF IInv
  <1>3. /\ events'[n] = e /\ Len(events') = n
        /\ e.result # "skipped" => n \in Rows'
    BY <1>1, <1>2, <1>n, SignalsStay
  <1>4. e.result # "skipped" =>
          /\ e.result = "green" /\ e.independent /\ e.hint = None
          /\ \A d \in Dimensions : Signal(n, d)' \in {"independent", None}
    <2> SUFFICES ASSUME e.result # "skipped"
                 PROVE  /\ e.result = "green" /\ e.independent /\ e.hint = None
                        /\ \A d \in Dimensions : Signal(n, d)' \in {"independent", None}
      OBVIOUS
    <2>1. /\ e.result # "skipped" /\ ~(e.result = "green" /\ e.hint # None)
          /\ e.result \in {"green", "yellow", "red", "skipped"}
          /\ Len(events') = n /\ n \in Rows' /\ events'[n] = e
      BY <1>1, <1>3 DEF Event
    <2>2. SaysSomething(n, e)
      BY <2>1, AttemptSays
    <2> QED BY <1>3, <2>2 DEF SaysSomething
  <1>5. ASSUME NEW s, NEW d \in Dimensions, d \in CoreDimensions \/ ~FirstRemembered(s)
        PROVE  Climbs(s, d)
    <2>1. CASE Deaf(s, d)
      <3>1. ASSUME Observations(s, d) # {}, Decays(s, d)' PROVE Decays(s, d)
        <4>1. /\ Observations(s, d)' = Observations(s, d)
              /\ events'[Latest(Observations(s, d))] = events[Latest(Observations(s, d))]
          BY <2>1, <3>1 DEF Deaf, Unheard
        <4>2. CASE e.result = "skipped"
          <5>1. memory' = memory /\ today' = today
            BY <1>1, <4>2
          <5> QED BY <3>1, <4>1, <5>1 DEF Decays, Stabilities, ProblemsOf
        <4>3. CASE e.result # "skipped" /\ Stabilities(s) # {}
          BY <1>1, <1>2, <1>4, <3>1, <4>1, <4>3, CleanRemembers
        <4>4. CASE e.result # "skipped" /\ Stabilities(s) = {}
          <5>1. FirstRemembered(s) /\ d \in CoreDimensions
            BY <1>5, <3>1, <4>4 DEF Decays, FirstRemembered
          <5>2. e.problem \in ProblemsOf(s)
            <6>1. \A q \in ProblemsOf(s) : q # e.problem => memory'[q] = memory[q]
              BY <1>1, <1>2, <4>4 DEF TypeOK, ProblemsOf
            <6>2. \A q \in ProblemsOf(s) : memory[q] = None
              BY <4>4 DEF Stabilities
            <6>3. \E q \in ProblemsOf(s) : memory'[q] # None
              BY <5>1 DEF FirstRemembered, Stabilities, ProblemsOf
            <6> QED BY <6>1, <6>2, <6>3
          <5>3. Signal(n, d)' # None
            <6>1. Signal(n, d)' = FromResult(n, d)'
              BY <5>1 DEF Signal, CoreDimensions
            <6>2. Clean(n)'
              <7>1. /\ events'[n].result = "green" /\ events'[n].independent
                    /\ events'[n].hint = None
                BY <1>3, <1>4, <4>4
              <7> QED BY <7>1 DEF Clean
            <6>3. FromResult(n, d)' \in {"failed", "independent"}
              BY <1>3, <1>4, <4>4, <5>1, <6>2 DEF FromResult
            <6> QED BY <6>1, <6>3, NullAssumption
          <5>4. n \in Observations(s, d)'
            <6>1. \A i \in Rows' :
                    events'[i].problem \in ProblemsOf(s)' /\ Signal(i, d)' # None =>
                      i \in Observations(s, d)'
              BY DEF Observations
            <6>2. ProblemsOf(s)' = ProblemsOf(s)
              BY DEF ProblemsOf
            <6>3. n \in Rows' /\ events'[n].problem = e.problem
              BY <1>3, <4>4
            <6> QED BY <5>2, <5>3, <6>1, <6>2, <6>3
          <5>5. n \notin Rows
            BY <1>1, <1>2, <1>n, SignalsStay
          <5> QED BY <4>1, <5>4, <5>5, ObservationsAreRows DEF IInv
        <4> QED BY <4>2, <4>3, <4>4
      <3> QED BY <2>1, <3>1 DEF Deaf, Climbs
    <2>2. CASE Heard(n, e, s, d)
      <3>1. Signal(n, d)' = "independent"
        BY <1>4, <2>2 DEF Heard
      <3>2. ~Decays(s, d)'
        <4>1. events'[Latest(Observations(s, d))'].day = today'
          BY <1>1, <1>3, <2>2 DEF Heard
        <4> QED BY <1>2, <4>1, FreshIsRemembered
      <3> QED BY <2>2, <3>1, <3>2 DEF Heard, Climbs
    <2> QED BY <1>1, <1>2, <2>1, <2>2, <1>n, CellOfAttempt
  <1> QED BY <1>2, <1>5, AllClimb

\* After days have passed every cell has sunk.
LEMMA DaysPass ==
  ASSUME IInv, NEW days \in Sleeps, Sleep(days)
  PROVE  NoCellRises
  <1>1. /\ events' = events /\ classified' = classified /\ memory' = memory
        /\ today' \in Nat /\ today \in Nat /\ today <= today'
    BY EvidenceAssumption DEF Sleep, evidenceVars, IInv, TypeOK
  <1>2. ASSUME NEW s, NEW d \in Dimensions PROVE Sinks(s, d)
    <2>1. /\ Rows' = Rows
          /\ \A i : Signal(i, d)' = Signal(i, d)
      BY <1>1 DEF Rows, RowsOf, Signal, FromResult, FromScore, FromGap, FailedDimensions, Clean,
                  DaysSincePrevious
    <2>2. Observations(s, d)' = Observations(s, d)
      BY <1>1, <2>1 DEF Observations, ProblemsOf
    <2>3. \A signal : Saying(s, d, signal)' = Saying(s, d, signal)
      BY <2>1, <2>2 DEF Saying
    <2>4. Unheard(s, d)
      BY <2>1, <2>2, <2>3 DEF Unheard, IndependentCount, Failures, LastSignal
    <2>5. ASSUME Observations(s, d) # {}, Decays(s, d) PROVE Decays(s, d)'
      <3> DEFINE before == today - events[Latest(Observations(s, d))].day
      <3> DEFINE after == today' - events'[Latest(Observations(s, d)')].day
      <3>1. Stabilities(s)' = Stabilities(s) /\ \A x \in Stabilities(s) : x \in Int
        BY <1>1 DEF Stabilities, ProblemsOf, IInv, TypeOK, Memory
      <3>2. before \in Int /\ after \in Int /\ before <= after
        <4>1. events[Latest(Observations(s, d))].day \in Nat
          BY <2>5, ObservedOnADay DEF IInv
        <4>2. after = today' - events[Latest(Observations(s, d))].day
          BY <1>1, <2>2
        <4> QED BY <1>1, <4>1, <4>2
      <3>3. Stabilities(s) # {} /\ \A x \in Stabilities(s) : Forgotten(x, before)
        BY <2>5 DEF Decays
      <3> HIDE DEF before, after
      <3>4. \A x \in Stabilities(s) : Forgotten(x, after)
        BY <3>1, <3>2, <3>3, ForgottenForGood
      <3> QED BY <3>1, <3>3, <3>4 DEF Decays, after
    <2> QED BY <2>4, <2>5 DEF Sinks
  <1> QED BY <1>2, AllSink DEF IInv

\* No other action is an attempt, and only an attempt and a longer calendar move belief.
LEMMA StepFollowsEvidence ==
  ASSUME IInv, IInv', Next
  PROVE  /\ (\E p \in Problems, r \in Reports : Attempt(p, r)) =>
              /\ LastSays' \subseteq {"failed"} => NoCellRises
              /\ LastSays' \subseteq {"independent"} /\ events'[Len(events')].result # "red" =>
                   NoCellFalls
         /\ today' > today => NoCellRises
  <1>1. ASSUME NEW p \in Problems, NEW r \in Reports, Attempt(p, r)
        PROVE  /\ LastSays' \subseteq {"failed"} => NoCellRises
               /\ LastSays' \subseteq {"independent"} /\ events'[Len(events')].result # "red" =>
                    NoCellFalls
    BY <1>1, FailedAttempt, CleanAttempt
  <1>2. ASSUME today' > today PROVE NoCellRises
    <2>1. today' # today
      BY <1>2, EvidenceAssumption DEF IInv, TypeOK
    <2>2. \E days \in Sleeps : Sleep(days)
      BY <2>1 DEF Next, Attempt, Seed, Import
    <2> QED BY <2>2, DaysPass
  <1> QED BY <1>1, <1>2

\* An attempt that only failed makes nothing look readier and opens no gate; one that only
\* proved something makes nothing look less ready and closes none, unless it is red and
\* proves but the explanation, or is the first of which a skill known from the log only has
\* a memory, which may let testing, explanation and retention decay; a skip changes nothing,
\* and passing days make nothing look readier: for every catalogue, every graph of
\* prerequisites, every calendar, and whatever logs and state files were imported.
THEOREM ReadinessFollowsEvidenceHolds == Spec => ReadinessFollowsEvidence
  <1>1. IInv /\ IInv' /\ [Next]_vars =>
          [/\ (\E p \in Problems, r \in Reports : Attempt(p, r)) =>
                /\ LastSays' \subseteq {"failed"} => NoCellRises
                /\ LastSays' \subseteq {"independent"} /\ events'[Len(events')].result # "red" =>
                     NoCellFalls
           /\ today' > today => NoCellRises]_vars
    BY StepFollowsEvidence
  <1> QED BY <1>1, Inductive, PTL DEF Spec, ReadinessFollowsEvidence
=============================================================================
