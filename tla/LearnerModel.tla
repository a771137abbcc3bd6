---------------------------- MODULE LearnerModel ----------------------------
(***************************************************************************)
(* What the trainer believes about its learner: src/app/learning.py, fed   *)
(* by record_attempt_evidence of src/app/attempts.py, src/app/scheduler.py *)
(* and the tracker's log that src/scripts/import_legacy.py imports.        *)
(*                                                                         *)
(* Facts are written by transactions, the actions below. Everything        *)
(* believed is computed from the facts whenever a page asks, so it is an   *)
(* operator: the state of a skill in a dimension, what gates a problem,    *)
(* what is a trap. Belief moves when an attempt comes in, when days pass,  *)
(* and when a start of the program classifies failures that an import left *)
(* unclassified. A definition that precedes another of the same            *)
(* parameters, and that no action uses, is a seeded fault of it.           *)
(***************************************************************************)
EXTENDS Integers, Sequences, FiniteSets, SequencesExt

CONSTANTS
  Problems, Skills,
  Core, Other,     \* problem -> skills it is mapped to in role core, in any other
  Prerequisites,   \* skill -> skills an edge of type prerequisite comes from
  Reports,         \* what a learner may report (AttemptCreate)
  Imported,        \* what the tracker's log may say of an attempt
  States,          \* what the tracker's state file may remember of each problem, or None
  Sleeps,          \* days that may pass at once
  MaxAttempts,     \* bound: attempt_events
  MaxDay,          \* bound: the calendar
  None

Tags == {"recognition", "derivation", "implementation", "bugs", "complexity", "communication"}

\* AttemptCreate, or a line of the tracker's log. A score of 0 to 5 counts in tenths.
Outcome == [result : {"green", "yellow", "red", "skipped"}, independent : BOOLEAN,
            accepted : BOOLEAN, hint : {None, "H1", "H2", "H3", "H4"},
            score : 0..50 \cup {None},
            tag : Tags \cup {None}]

\* A row of memory_states: stability_days in thousandths, whether evidence_count is positive,
\* last_attempt_on and next_due.
Memory == [stability : Int, counted : BOOLEAN, last : Nat, due : Nat]

\* What a state file holds of a problem. Either date may be missing; nothing checks the rest.
Told == [stability : Int, counted : BOOLEAN, last : Nat \cup {None}, due : Nat \cup {None}]

ASSUME EvidenceAssumption ==
  /\ Reports \subseteq Outcome /\ Imported \subseteq Outcome
  /\ States \subseteq [Problems -> Told \cup {None}]
  /\ Sleeps \subseteq Nat /\ MaxAttempts \in Nat /\ MaxDay \in Nat

ASSUME NullAssumption ==
  /\ None \notin Memory /\ None \notin Told
  /\ None \notin {"independent", "assisted", "failed"}

VARIABLES
  today,       \* a day is a number
  events,      \* attempt_events in the order of their dates
  classified,  \* events that have their row in attempt_errors
  memory,      \* memory_states: problem -> Memory, or None
  copied       \* history: problems whose memory an import wrote, no attempt here since

evidenceVars == <<events, classified, memory, copied>>
vars == <<today, evidenceVars>>

\* A row of attempt_events.
Event == [problem : Problems, day : Nat, origin : {"web", "tracker"},
          result : {"green", "yellow", "red", "skipped"}, independent : BOOLEAN,
          accepted : BOOLEAN, hint : {None, "H1", "H2", "H3", "H4"},
          score : 0..50 \cup {None}, tag : Tags \cup {None}]

Dimensions ==
  {"recognition", "derivation", "implementation", "testing", "explanation", "retention"}
CoreDimensions == {"recognition", "derivation", "implementation"}

RetentionGap == 3
Threshold == 2

Larger(a, b) == IF a > b THEN a ELSE b
Latest(S) == CHOOSE i \in S : \A j \in S : j <= i

-----------------------------------------------------------------------------
(* Evidence: attempts.py and scheduler.py.                                 *)

\* A hinted green is a yellow, only a green is independent, and a skip is neither
\* accepted nor a failure of any kind.
Recorded(r) ==
  LET hinted == r.result = "green" /\ r.hint # None
  IN  [r EXCEPT !.result = IF hinted THEN "yellow" ELSE @,
                !.independent = @ /\ r.result = "green" /\ ~hinted,
                !.accepted = @ /\ r.result # "skipped",
                !.tag = IF r.result = "skipped" THEN None ELSE @]

\* schedule(): stability in thousandths of a day, shrinking to no less than one day.
Schedule(m, e) ==
  LET before == IF m = None THEN 1000 ELSE Larger(1000, m.stability)
      delay == IF m = None THEN 0 ELSE Larger(0, e.day - m.last)
      bonus == IF delay >= 7 THEN 125 ELSE IF delay >= 2 THEN 110 ELSE 100
      helped == e.hint # None \/ ~e.independent
      lapse == e.result \in {"red", "skipped"} \/ helped
      stability ==
        IF lapse THEN IF m = None \/ ~m.counted THEN 1000
                      ELSE Larger(1000, (before * 62) \div 100)
        ELSE IF e.result = "yellow" THEN Larger(1000, (before * 9) \div 10)
        ELSE Larger(2000, (((before * 215) \div 100) * bonus) \div 100)
      rounded == (stability + 500) \div 1000
      interval ==
        IF lapse \/ e.result = "yellow" THEN 1
        ELSE IF rounded > 60 THEN 60 ELSE Larger(2, rounded)
  IN  [stability |-> stability, counted |-> TRUE, last |-> e.day, due |-> e.day + interval]

Penalised(m, e) == Schedule(m, e)

\* A skip is no review.
Remembered(m, e) == IF e.result = "skipped" THEN m ELSE Schedule(m, e)

\* exp(-elapsed / stability) < TARGET_RETENTION = 0.85, either clamped.
Forgotten(stability, elapsed) ==
  Larger(0, elapsed) * 10000000 > Larger(100, stability) * 1625

-----------------------------------------------------------------------------
(* What the events say: derive_observations.                               *)

Rows == {i \in DOMAIN events : events[i].result # "skipped"}
RowsOf(p) == {i \in Rows : events[i].problem = p}

Clean(i) == events[i].result = "green" /\ events[i].independent /\ events[i].hint = None

\* FAILURE_TAG_TO_ERROR, then ERROR_FAMILY_TO_DIMENSION.
ErrorType(tag) == IF tag = "bugs" THEN "testing" ELSE tag
DimensionOf(family) ==
  CASE family = "complexity" -> "derivation"
    [] family = "communication" -> "explanation"
    [] OTHER -> family

FailedDimensions(i) ==
  IF i \in classified THEN {DimensionOf(ErrorType(events[i].tag))} ELSE {}

DaysSincePrevious(i) ==
  LET earlier == {j \in RowsOf(events[i].problem) : j < i}
  IN  IF earlier = {} THEN 0 ELSE events[i].day - events[Latest(earlier)].day

FromResult(i, d) ==
  IF d \in FailedDimensions(i) THEN "failed"
  ELSE CASE events[i].result = "red" ->
              IF FailedDimensions(i) = {}
                 /\ d = (IF events[i].hint = None THEN "derivation" ELSE "implementation")
              THEN "failed" ELSE None
         [] Clean(i) ->
              IF d \in CoreDimensions \/ (d = "testing" /\ events[i].accepted)
              THEN "independent" ELSE None
         [] OTHER -> IF d \in CoreDimensions THEN "assisted" ELSE None

FromScore(i) ==
  CASE events[i].score >= 40 -> "independent"
    [] events[i].score >= 30 /\ events[i].score < 40 -> "assisted"
    [] OTHER -> "failed"

FromGap(i) ==
  IF DaysSincePrevious(i) < RetentionGap THEN None
  ELSE CASE Clean(i) -> "independent"
         [] events[i].result = "red" -> "failed"
         [] OTHER -> None

\* What an attempt says of a dimension; None: nothing.
Signal(i, d) ==
  CASE d = "retention" -> FromGap(i)
    [] d = "explanation" /\ events[i].score # None -> FromScore(i)
    [] OTHER -> FromResult(i, d)

ProblemsOf(s) == {p \in Problems : s \in Core[p] \cup Other[p]}

Observations(s, d) ==
  {i \in Rows : events[i].problem \in ProblemsOf(s) /\ Signal(i, d) # None}

Saying(s, d, signal) == {i \in Observations(s, d) : Signal(i, d) = signal}

IndependentCount(s, d) == Cardinality(Saying(s, d, "independent"))

-----------------------------------------------------------------------------
(* What is believed: _dimension_state, compute_skill_states.               *)

Stabilities(s) == {memory[p].stability : p \in {q \in ProblemsOf(s) : memory[q] # None}}

\* The longest memory of the skill's problems is forgotten, and so are the shorter ones. A
\* skill of whose problems nothing is remembered does not decay.
Decays(s, d) ==
  /\ Stabilities(s) # {}
  /\ \A stability \in Stabilities(s) :
       Forgotten(stability, today - events[Latest(Observations(s, d))].day)

CountOnly(s, d) == IndependentCount(s, d) >= Threshold

Proven(s, d) ==
  /\ IndependentCount(s, d) >= Threshold
  /\ Signal(Latest(Observations(s, d)), d) # "failed"

Naive(s, d) ==
  IF Observations(s, d) = {} THEN "no_evidence"
  ELSE CASE Proven(s, d) -> IF Decays(s, d) THEN "decaying" ELSE "independent"
         [] IndependentCount(s, d) = 1 -> "developing"
         [] OTHER -> "fragile"

IsWeak(s) ==
  \/ \E d \in CoreDimensions : Naive(s, d) = "fragile"
  \/ \A d \in CoreDimensions : Naive(s, d) = "no_evidence"

\* Repeated failures on a skill whose prerequisites are weak.
SkillState(s, d) ==
  IF /\ Naive(s, d) = "fragile"
     /\ Cardinality(Saying(s, d, "failed")) >= 2
     /\ \E q \in Prerequisites[s] : IsWeak(q)
  THEN "blocked" ELSE Naive(s, d)

\* READINESS_VALUE, in hundredths.
Value(state) ==
  CASE state = "independent" -> 100 [] state = "developing" -> 75 [] state = "decaying" -> 60
    [] state = "no_evidence" -> 50 [] state = "fragile" -> 25 [] state = "blocked" -> 10

\* _aggregate_readiness, three times over.
Readiness(s) ==
  Value(SkillState(s, "recognition")) + Value(SkillState(s, "derivation"))
    + Value(SkillState(s, "implementation"))

-----------------------------------------------------------------------------
(* What to do today: the gate of _score_candidate, and _next_gate. The      *)
(* scores that rank candidates of one class are left open.                 *)

\* A core skill has a prerequisite below PREREQ_GATE_THRESHOLD = 0.35.
Gated(p) == \E s \in Core[p] : \E q \in Prerequisites[s] : Readiness(q) < 105

DIMENSION_WEAKNESS(state) ==
  CASE state \in {"fragile", "blocked"} -> 100 [] state = "decaying" -> 75
    [] state = "developing" -> 40 [] state = "no_evidence" -> 25 [] state = "independent" -> 0

\* The weakest cells of the selected problem's core skills; ties are broken by name.
NextGate(p) ==
  LET Cells == Core[p] \X (CoreDimensions \cup {"retention"})
      Weakness(c) == DIMENSION_WEAKNESS(SkillState(c[1], c[2]))
  IN  {c \in Cells : \A b \in Cells : Weakness(b) <= Weakness(c)}

ToGo(s, d) == Larger(0, Threshold - IndependentCount(s, d))

\* detect_traps: the events that name a family, and those that needed the walkthrough.
Families == {ErrorType(tag) : tag \in Tags}
TrapEvidence(family) ==
  IF family = "hint-dependence" THEN {i \in Rows : events[i].hint = "H4"}
  ELSE {i \in classified : ErrorType(events[i].tag) = family}

-----------------------------------------------------------------------------
Init ==
  /\ today = 0
  /\ events = <<>> /\ classified = {}
  /\ memory = [p \in Problems |-> None]
  /\ copied = {}

\* backfill_attempt_errors takes every event that has a tag.
Tagged == {i \in DOMAIN events : events[i].tag # None}

NeverClassified(e) == {}

Classified(e) == IF e.tag # None /\ e.result # "skipped" THEN {Len(events) + 1} ELSE {}

EventOf(r, p, day, origin) ==
  [problem |-> p, day |-> day, origin |-> origin, result |-> r.result,
   independent |-> r.independent, accepted |-> r.accepted, hint |-> r.hint,
   score |-> r.score, tag |-> r.tag]

\* record_attempt_evidence. Beside a tracker this is extra practice, which it is not told.
Attempt(p, r) ==
  /\ Len(events) < MaxAttempts
  /\ LET e == EventOf(Recorded(r), p, today, "web")
     IN  /\ events' = Append(events, e)
         /\ classified' = classified \cup Classified(e)
         /\ memory' = [memory EXCEPT ![p] = Remembered(@, e)]
         /\ copied' = IF e.result = "skipped" THEN copied ELSE copied \ {p}
  /\ UNCHANGED today

\* seed_content, when the web process starts.
Seed ==
  /\ classified' = Tagged
  /\ UNCHANGED <<today, events, memory, copied>>

\* The log has nothing new: the importer only classifies what it finds.
NothingLogged == classified' = Tagged /\ UNCHANGED events

\* Where a row comes to be when another takes the k-th place.
Moved(k, i) == IF i < k THEN i ELSE i + 1

\* A line that is new in the log is inserted as it reads, dated today or earlier; among rows
\* of its day it may come anywhere. Nobody classifies it until the next start or import.
Logged(p, r, day) ==
  /\ Len(events) < MaxAttempts
  /\ \E k \in 1..Len(events) + 1 :
       /\ \A i \in DOMAIN events : IF i < k THEN events[i].day <= day ELSE day <= events[i].day
       /\ events' = InsertAt(events, k, EventOf(r, p, day, "tracker"))
       /\ classified' = {Moved(k, i) : i \in Tagged}

\* A date that the state file does not hold is today's.
Filled(told) ==
  [stability |-> told.stability, counted |-> told.counted,
   last |-> IF told.last = None THEN today ELSE told.last,
   due |-> IF told.due = None THEN today ELSE told.due]

\* Whatever the state file remembers, with or without a line in the log, overwrites what is
\* remembered here, newer or not.
Copy(state) ==
  /\ memory' = [p \in Problems |-> IF state[p] = None THEN memory[p] ELSE Filled(state[p])]
  /\ copied' = copied \cup {p \in Problems : state[p] # None}

\* The importer, whose log has at most one line that is new here.
Import(state) ==
  /\ \/ NothingLogged
     \/ \E p \in Problems, r \in Imported, day \in 0..today : Logged(p, r, day)
  /\ Copy(state)
  /\ UNCHANGED today

Sleep(days) ==
  /\ today + days <= MaxDay
  /\ today' = today + days
  /\ UNCHANGED evidenceVars

Next ==
  \/ \E p \in Problems, r \in Reports : Attempt(p, r)
  \/ Seed
  \/ \E state \in States : Import(state)
  \/ \E days \in Sleeps : Sleep(days)

Spec == Init /\ [][Next]_vars

-----------------------------------------------------------------------------
(* Properties.                                                             *)

\* The facts keep their types, and only rows that exist are classified.
TypeOK ==
  /\ today \in 0..MaxDay
  /\ events \in Seq(Event)
  /\ classified \subseteq DOMAIN events
  /\ memory \in [Problems -> Memory \cup {None}]
  /\ copied \subseteq Problems

\* What the last row says, of whatever dimension.
LastSays ==
  IF Len(events) \in Rows THEN {Signal(Len(events), d) : d \in Dimensions} \ {None} ELSE {}

NoCellRises ==
  /\ \A s \in Skills, d \in Dimensions : Value(SkillState(s, d)') <= Value(SkillState(s, d))
  /\ \A p \in Problems : Gated(p) => Gated(p)'

\* Until now nothing was remembered of the skill's problems.
FirstRemembered(s) == Stabilities(s) = {} /\ Stabilities(s)' # {}

NoCellFalls ==
  /\ \A s \in Skills, d \in Dimensions :
       d \in CoreDimensions \/ ~FirstRemembered(s) =>
         Value(SkillState(s, d)') >= Value(SkillState(s, d))
  /\ \A p \in Problems : Gated(p)' => Gated(p)

\* An attempt that only failed makes no skill look readier and opens no gate, neither of
\* the skill it failed in nor of one that depends on it or shares the problem's memory,
\* whatever the tracker left to remember; one that only proved something makes none look
\* less ready and closes no gate, with two exceptions: what it proves beside a red result
\* is but the explanation, and the memory shrinks; and the first memory of a skill, known
\* till then from imported rows only, makes what was proven long ago of testing,
\* explanation or retention decay. A skip makes no difference; and passing days make
\* nothing look readier.
ReadinessFollowsEvidence ==
  [][/\ (\E p \in Problems, r \in Reports : Attempt(p, r)) =>
          /\ LastSays' \subseteq {"failed"} => NoCellRises
          /\ LastSays' \subseteq {"independent"} /\ events'[Len(events')].result # "red" =>
               NoCellFalls
     /\ today' > today => NoCellRises]_vars

\* A failure a learner reports here is classified at once and for good, and a skip is part
\* of no trap, whatever was reported with it and however often a start classifies.
ReportedFailuresCount ==
  \A i \in DOMAIN events :
    events[i].origin = "web" =>
      /\ i \in classified <=> events[i].tag # None
      /\ events[i].result = "skipped" =>
           \A family \in Families \cup {"hint-dependence"} : i \notin TrapEvidence(family)

\* No shorter than a day, and due within the 60 days after the last attempt.
Timely(m) == m.stability >= 1000 /\ m.due \in m.last + 1 .. m.last + 60

DaysHere(p) == {events[i].day : i \in {j \in RowsOf(p) : events[j].origin = "web"}}

\* Whatever the importer wrote into a memory, and however imports, skips and attempts
\* alternate: from the first attempt here on that is no skip the memory is sound again and
\* as of the latest attempt here, until the importer writes it anew; a problem that neither
\* wrote is not remembered, whatever lines of its log were imported or skips recorded.
MemoryFollowsEvidence ==
  \A p \in Problems \ copied :
    IF DaysHere(p) = {} THEN memory[p] = None
    ELSE /\ memory[p] # None /\ Timely(memory[p])
         /\ memory[p].last \in DaysHere(p)
         /\ \A day \in DaysHere(p) : day <= memory[p].last

-----------------------------------------------------------------------------
(* What comments say, and the code does not ensure.                        *)

\* app/learning.py: "2 independent completions promote" a cell, so many recorded, so many
\* to go: a cell that is not independent has some to go.
GateTellsTheWay ==
  \A p \in Problems : \A c \in NextGate(p) :
    SkillState(c[1], c[2]) # "independent" => ToGo(c[1], c[2]) > 0

\* app/attempts.py: a reported failure tag is structured "so the learner model sees it
\* without a restart".
FailuresAreSeen ==
  \A i \in Rows : events[i].tag # None => i \in classified

\* docs/architecture.md: "Ad hoc sessions may create attempt/memory/review evidence": what
\* an attempt here left is remembered while it is the last row of its problem.
MemoryIsOfTheLastRow ==
  \A p \in Problems : \A i \in RowsOf(p) :
    events[i].origin = "web" /\ (\A j \in RowsOf(p) : j <= i) =>
      memory[p].last = events[i].day
=============================================================================
