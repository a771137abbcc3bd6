-------------------------- MODULE MC_LearnerModel --------------------------
(***************************************************************************)
(* A small instance of LearnerModel: b trains the skill base, t trains the *)
(* skill top, which needs base and is supported by it.                     *)
(***************************************************************************)
EXTENDS LearnerModel, TLC

CONSTANTS b, t, base, top

CoreOf == b :> {base} @@ t :> {top}
SupportOf == b :> {} @@ t :> {base}
NeedsBase == base :> {} @@ top :> {base}

Said(result, independent, accepted, hint, score, tag) ==
  [result |-> result, independent |-> independent, accepted |-> accepted,
   hint |-> hint, score |-> score, tag |-> tag]

\* Two proofs, of which one names what was wrong nevertheless; two failures, of which one
\* explains well; a skip that reports a failure; and a green that needed the walkthrough.
SomeReports ==
  {Said("green", TRUE, FALSE, None, None, None),
   Said("green", TRUE, TRUE, None, 40, "complexity"),
   Said("red", FALSE, FALSE, None, None, None),
   Said("red", FALSE, FALSE, None, 45, "bugs"),
   Said("skipped", TRUE, FALSE, None, None, "recognition"),
   Said("green", TRUE, TRUE, "H4", None, None)}

LoggedByTracker ==
  {Said("red", FALSE, FALSE, "H1", None, "recognition"),
   Said("green", TRUE, TRUE, None, None, None)}

\* The state file remembers nothing, or a long and overdue memory of b and a short one of t
\* that has no dates.
NoMemory == [p \in {b, t} |-> None]
LongAndShort ==
  [NoMemory EXCEPT
     ![b] = [stability |-> 40000, counted |-> TRUE, last |-> 0, due |-> 1],
     ![t] = [stability |-> 500, counted |-> FALSE, last |-> None, due |-> None]]
StateFiles == {NoMemory, LongAndShort}
=============================================================================
