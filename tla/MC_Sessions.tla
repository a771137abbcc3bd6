---------------------------- MODULE MC_Sessions ----------------------------
(***************************************************************************)
(* Small instances of Sessions.                                            *)
(***************************************************************************)
EXTENDS Sessions, TLC

CONSTANTS p1, a1, i1, e1, e2

ExecutesP1 == a1 :> p1
AllAuthored == a1 :> Levels
AllContent == p1 :> Levels

Report(result, independent) == [result |-> result, independent |-> independent]
Greens == {Report("green", TRUE)}
\* A hinted green is recorded yellow, and yellow and red end alike.
GreenOrSkip == Greens \cup {Report("skipped", TRUE)}

EventSymmetry == Permutations(EventIds)
=============================================================================
