--------------------------- MODULE MC_Catalogue ---------------------------
(***************************************************************************)
(* A small instance of Catalogue: the problem 1 is called x, the problem 2 *)
(* is y for LeetCode and y2 in the study plan.                             *)
(***************************************************************************)
EXTENDS Catalogue

Ref(id, slug, pattern) == [id |-> id, slug |-> slug, pattern |-> pattern]

IdOfSlug == [slug \in {"x", "y", "y2"} |-> IF slug = "x" THEN 1 ELSE 2]

StudyPlan == <<Ref(None, "x", "paths"), Ref(None, "y2", "paths")>>
FormalItems == <<Ref(1, "x", "lowlink"), Ref(2, "y", "lowlink")>>
CuratedSkills == [id \in {1, 2} |-> IF id = 1 THEN {"lowlink"} ELSE {"paths"}]
StarterPack == <<Ref(2, "y", "lowlink")>>
FewTrackers ==
  {[active |-> None, events |-> <<Ref(None, "y2", None)>>],
   [active |-> Ref(2, "y2", "lowlink"), events |-> <<Ref(1, "x", None), Ref(2, "y", None)>>]}
=============================================================================
