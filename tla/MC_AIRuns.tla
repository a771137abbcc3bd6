----------------------------- MODULE MC_AIRuns -----------------------------
(***************************************************************************)
(* Small instances of AIRuns.                                              *)
(***************************************************************************)
EXTENDS AIRuns, TLC

CONSTANTS w1, w2, d1

Request(kind, scope, key, body, digest, input) ==
  [kind |-> kind, scope |-> scope, key |-> key, body |-> body, cache |-> digest, input |-> input]

\* One chat message and one lesson: the kinds whose completion differs.
Chat == Request("chat", "s1", "k1", "b1", None, 2)
Lesson == Request("lesson", "p1", "k1", "b1", d1, 2)
LifecycleRequests == {Chat, Lesson}

\* Lessons of one shelf: two bodies under one key, and a digest under two keys, so that the
\* later may be served from the cache; and a chat too large to admit.
AdmissionRequests ==
  { Lesson,
    Request("lesson", "p1", "k1", "b2", None, 3),
    Request("lesson", "p1", "k2", "b1", d1, 2),
    Request("chat", "s1", "k1", "b1", None, 9) }

\* A provider that reports nothing, and one that reports more than it was allowed.
SmallUsages ==
  {[input |-> 0, output |-> 0, text |-> 1], [input |-> 3, output |-> 4, text |-> 1]}

OneUsage == {[input |-> 0, output |-> 0, text |-> 1]}

WorkerSymmetry == Permutations(Workers)
=============================================================================
