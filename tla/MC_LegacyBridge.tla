-------------------------- MODULE MC_LegacyBridge --------------------------
(***************************************************************************)
(* Small instances of LegacyBridge.                                        *)
(***************************************************************************)
EXTENDS LegacyBridge, TLC

CONSTANTS c1, c2, s1, e1, f1, f2

CallerSymmetry == Permutations(Callers)
=============================================================================
