----------------------------- MODULE JobContract -----------------------------
(***************************************************************************)
(* What the AI run queue promises to whoever submits a job, whatever the   *)
(* workers, leases, retries and crashes behind it do: an accepted job is   *)
(* open and holds its reservation until it is answered, fails or is        *)
(* cancelled, once; only an answer is charged, and never after that.       *)
(* src/app/ai/repository.py and src/app/ai/worker.py keep this contract.   *)
(***************************************************************************)
EXTENDS Naturals

CONSTANT Jobs

VARIABLES
  phase,     \* job -> "absent", "open", "completed", "failed" or "cancelled"
  hold,      \* job -> tokens reserved for it
  charged,   \* job -> tokens charged for its answer
  answered   \* jobs with an assistant message or an artifact

jobVars == <<phase, hold, charged, answered>>

Init ==
  /\ phase = [j \in Jobs |-> "absent"]
  /\ hold = [j \in Jobs |-> 0]
  /\ charged = [j \in Jobs |-> 0]
  /\ answered = {}

\* Some positive number of tokens is held (charged, in Answer), for j only.
Accept(j) ==
  /\ phase[j] = "absent"
  /\ phase' = [phase EXCEPT ![j] = "open"]
  /\ hold'[j] \in Nat \ {0}
  /\ hold' = [hold EXCEPT ![j] = hold'[j]]
  /\ UNCHANGED <<charged, answered>>

Answer(j) ==
  /\ phase[j] = "open"
  /\ phase' = [phase EXCEPT ![j] = "completed"]
  /\ hold' = [hold EXCEPT ![j] = 0]
  /\ charged'[j] \in Nat \ {0}
  /\ charged' = [charged EXCEPT ![j] = charged'[j]]
  /\ answered' = answered \cup {j}

\* One sweep may give up several jobs.
GiveUp(S) ==
  /\ \A j \in S : phase[j] = "open"
  /\ phase' = [j \in Jobs |-> IF j \in S THEN "failed" ELSE phase[j]]
  /\ hold' = [j \in Jobs |-> IF j \in S THEN 0 ELSE hold[j]]
  /\ UNCHANGED <<charged, answered>>

Cancel(j) ==
  /\ phase[j] = "open"
  /\ phase' = [phase EXCEPT ![j] = "cancelled"]
  /\ hold' = [hold EXCEPT ![j] = 0]
  /\ UNCHANGED <<charged, answered>>

Next ==
  \/ \E j \in Jobs : Accept(j) \/ Answer(j) \/ Cancel(j)
  \/ \E S \in SUBSET Jobs : GiveUp(S)

Spec == Init /\ [][Next]_jobVars
=============================================================================
