---------------------------- MODULE ClaimContract ----------------------------
(***************************************************************************)
(* What the bridge to the tracker promises for the attempts it submits,    *)
(* whatever requests die, repeat or overlap behind it: a claim has one     *)
(* operation at a time; its command runs once, unless the bridge has lost  *)
(* sight of a run of it; it is given up only while no run is known of; it  *)
(* is marked when its own command has left a receipt, and completed when   *)
(* that receipt was brought home; and from the mark on nothing runs again. *)
(* src/app/services.py and src/scripts/import_legacy.py keep it.           *)
(***************************************************************************)
CONSTANTS
  Claims, Operations,
  Ids,         \* what the outside world numbers its receipts with
  None

VARIABLES
  status,      \* claim -> "none", "pending", "action_done" or "completed"
  owner,       \* claim -> the operation it is of
  receipts,    \* what commands left outside: [id, claim, op]
  lost,        \* claims with a command that ran unseen
  home         \* ids that were brought home

contractVars == <<status, owner, receipts, lost, home>>

ReceiptsOf(i) == {r \in receipts : r.claim = i}

\* No run of the claim's command is known of that the bridge has not lost sight of.
Clear(i) == ReceiptsOf(i) = {} \/ i \in lost

\* The claim's operation has left a receipt.
HasRun(i) == \E r \in ReceiptsOf(i) : r.op = owner[i]

Init ==
  /\ status = [i \in Claims |-> "none"]
  /\ owner = [i \in Claims |-> None]
  /\ receipts = {} /\ lost = {} /\ home = {}

Take(i, o) ==
  /\ status[i] = "none"
  /\ status' = [status EXCEPT ![i] = "pending"]
  /\ owner' = [owner EXCEPT ![i] = o]
  /\ UNCHANGED <<receipts, lost, home>>

\* The command takes effect, and the bridge learns of it or does not.
Act(i) ==
  /\ status[i] = "pending"
  /\ Clear(i)
  /\ \E n \in Ids :
       /\ \A r \in receipts : r.id # n
       /\ receipts' = receipts \cup {[id |-> n, claim |-> i, op |-> owner[i]]}
  /\ lost' \in {lost, lost \cup {i}}
  /\ UNCHANGED <<status, owner, home>>

LoseSight(i) ==
  /\ status[i] = "pending"
  /\ HasRun(i)
  /\ lost' = lost \cup {i}
  /\ UNCHANGED <<status, owner, receipts, home>>

GiveUp(i) ==
  /\ status[i] = "pending"
  /\ Clear(i)
  /\ status' = [status EXCEPT ![i] = "none"]
  /\ owner' = [owner EXCEPT ![i] = None]
  /\ UNCHANGED <<receipts, lost, home>>

Mark(i) ==
  /\ status[i] = "pending"
  /\ HasRun(i)
  /\ status' = [status EXCEPT ![i] = "action_done"]
  /\ UNCHANGED <<owner, receipts, lost, home>>

BringHome(S) ==
  /\ home' = home \cup S
  /\ UNCHANGED <<status, owner, receipts, lost>>

Complete(i) ==
  /\ status[i] = "action_done"
  /\ \E r \in ReceiptsOf(i) : r.op = owner[i] /\ r.id \in home
  /\ status' = [status EXCEPT ![i] = "completed"]
  /\ UNCHANGED <<owner, receipts, lost, home>>

Next ==
  \/ \E i \in Claims :
       \/ \E o \in Operations : Take(i, o)
       \/ Act(i) \/ LoseSight(i) \/ GiveUp(i) \/ Mark(i) \/ Complete(i)
  \/ \E S \in SUBSET Ids : BringHome(S)

Spec == Init /\ [][Next]_contractVars
=============================================================================
