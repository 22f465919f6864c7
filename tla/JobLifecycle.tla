----------------------------- MODULE JobLifecycle -----------------------------
(***************************************************************************)
(* What the store promises about a forwarding job, whatever is going on in *)
(* memory: the durable states of a job, how it moves between them, and how *)
(* many attempts it has on record.  Legacy names are folded in the way     *)
(* JobCounts folds them: "queued" is "pending", "running" is "leased".     *)
(***************************************************************************)
EXTENDS Naturals

CONSTANTS Jobs, MaxTries

VARIABLES
  status,   \* "none" while the job is not on record
  tries     \* attempts on record

vars == <<status, tries>>

Done == {"succeeded", "failed", "fatal", "dead-letter", "poison"}
Statuses == {"none", "pending", "leased", "retrying"} \cup Done

\* Statuses and attempt counts have their types.
TypeOK == status \in [Jobs -> Statuses] /\ tries \in [Jobs -> Nat]

Init == /\ status \in [Jobs -> {"none", "pending", "leased", "failed"}]
        /\ tries = [j \in Jobs |-> 0]

\* Room for new work is made by dropping finished jobs, in the same step.
Create(j, dropped) ==
  /\ \A k \in dropped : status[k] \in Done
  /\ status[j] = "none" /\ j \notin dropped
  /\ status' = [k \in Jobs |-> IF k \in dropped THEN "none"
                               ELSE IF k = j THEN "pending" ELSE status[k]]
  /\ tries' = [k \in Jobs |-> IF k \in dropped THEN 0 ELSE tries[k]]

\* A capture without forwarding makes room too.
Drop(dropped) ==
  /\ \A k \in dropped : status[k] \in Done
  /\ status' = [k \in Jobs |-> IF k \in dropped THEN "none" ELSE status[k]]
  /\ tries' = [k \in Jobs |-> IF k \in dropped THEN 0 ELSE tries[k]]

\* A leased job is claimed again once its lease has expired.
Claim(j) ==
  /\ status[j] \in {"pending", "retrying", "leased"}
  /\ status' = [status EXCEPT ![j] = "leased"]
  /\ UNCHANGED tries

\* An attempt and the state it leads to are one step.
Attempt(j, result) ==
  /\ status[j] = "leased" /\ tries[j] < MaxTries
  /\ status' = [status EXCEPT ![j] = result]
  /\ tries' = [tries EXCEPT ![j] = @ + 1]

GiveUp(j) ==
  /\ status[j] = "leased"
  /\ status' = [status EXCEPT ![j] = "poison"]
  /\ UNCHANGED tries

\* The process that held the leases is gone.
Recover(stale) ==
  /\ \A j \in stale : status[j] = "leased"
  /\ status' = [j \in Jobs |-> IF j \in stale THEN "pending" ELSE status[j]]
  /\ UNCHANGED tries

Next ==
  \/ \E j \in Jobs, dropped \in SUBSET Jobs : Create(j, dropped)
  \/ \E J \in SUBSET Jobs : Drop(J) \/ Recover(J)
  \/ \E j \in Jobs : Claim(j) \/ GiveUp(j)
  \/ \E j \in Jobs, r \in {"retrying", "succeeded", "fatal", "dead-letter"} :
       Attempt(j, r)

Spec == Init /\ [][Next]_vars

=============================================================================
