------------------------------ MODULE JobBoard ------------------------------
(***************************************************************************)
(* What the job service promises of a job: it is submitted once, may run,  *)
(* ends once, and then stays as it ended.                                  *)
(***************************************************************************)
CONSTANTS Jobs

VARIABLE status

vars == <<status>>

Init == status = [j \in Jobs |-> "none"]

Submit(j) == status[j] = "none" /\ status' = [status EXCEPT ![j] = "pending"]

Begin(j) == status[j] = "pending" /\ status' = [status EXCEPT ![j] = "running"]

End(j, outcome) ==
  /\ status[j] = "running" \/ (status[j] = "pending" /\ outcome = "cancelled")
  /\ status' = [status EXCEPT ![j] = outcome]

Next ==
  \E j \in Jobs :
    \/ Submit(j)
    \/ Begin(j)
    \/ \E outcome \in {"completed", "failed", "cancelled"} : End(j, outcome)

Spec == Init /\ [][Next]_vars
=============================================================================
