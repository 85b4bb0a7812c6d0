------------------------------ MODULE WorkQueue ------------------------------
(***************************************************************************)
(* What every job queue of the program promises its callers, whatever it   *)
(* does to keep the promise: jobs are submitted once, run one at a time,   *)
(* and end once per run; a waiting job can be withdrawn and then does not  *)
(* run; a failed or cancelled job can be submitted again; a job that ended *)
(* well or was cancelled can be forgotten, a running one cannot.           *)
(***************************************************************************)
CONSTANT Jobs

VARIABLE status

Statuses == {"none", "waiting", "running", "completed", "failed", "cancelled",
             "forgotten"}

Running == {j \in Jobs : status[j] = "running"}

\* Every job of S moves to status s at once, the others stay.
Move(S, s) == status' = [j \in Jobs |-> IF j \in S THEN s ELSE status[j]]

Init == status = [j \in Jobs |-> "none"]

Submit(S) == /\ \A j \in S : status[j] = "none"
             /\ Move(S, "waiting")

Start(j) == /\ status[j] = "waiting"
            /\ Running = {}
            /\ Move({j}, "running")

End(j, s) == /\ status[j] = "running"
             /\ Move({j}, s)

Withdraw(S) == /\ \A j \in S : status[j] = "waiting"
               /\ Move(S, "cancelled")

Resubmit(j) == /\ status[j] \in {"failed", "cancelled"}
               /\ Move({j}, "waiting")

Forget(S) == /\ \A j \in S : status[j] \in {"completed", "cancelled"}
             /\ Move(S, "forgotten")

Next ==
    \/ \E S \in SUBSET Jobs : Submit(S) \/ Withdraw(S) \/ Forget(S)
    \/ \E j \in Jobs : Start(j) \/ Resubmit(j)
    \/ \E j \in Jobs, s \in {"completed", "failed", "cancelled"} : End(j, s)

Spec == Init /\ [][Next]_status
=============================================================================
