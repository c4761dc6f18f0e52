----------------------------- MODULE JobLifecycle -----------------------------
(* What the runner service promises of a rerun job, whatever calls race for    *)
(* it: RUNNER_SPEC.md polls queued/running/succeeded/failed/cancelled until a  *)
(* terminal status and then stops looking.                                     *)
CONSTANT Run        \* the run ids the service may hand out

Terminal == {"succeeded", "failed", "cancelled"}
Statuses == {"none", "queued", "running"} \cup Terminal \cup {"gone"}

VARIABLES
    status,         \* the status of every job
    requested       \* the jobs whose cancellation was requested

vars == <<status, requested>>

Init ==
    /\ status = [r \in Run |-> "none"]
    /\ requested = {}

Submit(r) ==
    /\ status[r] = "none"
    /\ status' = [status EXCEPT ![r] = "queued"]
    /\ UNCHANGED requested

Request(r) ==
    /\ status[r] \notin {"none", "gone"}
    /\ requested' = requested \cup {r}
    /\ UNCHANGED status

\* The actor is never started for a job whose cancellation was requested.
Start(r) ==
    /\ status[r] = "queued"
    /\ r \notin requested
    /\ status' = [status EXCEPT ![r] = "running"]
    /\ UNCHANGED requested

Cancel(r) ==
    /\ status[r] \in {"queued", "running"}
    /\ r \in requested
    /\ status' = [status EXCEPT ![r] = "cancelled"]
    /\ UNCHANGED requested

\* A requested cancellation decides the outcome of a job that has not ended.
End(r) ==
    /\ status[r] = "running"
    /\ r \notin requested
    /\ \E s \in {"succeeded", "failed"} : status' = [status EXCEPT ![r] = s]
    /\ UNCHANGED requested

\* The service keeps its jobs in memory: a restart forgets them.
Forget ==
    /\ status' = [r \in Run |-> IF status[r] = "none" THEN "none" ELSE "gone"]
    /\ UNCHANGED requested

Next == Forget \/ \E r \in Run : Submit(r) \/ Request(r) \/ Start(r) \/ Cancel(r) \/ End(r)

Spec == Init /\ [][Next]_vars
===============================================================================
