---------------------------- MODULE JobLifecycle ----------------------------
(* What the job registry promises a client that polls GET /jobs/{id}         *)
(* (jobs.py, module docstring): a job is born queued, may run, and ends done *)
(* or error; an end is final; an accepted cancellation ends it in error and  *)
(* its result is never published.                                            *)
CONSTANT Jobs

VARIABLES
    status,     \* what GET /jobs/{id} reports
    cancelled   \* an accepted DELETE /jobs/{id}

Terminal == {"done", "error"}

Init ==
    /\ status = [j \in Jobs |-> "none"]
    /\ cancelled = [j \in Jobs |-> FALSE]

Accept(j) ==
    /\ status[j] = "none"
    /\ status' = [status EXCEPT ![j] = "queued"]
    /\ UNCHANGED cancelled

Start(j) ==
    /\ status[j] = "queued"
    /\ status' = [status EXCEPT ![j] = "running"]
    /\ UNCHANGED cancelled

\* A job fails, or is withdrawn at shutdown; a queued one is never "done".
End(j, outcome) ==
    /\ status[j] = "running" \/ (status[j] = "queued" /\ outcome = "error")
    /\ status' = [status EXCEPT ![j] = outcome]
    /\ UNCHANGED cancelled

Cancel(j) ==
    /\ status[j] \in {"queued", "running"}
    /\ status' = [status EXCEPT ![j] = "error"]
    /\ cancelled' = [cancelled EXCEPT ![j] = TRUE]

Next ==
    \E j \in Jobs :
        \/ Accept(j)
        \/ Start(j)
        \/ \E outcome \in Terminal : End(j, outcome)
        \/ Cancel(j)

Spec == Init /\ [][Next]_<<status, cancelled>>

=============================================================================
