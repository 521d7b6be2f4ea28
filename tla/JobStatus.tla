----------------------------- MODULE JobStatus -----------------------------
(***************************************************************************)
(* What the backend promises about archive_jobs.status: each job moves      *)
(* along the edges below and nowhere else.  A capture that was completed    *)
(* never goes back to being crawled, and only 'queued' and 'retryable' jobs *)
(* start to run.  Several jobs may move in one step, because a stale scan   *)
(* commits all of its recoveries together.                                  *)
(***************************************************************************)
CONSTANT Jobs
VARIABLE status

Edges == {
    <<"queued", "running">>, <<"retryable", "running">>,
    <<"running", "completed">>, <<"running", "failed">>, <<"running", "retryable">>,
    <<"failed", "retryable">>,
    <<"completed", "indexed">>, <<"completed", "index_failed">>,
    <<"index_failed", "completed">> }

Init == status \in [Jobs -> {"queued", "completed"}]
Next ==
    /\ \A j \in Jobs : status'[j] = status[j] \/ <<status[j], status'[j]>> \in Edges
    /\ DOMAIN status' = Jobs
Spec == Init /\ [][Next]_status
=============================================================================
