------------------------------ MODULE JobStates -----------------------------
(* jobs/models.py: the statuses of a job and its ordinary transitions.      *)
Terminal == {"succeeded", "failed", "cancelled", "timed_out"}
Statuses == {"queued", "running"} \cup Terminal

\* TRANSITIONS: where a job in status `from` may go.  Going back to queued is
\* not among them: only requeue_stale does that.
Targets(from) ==
  {to \in Statuses : \/ from = "queued"  /\ to \in {"running", "cancelled"}
                     \/ from = "running" /\ to \in Terminal}
=============================================================================
