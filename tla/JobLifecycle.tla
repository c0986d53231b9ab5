---------------------------- MODULE JobLifecycle ----------------------------
(* What the job queue promises about every row of the jobs table, whoever   *)
(* writes it: the state machine of jobs/models.py (TRANSITIONS) and the one *)
(* way back to queued that requeue_stale adds, with the number of times the *)
(* job was handed to an executor.  JobRepository implements it.             *)
EXTENDS Integers, JobStates

CONSTANTS Jobs,         \* the jobs of the table
          MaxAttempts   \* ExecutorConfig.max_attempts

VARIABLES status,       \* Job.status
          attempts      \* Job.attempts

lvars == <<status, attempts>>

Init == /\ status   = [j \in Jobs |-> "queued"]
        /\ attempts = [j \in Jobs |-> 0]

\* An executor is handed a queued job: one more attempt.
HandOut(j) == /\ status[j] = "queued" /\ attempts[j] < MaxAttempts
              /\ status'[j] = "running"
              /\ attempts'[j] = attempts[j] + 1

\* The job ends: cancelled while it waits, or any way while it runs.
Finish(j) == /\ status'[j] \in Targets(status[j]) \cap Terminal
             /\ attempts'[j] = attempts[j]

\* The attempt was lost and another one is left: the job waits again.
Retry(j) == /\ status[j] = "running" /\ attempts[j] < MaxAttempts
            /\ status'[j] = "queued"
            /\ attempts'[j] = attempts[j]

Rest(j) == status'[j] = status[j] /\ attempts'[j] = attempts[j]

\* One UPDATE may move several rows; each of them moves as it may alone.
Next == \A j \in Jobs : HandOut(j) \/ Finish(j) \/ Retry(j) \/ Rest(j)

Spec == Init /\ [][Next]_lvars
=============================================================================
