---------------------------- MODULE JobRepository ---------------------------
(* jobs/repository.py: the statements that change a row of the jobs table.  *)
(* Each action is one UPDATE, the unit that PostgreSQL runs atomically on a *)
(* row at READ COMMITTED; an operation of several statements (cancel, reap) *)
(* is several actions, and anything may happen between them.  The callers   *)
(* of this module are arbitrary; JobExecutor adds the real ones.  Only the  *)
(* operations that src/ calls are here: nothing but tests makes a job run   *)
(* by transition(to="running"), so that is left out.                        *)
EXTENDS Integers, JobStates

CONSTANTS Jobs,          \* rows of the jobs table
          Executors,     \* each of them calls requeue_stale
          MaxAttempts    \* ExecutorConfig.max_attempts

ASSUME MaxAttemptsAssumption == MaxAttempts \in Nat \ {0}

VARIABLES status,        \* Job.status
          attempts,      \* Job.attempts
          cancelReq,     \* Job.cancel_requested
          beat,          \* Job.heartbeat_at: "none" (NULL), "fresh", or "stale"
          reap,          \* the statement the requeue_stale of each reaper is at
          cutoff,        \* the running jobs stale at its now() and not beaten since
          cancel         \* the request to cancel each job, and its answer

repoVars == <<status, attempts, cancelReq, beat, reap, cutoff, cancel>>

RepoTypeOK ==
  /\ status    \in [Jobs -> Statuses]
  /\ attempts  \in [Jobs -> 0..MaxAttempts]
  /\ cancelReq \in [Jobs -> BOOLEAN]
  /\ beat      \in [Jobs -> {"none", "fresh", "stale"}]
  /\ reap      \in [Executors -> {"idle", "failing", "requeueing"}]
  /\ cutoff    \in [Executors -> SUBSET Jobs]
  /\ cancel    \in [Jobs -> {"none", "not_queued", "cancelled", "requested", "refused"}]

RepoInit ==
  /\ status    = [j \in Jobs |-> "queued"]
  /\ attempts  = [j \in Jobs |-> 0]
  /\ cancelReq = [j \in Jobs |-> FALSE]
  /\ beat      = [j \in Jobs |-> "none"]
  /\ reap      = [r \in Executors |-> "idle"]
  /\ cutoff    = [r \in Executors |-> {}]
  /\ cancel    = [j \in Jobs |-> "none"]
-----------------------------------------------------------------------------
\* heartbeat_at := now, so that the row passes the cutoff of no reaper under way.
Beaten(j) == /\ beat'   = [beat EXCEPT ![j] = "fresh"]
             /\ cutoff' = [r \in Executors |-> cutoff[r] \ {j}]

\* Mutant: the attempt is not counted.
ClaimRowUncounted(j) ==
  /\ status[j] = "queued"
  /\ status' = [status EXCEPT ![j] = "running"]
  /\ Beaten(j)
  /\ UNCHANGED <<attempts, cancelReq, reap, cancel>>

\* claim_next, from the locked re-read of the row to the commit.
ClaimRow(j) ==
  /\ status[j] = "queued"
  /\ status'   = [status EXCEPT ![j] = "running"]
  /\ attempts' = [attempts EXCEPT ![j] = @ + 1]
  /\ Beaten(j)
  /\ UNCHANGED <<cancelReq, reap, cancel>>

\* heartbeat: only a running row is touched; whoever calls it for job j.
BeatRow(j) ==
  /\ status[j] = "running"
  /\ Beaten(j)
  /\ UNCHANGED <<status, attempts, cancelReq, reap, cancel>>

\* transition to a terminal status: compare-and-set on the status alone.
Transition(j, to) ==
  /\ to \in Targets(status[j]) \cap Terminal
  /\ status' = [status EXCEPT ![j] = to]
  /\ UNCHANGED <<attempts, cancelReq, beat, reap, cutoff, cancel>>

\* stale_after_s go by without a heartbeat of a running job.
Age(j) ==
  /\ status[j] = "running" /\ beat[j] = "fresh"
  /\ beat' = [beat EXCEPT ![j] = "stale"]
  /\ UNCHANGED <<status, attempts, cancelReq, reap, cutoff, cancel>>
-----------------------------------------------------------------------------
\* requeue_stale is one transaction of three UPDATEs with one now().

\* Mutant: the heartbeat is not compared with the cutoff.
StaleWhenRunning(j) == status[j] = "running"

\* The condition of all three.
Stale(j) == status[j] = "running" /\ beat[j] = "stale"

\* First statement: the stale jobs with a cancel request are cancelled.
\* (With no stale job the three statements change nothing.)
ReapCancelled(r) ==
  LET stale == {j \in Jobs : Stale(j)} IN
  /\ reap[r] = "idle" /\ stale # {}
  /\ status' = [j \in Jobs |-> IF j \in stale /\ cancelReq[j] THEN "cancelled"
                               ELSE status[j]]
  /\ cutoff' = [cutoff EXCEPT ![r] = stale]
  /\ reap'   = [reap EXCEPT ![r] = "failing"]
  /\ UNCHANGED <<attempts, cancelReq, beat, cancel>>

\* Second statement: those with no attempt left fail.
ReapFailed(r) ==
  /\ reap[r] = "failing"
  /\ status' = [j \in Jobs |-> IF j \in cutoff[r] /\ Stale(j) /\ attempts[j] >= MaxAttempts
                               THEN "failed" ELSE status[j]]
  /\ reap'   = [reap EXCEPT ![r] = "requeueing"]
  /\ UNCHANGED <<attempts, cancelReq, beat, cutoff, cancel>>

\* Mutant: the number of attempts is off by one.
ReapRequeuedOffByOne(r) ==
  LET again == {j \in cutoff[r] : Stale(j) /\ attempts[j] + 1 < MaxAttempts} IN
  /\ reap[r] = "requeueing"
  /\ status' = [j \in Jobs |-> IF j \in again THEN "queued" ELSE status[j]]
  /\ beat'   = [j \in Jobs |-> IF j \in again THEN "none" ELSE beat[j]]
  /\ reap'   = [reap EXCEPT ![r] = "idle"]
  /\ cutoff' = [cutoff EXCEPT ![r] = {}]
  /\ UNCHANGED <<attempts, cancelReq, cancel>>

\* Third statement: the others wait again; their cancel request is not read.
ReapRequeued(r) ==
  LET again == {j \in cutoff[r] : Stale(j) /\ attempts[j] < MaxAttempts} IN
  /\ reap[r] = "requeueing"
  /\ status' = [j \in Jobs |-> IF j \in again THEN "queued" ELSE status[j]]
  /\ beat'   = [j \in Jobs |-> IF j \in again THEN "none" ELSE beat[j]]
  /\ reap'   = [reap EXCEPT ![r] = "idle"]
  /\ cutoff' = [cutoff EXCEPT ![r] = {}]
  /\ UNCHANGED <<attempts, cancelReq, cancel>>
-----------------------------------------------------------------------------
\* request_cancel, first statement: a waiting job is cancelled at once.
CancelQueued(j) ==
  /\ cancel[j] = "none"
  /\ IF status[j] = "queued"
       THEN /\ status' = [status EXCEPT ![j] = "cancelled"]
            /\ cancel' = [cancel EXCEPT ![j] = "cancelled"]
       ELSE /\ cancel' = [cancel EXCEPT ![j] = "not_queued"]
            /\ UNCHANGED status
  /\ UNCHANGED <<attempts, cancelReq, beat, reap, cutoff>>

\* Mutant: a running job is cancelled at once, like a waiting one.
CancelRunningAtOnce(j) ==
  /\ cancel[j] = "not_queued"
  /\ IF status[j] = "running"
       THEN /\ status' = [status EXCEPT ![j] = "cancelled"]
            /\ cancel' = [cancel EXCEPT ![j] = "requested"]
       ELSE /\ cancel' = [cancel EXCEPT ![j] = "refused"]
            /\ UNCHANGED status
  /\ UNCHANGED <<attempts, cancelReq, beat, reap, cutoff>>

\* Second statement: a running job is marked; otherwise InvalidTransition.
CancelRunning(j) ==
  /\ cancel[j] = "not_queued"
  /\ IF status[j] = "running"
       THEN /\ cancelReq' = [cancelReq EXCEPT ![j] = TRUE]
            /\ cancel'    = [cancel EXCEPT ![j] = "requested"]
       ELSE /\ cancel' = [cancel EXCEPT ![j] = "refused"]
            /\ UNCHANGED cancelReq
  /\ UNCHANGED <<status, attempts, beat, reap, cutoff>>
-----------------------------------------------------------------------------
\* Nothing is left to do: every caller finds only finished jobs.
RepoQuiescent == /\ \A j \in Jobs : status[j] \in Terminal /\ cancel[j] # "not_queued"
                 /\ \A r \in Executors : reap[r] = "idle"
                 /\ UNCHANGED repoVars

RowNext == \E j \in Jobs : \/ ClaimRow(j) \/ BeatRow(j) \/ Age(j)
                           \/ \E to \in Terminal : Transition(j, to)
                           \/ CancelQueued(j) \/ CancelRunning(j)

ReapNext == \E r \in Executors : ReapCancelled(r) \/ ReapFailed(r) \/ ReapRequeued(r)

RepoNext == RowNext \/ ReapNext \/ RepoQuiescent

RepoSpec == RepoInit /\ [][RepoNext]_repoVars
-----------------------------------------------------------------------------
(* Properties.                                                              *)

\* A waiting job always has an attempt left: claim_next does not look at
\* attempts, so requeue_stale must never let an exhausted job back.
WaitingHasAttempt == \A j \in Jobs : status[j] = "queued" => attempts[j] < MaxAttempts

\* A job that ended stays as it ended, whoever still has a statement to run.
TerminalIsFinal == [][\A j \in Jobs : status[j] \in Terminal => status'[j] = status[j]]_repoVars

\* The table implements the state machine of models.py.
Lifecycle == INSTANCE JobLifecycle
ImplementsLifecycle == Lifecycle!Spec

\* request_cancel says: InvalidTransition when the job has already ended.
RefusedOnlyIfEnded ==
  [][\A j \in Jobs : cancel[j] # "refused" /\ cancel'[j] = "refused"
                     => status[j] \in Terminal]_repoVars
=============================================================================
