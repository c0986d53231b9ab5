----------------------------- MODULE JobExecutor ----------------------------
(* jobs/executor.py: executors that claim jobs from the table, run each as  *)
(* a child process of the qc-agent CLI in a new session, watch it, and      *)
(* write its results back; with what the child does to the run directory    *)
(* (core/engine.py, core/report.py) and the requests of the API to cancel.  *)
(*                                                                          *)
(* An executor is a main loop (claim, reap) and a pool of one worker thread *)
(* (max_concurrent = 1, the default).  One action is one database statement *)
(* or transaction, one file-system step, or one decision of the code.       *)
EXTENDS JobRepository, FiniteSets

CONSTANTS Keys,        \* the values of params["concurrency_key"]
          NoKey,       \* a job without one
          Key,         \* Key[j]: the key of job j, or NoKey
          Rank,        \* Rank[j]: place of j by (priority DESC, created_at, id)
          ScanLimit,   \* the parameter scan of claim_next
          Free,        \* no session holds the advisory lock
          NoJob,       \* the worker thread has no job
          Faults,      \* the kinds of fault that may happen
          MaxFaults,   \* bound: how many of them in a behaviour
          Cancellable  \* bound: the jobs a user asks, once each, to cancel

Phases == {"start", "watch", "stop", "store", "end", "abort", "close", "notify"}
FaultKinds == {"crash", "orphan", "db", "spawn", "lock", "late", "stop"}

ASSUME ExecutorAssumption ==
  /\ NoKey \notin Keys /\ Free \notin Executors /\ NoJob \notin Jobs
  /\ Key \in [Jobs -> Keys \cup {NoKey}]
  /\ Rank \in [Jobs -> Nat] /\ \A i, j \in Jobs : Rank[i] = Rank[j] => i = j
  /\ ScanLimit \in Nat \ {0} /\ MaxFaults \in Nat
  /\ Faults \subseteq FaultKinds
  /\ Cancellable \subseteq Jobs

VARIABLES main,        \* main loop: "poll", "scan", "claim", "drain" or "down"
          cands,       \* the candidates claim_next has still to try
          trying,      \* the one it is trying, in "claim"
          lock,        \* the executor whose session holds each key's lock
          pc,          \* phase of the worker thread, or "free"
          job,         \* the job it owns
          att,         \* job.attempts as it was when the job was claimed
          outcome,     \* the outcome of _supervise
          child,       \* the CLI process of each attempt of each job
          dir,         \* runs_root/<slug>/<job id> exists
          report,      \* its report.json: the attempt that wrote it, the verdict
          files,       \* the attempts whose task results lie in its results/
          log,         \* the attempt whose output goes to <job id>.log
          result,      \* Job.gate_verdict, Job.exit_code (and whose report it was)
          rows,        \* the attempts whose log and task results are stored
          notified,    \* how often on_finish was called for the job
          faults       \* faults so far

mainVars  == <<main, cands, trying, lock>>
workVars  == <<pc, job, att, outcome>>
fileVars  == <<dir, report, files, log>>
diskVars  == <<child, fileVars>>
dataVars  == <<result, rows, notified>>
vars == <<repoVars, mainVars, workVars, diskVars, dataVars, faults>>

\* PASSED stands for PASSED_WITH_WARNINGS too: without --warn-exit both exit 0.
Verdicts    == {"PASSED", "BLOCKED"}
Exits       == {"exit0", "exit1", "exit3"}
Outcomes    == Exits \cup {"none", "cancelled", "timeout", "lost", "error", "dropped"}
Running     == {"spawned", "working", "tested", "passing", "blocking"}
ChildStates == Exits \cup Running \cup {"none", "killed"}
Attempts    == 1..MaxAttempts
Reports     == [by : 0..MaxAttempts, verdict : Verdicts \cup {"none"}]
Results     == [by : 0..MaxAttempts, verdict : Verdicts \cup {"none"}, code : Exits \cup {"none"}]
Stored      == [log : 0..MaxAttempts, tasks : SUBSET Attempts]
NoReport    == [by |-> 0, verdict |-> "none"]
NoResult    == [by |-> 0, verdict |-> "none", code |-> "none"]
NoRows      == [log |-> 0, tasks |-> {}]

MainTypeOK ==
  /\ main \in [Executors -> {"poll", "scan", "claim", "drain", "down"}]
  /\ cands \in [Executors -> SUBSET Jobs]
  /\ trying \in [Executors -> Jobs \cup {NoJob}]
  /\ lock \in [Keys -> Executors \cup {Free}]

WorkTypeOK ==
  /\ pc \in [Executors -> Phases \cup {"free"}]
  /\ job \in [Executors -> Jobs \cup {NoJob}]
  /\ att \in [Executors -> 0..MaxAttempts]
  /\ outcome \in [Executors -> Outcomes]

DiskTypeOK ==
  /\ child \in [Jobs \X Attempts -> ChildStates]
  /\ dir \in [Jobs -> BOOLEAN]
  /\ report \in [Jobs -> Reports]
  /\ files \in [Jobs -> SUBSET Attempts]
  /\ log \in [Jobs -> 0..MaxAttempts]

DataTypeOK ==
  /\ result \in [Jobs -> Results]
  /\ rows \in [Jobs -> Stored]
  /\ notified \in [Jobs -> Nat]
  /\ faults \in 0..MaxFaults

TypeOK == RepoTypeOK /\ MainTypeOK /\ WorkTypeOK /\ DiskTypeOK /\ DataTypeOK

Init ==
  /\ RepoInit
  /\ main = [e \in Executors |-> "poll"]
  /\ cands = [e \in Executors |-> {}]
  /\ trying = [e \in Executors |-> NoJob]
  /\ lock = [k \in Keys |-> Free]
  /\ pc = [e \in Executors |-> "free"]
  /\ job = [e \in Executors |-> NoJob]
  /\ att = [e \in Executors |-> 0]
  /\ outcome = [e \in Executors |-> "none"]
  /\ child = [p \in Jobs \X Attempts |-> "none"]
  /\ dir = [j \in Jobs |-> FALSE]
  /\ report = [j \in Jobs |-> NoReport]
  /\ files = [j \in Jobs |-> {}]
  /\ log = [j \in Jobs |-> 0]
  /\ result = [j \in Jobs |-> NoResult]
  /\ rows = [j \in Jobs |-> NoRows]
  /\ notified = [j \in Jobs |-> 0]
  /\ faults = 0

\* A fault of this kind happens now.
Fault(kind) == kind \in Faults /\ faults < MaxFaults /\ faults' = faults + 1
-----------------------------------------------------------------------------
(* The main loop: serve, _claim, claim_next, reap.                          *)

Released(e) == [k \in Keys |-> IF lock[k] = e THEN Free ELSE lock[k]]

\* The unlocked SELECT of the best ScanLimit queued jobs.
Candidates ==
  {j \in Jobs : /\ status[j] = "queued"
                /\ Cardinality({i \in Jobs : status[i] = "queued" /\ Rank[i] < Rank[j]})
                     < ScanLimit}

\* _claim is called when the pool has room (an empty SELECT changes nothing).
StartScan(e) ==
  /\ main[e] = "poll" /\ reap[e] = "idle" /\ pc[e] = "free"
  /\ Candidates # {}
  /\ main'  = [main EXCEPT ![e] = "scan"]
  /\ cands' = [cands EXCEPT ![e] = Candidates]
  /\ UNCHANGED <<repoVars, trying, lock, workVars, diskVars, dataVars, faults>>

\* can_run of the next candidate: pg_try_advisory_lock on a connection of its
\* own.  Another session that holds the key, this executor's own included,
\* makes it fail, and the candidate is skipped.
CanRun(e) ==
  /\ main[e] = "scan"
  /\ \E j \in cands[e] :
       /\ \A i \in cands[e] : Rank[j] <= Rank[i]
       /\ cands' = [cands EXCEPT ![e] = @ \ {j}]
       /\ IF Key[j] = NoKey \/ lock[Key[j]] = Free
            THEN /\ main'   = [main EXCEPT ![e] = "claim"]
                 /\ trying' = [trying EXCEPT ![e] = j]
                 /\ lock'   = [k \in Keys |-> IF k = Key[j] THEN e ELSE lock[k]]
            ELSE UNCHANGED <<main, trying, lock>>
  /\ UNCHANGED <<repoVars, workVars, diskVars, dataVars, faults>>

\* Mutant: all locks are released, that of the claimed job too.
ClaimUnlocked(e) ==
  LET j == trying[e] IN
  /\ main[e] = "claim"
  /\ ClaimRow(j)
  /\ lock'   = Released(e)
  /\ main'   = [main EXCEPT ![e] = "poll"]
  /\ cands'  = [cands EXCEPT ![e] = {}]
  /\ trying' = [trying EXCEPT ![e] = NoJob]
  /\ pc'     = [pc EXCEPT ![e] = "start"]
  /\ job'    = [job EXCEPT ![e] = j]
  /\ att'    = [att EXCEPT ![e] = attempts'[j]]
  /\ UNCHANGED <<outcome, diskVars, dataVars, faults>>

\* The row is still queued: take it, and release the locks of the candidates
\* that were passed over.
Claim(e) ==
  LET j == trying[e] IN
  /\ main[e] = "claim"
  /\ ClaimRow(j)
  /\ lock'   = [k \in Keys |-> IF lock[k] = e /\ k # Key[j] THEN Free ELSE lock[k]]
  /\ main'   = [main EXCEPT ![e] = "poll"]
  /\ cands'  = [cands EXCEPT ![e] = {}]
  /\ trying' = [trying EXCEPT ![e] = NoJob]
  /\ pc'     = [pc EXCEPT ![e] = "start"]
  /\ job'    = [job EXCEPT ![e] = j]
  /\ att'    = [att EXCEPT ![e] = attempts'[j]]
  /\ UNCHANGED <<outcome, diskVars, dataVars, faults>>

\* It no longer is: try the next one, holding on to the lock for now.
PassOver(e) ==
  /\ main[e] = "claim" /\ status[trying[e]] # "queued"
  /\ main'   = [main EXCEPT ![e] = "scan"]
  /\ trying' = [trying EXCEPT ![e] = NoJob]
  /\ UNCHANGED <<repoVars, cands, lock, workVars, diskVars, dataVars, faults>>

\* Mutant: the locks of the candidates that were passed over are kept.
EndScanKeepsLocks(e) ==
  /\ main[e] = "scan" /\ cands[e] = {}
  /\ main' = [main EXCEPT ![e] = "poll"]
  /\ UNCHANGED <<repoVars, cands, trying, lock, workVars, diskVars, dataVars, faults>>

\* No candidate was taken: _claim releases every lock it tried.
EndScan(e) ==
  /\ main[e] = "scan" /\ cands[e] = {}
  /\ main' = [main EXCEPT ![e] = "poll"]
  /\ lock' = Released(e)
  /\ UNCHANGED <<repoVars, cands, trying, workVars, diskVars, dataVars, faults>>

\* The database fails under _claim: the locks are released, the exception
\* leaves serve, which waits for the pool.
ScanFails(e) ==
  /\ main[e] \in {"scan", "claim"} /\ Fault("db")
  /\ main'   = [main EXCEPT ![e] = "drain"]
  /\ cands'  = [cands EXCEPT ![e] = {}]
  /\ trying' = [trying EXCEPT ![e] = NoJob]
  /\ lock'   = Released(e)
  /\ UNCHANGED <<repoVars, workVars, diskVars, dataVars>>

\* The main loop reaps between two claims, whatever the worker is doing.
Reap(e) ==
  /\ main[e] = "poll"
  /\ ReapCancelled(e) \/ ReapFailed(e) \/ ReapRequeued(e)
  /\ UNCHANGED <<mainVars, workVars, diskVars, dataVars, faults>>

\* The database fails under reap (its transaction is rolled back), or SIGTERM
\* sets the stop event: serve takes no more jobs.
LeaveServe(e) ==
  /\ main[e] = "poll" /\ reap[e] = "idle"
  /\ Fault("db") \/ Fault("stop")
  /\ main' = [main EXCEPT ![e] = "drain"]
  /\ UNCHANGED <<repoVars, cands, trying, lock, workVars, diskVars, dataVars>>

\* pool.shutdown(wait=True) has returned.
Exit(e) ==
  /\ main[e] = "drain" /\ pc[e] = "free"
  /\ main' = [main EXCEPT ![e] = "down"]
  /\ UNCHANGED <<repoVars, cands, trying, lock, workVars, diskVars, dataVars, faults>>

Restart(e) ==
  /\ main[e] = "down"
  /\ main' = [main EXCEPT ![e] = "poll"]
  /\ UNCHANGED <<repoVars, cands, trying, lock, workVars, diskVars, dataVars, faults>>
-----------------------------------------------------------------------------
(* The worker thread: _run_job_logged, _supervise, _finalize, _end.         *)

At(e, phase) == pc[e] = phase
Goto(e, phase) == pc' = [pc EXCEPT ![e] = phase]
Becomes(e, kind) == outcome' = [outcome EXCEPT ![e] = kind]
Mine(e) == <<job[e], att[e]>>

\* Mutant: the directory is left where it is.
ArchiveNothing(j) == UNCHANGED <<dir, report, files>>

\* _archive_previous_attempt: what an earlier attempt left under this run id
\* is renamed away; the CLI would refuse a run id that exists.
Archive(j) == /\ dir'    = [dir EXCEPT ![j] = FALSE]
              /\ report' = [report EXCEPT ![j] = NoReport]
              /\ files'  = [files EXCEPT ![j] = {}]

\* A log of its own is opened before the child is started.
OpenLog(e) == log' = [log EXCEPT ![job[e]] = att[e]]

Start(e) ==
  /\ At(e, "start")
  /\ Archive(job[e]) /\ OpenLog(e)
  /\ child' = [child EXCEPT ![Mine(e)] = "spawned"]
  /\ Goto(e, "watch")
  /\ UNCHANGED <<repoVars, mainVars, job, att, outcome, dataVars, faults>>

\* The project's configuration cannot be resolved, or Popen fails.
StartFails(e) ==
  /\ At(e, "start") /\ Fault("spawn")
  /\ Archive(job[e]) /\ OpenLog(e)
  /\ Goto(e, "abort") /\ Becomes(e, "error")
  /\ UNCHANGED <<repoVars, mainVars, job, att, child, dataVars>>

\* proc.wait returns.
ChildExited(e) ==
  /\ At(e, "watch") /\ child[Mine(e)] \in Exits
  /\ Goto(e, "store") /\ Becomes(e, child[Mine(e)])
  /\ UNCHANGED <<repoVars, mainVars, job, att, diskVars, dataVars, faults>>

\* A heartbeat: it finds the job not running any more, or reads the request
\* to cancel.  It does not look at whose attempt is running.
Heartbeat(e) ==
  /\ At(e, "watch")
  /\ \/ /\ status[job[e]] # "running"
        /\ Goto(e, "stop") /\ Becomes(e, "lost")
        /\ UNCHANGED repoVars
     \/ /\ BeatRow(job[e]) /\ cancelReq[job[e]]
        /\ Goto(e, "stop") /\ Becomes(e, "cancelled")
     \/ /\ BeatRow(job[e]) /\ ~cancelReq[job[e]]
        /\ UNCHANGED <<pc, outcome>>
  /\ UNCHANGED <<mainVars, job, att, diskVars, dataVars, faults>>

\* The database fails under the heartbeat: the exception leaves _supervise
\* and the child runs on.
HeartbeatFails(e) ==
  /\ At(e, "watch") /\ Fault("db")
  /\ Goto(e, "abort") /\ Becomes(e, "error")
  /\ UNCHANGED <<repoVars, mainVars, job, att, diskVars, dataVars>>

Deadline(e) ==
  /\ At(e, "watch")
  /\ Goto(e, "stop") /\ Becomes(e, "timeout")
  /\ UNCHANGED <<repoVars, mainVars, job, att, diskVars, dataVars, faults>>

\* Mutant: the child is left alone.
StopNothing(e) ==
  /\ At(e, "stop")
  /\ Goto(e, IF outcome[e] = "lost" THEN "close" ELSE "store")
  /\ UNCHANGED <<repoVars, mainVars, job, att, outcome, diskVars, dataVars, faults>>

\* _stop: SIGTERM, the grace period, then kill_tree.
Stop(e) ==
  /\ At(e, "stop")
  /\ child' = [child EXCEPT ![Mine(e)] = IF @ \in Exits THEN @ ELSE "killed"]
  /\ Goto(e, IF outcome[e] = "lost" THEN "close" ELSE "store")
  /\ UNCHANGED <<repoVars, mainVars, job, att, outcome, fileVars, dataVars, faults>>

\* Mutant: rows that an earlier owner stored are kept.
StoreOnce(e) ==
  LET j == job[e] IN
  /\ At(e, "store")
  /\ rows' = [rows EXCEPT ![j] = IF @ = NoRows THEN [log |-> log[j], tasks |-> files[j]] ELSE @]
  /\ Goto(e, "end")
  /\ UNCHANGED <<repoVars, mainVars, job, att, outcome, diskVars, result, notified, faults>>

\* _store_results replaces the rows of the job by what lies in its directory
\* and its log at this moment, whichever attempt wrote it.
Store(e) ==
  LET j == job[e] IN
  /\ At(e, "store")
  /\ rows' = [rows EXCEPT ![j] = [log |-> log[j], tasks |-> files[j]]]
  /\ Goto(e, "end")
  /\ UNCHANGED <<repoVars, mainVars, job, att, outcome, diskVars, result, notified, faults>>

StoreFails(e) ==
  /\ At(e, "store") /\ Fault("db")
  /\ Goto(e, "abort") /\ Becomes(e, "error")
  /\ UNCHANGED <<repoVars, mainVars, job, att, diskVars, dataVars>>

\* _end: InvalidTransition is swallowed, the job keeps what others wrote.
EndJob(j, to, res) ==
  IF to \in Targets(status[j])
    THEN Transition(j, to) /\ result' = [result EXCEPT ![j] = res]
    ELSE UNCHANGED <<repoVars, result>>

\* Mutant: a report counts whatever became of its process.
EndByReport(e) ==
  LET j   == job[e]
      rep == report[j]
  IN
  /\ At(e, "end")
  /\ IF rep.verdict \in Verdicts
       THEN EndJob(j, IF rep.verdict = "BLOCKED" THEN "failed" ELSE "succeeded",
                   [by |-> rep.by, verdict |-> rep.verdict, code |-> outcome[e]])
       ELSE EndJob(j, "failed", [result[j] EXCEPT !.code = outcome[e]])
  /\ Goto(e, "close")
  /\ UNCHANGED <<mainVars, job, att, outcome, diskVars, rows, notified, faults>>

\* The rest of _finalize: the verdict is read from report.json, and counts
\* only with exit code 0 or 1.
End(e) ==
  LET j      == job[e]
      rep    == report[j]
      code   == outcome[e]
      judged == code \in {"exit0", "exit1"} /\ rep.verdict \in Verdicts
  IN
  /\ At(e, "end")
  /\ \/ code = "cancelled" /\ EndJob(j, "cancelled", result[j])
     \/ code = "timeout"   /\ EndJob(j, "timed_out", result[j])
     \/ judged /\ EndJob(j, IF rep.verdict = "BLOCKED" THEN "failed" ELSE "succeeded",
                         [by |-> rep.by, verdict |-> rep.verdict, code |-> code])
     \/ /\ code \in Exits /\ ~judged
        /\ EndJob(j, "failed", [result[j] EXCEPT !.code = code])
  /\ Goto(e, "close")
  /\ UNCHANGED <<mainVars, job, att, outcome, diskVars, rows, notified, faults>>

EndFails(e) ==
  /\ At(e, "end") /\ Fault("db")
  /\ Goto(e, "abort") /\ Becomes(e, "error")
  /\ UNCHANGED <<repoVars, mainVars, job, att, diskVars, dataVars>>

\* The handler of _run_job_logged: failed("executor error").
Abort(e) ==
  /\ At(e, "abort")
  /\ EndJob(job[e], "failed", result[job[e]])
  /\ Goto(e, "close")
  /\ UNCHANGED <<mainVars, job, att, outcome, diskVars, rows, notified, faults>>

\* It fails as well: the exception leaves the thread and the job is left
\* running, to be found stale.
AbortFails(e) ==
  /\ At(e, "abort") /\ Fault("db")
  /\ Goto(e, "close") /\ Becomes(e, "dropped")
  /\ UNCHANGED <<repoVars, mainVars, job, att, diskVars, dataVars>>

Idle(e) == /\ pc'      = [pc EXCEPT ![e] = "free"]
           /\ job'     = [job EXCEPT ![e] = NoJob]
           /\ att'     = [att EXCEPT ![e] = 0]
           /\ outcome' = [outcome EXCEPT ![e] = "none"]

\* Mutant: not in a finally, so skipped when the thread ends by an exception.
CloseUnlessRaised(e) ==
  /\ At(e, "close")
  /\ IF outcome[e] = "dropped"
       THEN Idle(e) /\ UNCHANGED lock
       ELSE /\ lock' = [k \in Keys |-> IF k = Key[job[e]] /\ lock[k] = e THEN Free ELSE lock[k]]
            /\ Goto(e, "notify") /\ UNCHANGED <<job, att, outcome>>
  /\ UNCHANGED <<repoVars, main, cands, trying, diskVars, dataVars, faults>>

\* finally: the session that holds the lock of the job's key is closed.
Close(e) ==
  /\ At(e, "close")
  /\ lock' = [k \in Keys |-> IF k = Key[job[e]] /\ lock[k] = e THEN Free ELSE lock[k]]
  /\ IF outcome[e] = "dropped" THEN Idle(e)
                               ELSE Goto(e, "notify") /\ UNCHANGED <<job, att, outcome>>
  /\ UNCHANGED <<repoVars, main, cands, trying, diskVars, dataVars, faults>>

\* _notify_finished: on_finish is called if the job, read again, has ended.
Notify(e) ==
  /\ At(e, "notify")
  /\ notified' = [notified EXCEPT ![job[e]] = IF status[job[e]] \in Terminal THEN @ + 1
                                              ELSE @]
  /\ Idle(e)
  /\ UNCHANGED <<repoVars, mainVars, diskVars, result, rows, faults>>
-----------------------------------------------------------------------------
(* The child: the CLI process of attempt a of job j.                        *)

\* _reserve_run_dir: mkdir, or PlanError (exit 3) if the run id exists.  A plan
\* error between mkdir and the first worker removes the directory again.
ChildReserve(j, a) ==
  /\ child[<<j, a>>] = "spawned"
  /\ \/ /\ ~dir[j]
        /\ child' = [child EXCEPT ![<<j, a>>] = "working"]
        /\ dir'   = [dir EXCEPT ![j] = TRUE]
     \/ /\ child' = [child EXCEPT ![<<j, a>>] = "exit3"]
        /\ UNCHANGED dir
  /\ UNCHANGED <<repoVars, mainVars, workVars, report, files, log, dataVars, faults>>

\* A spec, or the result of a task.  Both are written with mkdir(parents=True):
\* a directory that was renamed away is made again.
ChildWrites(j, a) ==
  /\ child[<<j, a>>] \in {"working", "tested"}
  /\ dir' = [dir EXCEPT ![j] = TRUE]
  /\ \/ UNCHANGED <<child, files>>
     \/ /\ child' = [child EXCEPT ![<<j, a>>] = "tested"]
        /\ files' = [files EXCEPT ![j] = @ \cup {a}]
  /\ UNCHANGED <<repoVars, mainVars, workVars, report, log, dataVars, faults>>

\* report.write, at the end of the run: no plan is empty, so there are results.
ChildReports(j, a) ==
  /\ child[<<j, a>>] = "tested"
  /\ \E v \in Verdicts :
       /\ report' = [report EXCEPT ![j] = [by |-> a, verdict |-> v]]
       /\ child'  = [child EXCEPT ![<<j, a>>] = IF v = "BLOCKED" THEN "blocking" ELSE "passing"]
  /\ dir' = [dir EXCEPT ![j] = TRUE]
  /\ UNCHANGED <<repoVars, mainVars, workVars, files, log, dataVars, faults>>

\* The process exits with the code of its own gate; an error in the middle of
\* the run exits with 3 and leaves no report.
ChildExits(j, a) ==
  /\ \/ /\ child[<<j, a>>] = "passing"
        /\ child' = [child EXCEPT ![<<j, a>>] = "exit0"]
     \/ /\ child[<<j, a>>] = "blocking"
        /\ child' = [child EXCEPT ![<<j, a>>] = "exit1"]
     \/ /\ child[<<j, a>>] \in {"working", "tested"}
        /\ child' = [child EXCEPT ![<<j, a>>] = "exit3"]
  /\ UNCHANGED <<repoVars, mainVars, workVars, fileVars, dataVars, faults>>
-----------------------------------------------------------------------------
(* Everything else: time, faults, and the users of the API.                 *)

\* The executor dies, its sessions close.  (A crash inside requeue_stale rolls
\* it back, as if the executor had died before.)  The child is in a session of
\* its own: it outlives the executor unless the whole host goes down.
Crash(e) ==
  /\ main[e] # "down" /\ reap[e] = "idle"
  /\ \/ Fault("orphan") /\ UNCHANGED child
     \/ /\ Fault("crash")
        /\ child' = [p \in Jobs \X Attempts |->
                       IF p = Mine(e) /\ child[p] \in Running THEN "killed" ELSE child[p]]
  /\ main'   = [main EXCEPT ![e] = "down"]
  /\ cands'  = [cands EXCEPT ![e] = {}]
  /\ trying' = [trying EXCEPT ![e] = NoJob]
  /\ lock'   = Released(e)
  /\ Idle(e)
  /\ UNCHANGED <<repoVars, fileVars, dataVars>>

\* The database drops the session that holds a lock; its owner does not notice.
LockLost(k) ==
  /\ lock[k] # Free /\ Fault("lock")
  /\ lock' = [lock EXCEPT ![k] = Free]
  /\ UNCHANGED <<repoVars, main, cands, trying, workVars, diskVars, dataVars>>

\* A heartbeat grows old because its owner is gone, or, "late", because the
\* owner is held up for stale_after_s: a pause of its host, a slow database, or
\* _stop and the hashing of the artifacts, during which nobody beats.
GrowStale(j) ==
  /\ Age(j)
  /\ IF \E e \in Executors : Mine(e) = <<j, attempts[j]>>
       THEN Fault("late") ELSE UNCHANGED faults
  /\ UNCHANGED <<mainVars, workVars, diskVars, dataVars>>

RequestCancel(j) == /\ j \in Cancellable
                    /\ CancelQueued(j) \/ CancelRunning(j)
                    /\ UNCHANGED <<mainVars, workVars, diskVars, dataVars, faults>>

\* All jobs have ended and every loop polls an empty queue.
Quiescent == /\ \A j \in Jobs : status[j] \in Terminal
             /\ \A e \in Executors : main[e] = "poll" /\ pc[e] = "free"
             /\ UNCHANGED vars
-----------------------------------------------------------------------------
MainLoop(e) == \/ StartScan(e) \/ CanRun(e) \/ Claim(e) \/ PassOver(e) \/ EndScan(e)
               \/ Reap(e) \/ Exit(e)

Worker(e) == \/ Start(e) \/ ChildExited(e) \/ Heartbeat(e) \/ Deadline(e) \/ Stop(e)
             \/ Store(e) \/ End(e) \/ Abort(e) \/ Close(e) \/ Notify(e)

Failure(e) == \/ ScanFails(e) \/ LeaveServe(e) \/ StartFails(e) \/ HeartbeatFails(e)
              \/ StoreFails(e) \/ EndFails(e) \/ AbortFails(e) \/ Crash(e) \/ Restart(e)

Child(j, a) == \/ ChildReserve(j, a) \/ ChildWrites(j, a) \/ ChildReports(j, a)
               \/ ChildExits(j, a)

Next == \/ \E e \in Executors : MainLoop(e) \/ Worker(e) \/ Failure(e)
        \/ \E j \in Jobs : GrowStale(j) \/ RequestCancel(j) \/ \E a \in Attempts : Child(j, a)
        \/ \E k \in Keys : LockLost(k)
        \/ Quiescent

Spec == Init /\ [][Next]_vars

\* The threads of a live executor are scheduled.  serve is one sequential loop
\* that reaps every stale_after_s / 2 and claims whenever the pool has room, so
\* neither is put off for ever by the other.  A worker that watches a child
\* leaves the loop in the end, by the exit of the child or by the deadline;
\* heartbeats alone are no progress.  A heartbeat nobody renews grows old.
\* Nothing is assumed of the child, of users, or of anyone who would restart
\* an executor: the repository configures no restart policy.
Fairness ==
  /\ \A e \in Executors :
       /\ WF_vars(MainLoop(e))
       /\ SF_vars(Reap(e)) /\ SF_vars(StartScan(e))
       /\ WF_vars(Worker(e) /\ pc'[e] # pc[e])
  /\ \A j \in Jobs : WF_vars(GrowStale(j))

LiveSpec == Spec /\ Fairness
-----------------------------------------------------------------------------
(* Safety.                                                                  *)

Owning(e)  == pc[e] \in Phases \ {"notify"}       \* between claim and lock.close
Writing(e) == pc[e] \in {"start", "watch", "stop", "store", "end", "abort"}
              /\ outcome[e] # "lost"              \* may still write to the job

\* The lock of a job's key is held for as long as an executor owns the job,
\* unless the database drops a session.
LockHeld == "lock" \notin Faults =>
              \A e \in Executors :
                Owning(e) /\ Key[job[e]] # NoKey => lock[Key[job[e]]] = e

\* Two executors never own jobs of one key at a time, so a job with a key has
\* one owner even when its heartbeat is late and it was requeued.
KeyExclusive == "lock" \notin Faults =>
                  \A e, f \in Executors :
                    Owning(e) /\ Owning(f) /\ e # f /\ Key[job[e]] # NoKey
                      => Key[job[e]] # Key[job[f]]

\* No lock outlives its purpose: a held key is the key of the job its holder
\* owns, or its holder is choosing a job.
NoLeakedLock == \A k \in Keys : LET e == lock[k] IN
                  e # Free => \/ Owning(e) /\ Key[job[e]] = k
                              \/ main[e] \in {"scan", "claim"}

\* Unless its heartbeat is late, the owner of an attempt is the only one and
\* the row says so: what it goes on to write is about the attempt that runs.
OwnerIsCurrent == "late" \notin Faults =>
                    \A e \in Executors :
                      Writing(e) => status[job[e]] = "running" /\ attempts[job[e]] = att[e]

\* What is recorded agrees: succeeded is PASSED and exit 0, BLOCKED is failed
\* and exit 1, and the report was written by the attempt that is recorded.
ResultAgrees ==
  \A j \in Jobs : LET r == result[j] IN
    /\ status[j] = "succeeded" => r.verdict = "PASSED"
    /\ r.verdict = "PASSED" => status[j] = "succeeded" /\ r.code = "exit0"
    /\ r.verdict = "BLOCKED" => status[j] = "failed" /\ r.code = "exit1"
    /\ r.verdict # "none" => r.by = attempts[j]

\* "terminal => the data is there": a job that its owner ended with an outcome
\* of the child has the log and the task results of that very attempt, and of
\* no other; a verdict comes with the results it was drawn from.
DataBeforeEnd ==
  \A j \in Jobs :
    /\ status[j] = "timed_out" \/ result[j].code # "none" =>
         rows[j].log = attempts[j] /\ rows[j].tasks \subseteq {attempts[j]}
    /\ result[j].verdict # "none" => rows[j].tasks = {attempts[j]}

\* What a user reads of a job that has ended never changes under him.
EndedIsFrozen ==
  [][\A j \in Jobs : status[j] \in Terminal =>
        status'[j] = status[j] /\ rows'[j] = rows[j] /\ result'[j] = result[j]]_vars

\* One message per job, not one per attempt.
NotifiedOnce == \A j \in Jobs : notified[j] <= 1

\* At most one CLI process of a key is alive.
Alive(j, a) == child[<<j, a>>] \in Running
OneRunPerKey ==
  \A i, j \in Jobs : \A a, b \in Attempts :
    Key[i] # NoKey /\ Key[i] = Key[j] /\ Alive(i, a) /\ Alive(j, b) => i = j /\ a = b

\* _archive_previous_attempt keeps the CLI from refusing a run id that exists.
RunIdFree == \A j \in Jobs, a \in Attempts : child[<<j, a>>] = "spawned" => ~dir[j]

\* "No longer running (requeued or ended by another): stop, do not overwrite":
\* an executor whose attempt is not the last one leaves the job as it is.
LateOwnerKeepsOff ==
  [][\A e \in Executors :
       Owning(e) /\ pc'[e] # pc[e] /\ att[e] # attempts[job[e]] =>
         status'[job[e]] = status[job[e]] /\ result'[job[e]] = result[job[e]]]_vars
-----------------------------------------------------------------------------
(* Liveness, of LiveSpec.                                                   *)

\* No job is left queued or running for ever, whatever fails on its way, as
\* long as one executor goes on.
EveryJobEnds == \A j \in Jobs : <>(status[j] \in Terminal)

\* No environment stays locked: the next job of the key can always get it.
LocksReleased == \A k \in Keys : []<>(lock[k] = Free)
=============================================================================
