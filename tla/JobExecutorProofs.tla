------------------------- MODULE JobExecutorProofs --------------------------
(* Proofs about JobExecutor, for any jobs, executors, keys, faults and      *)
(* bounds.  An executor only ever runs the statements of JobRepository, so  *)
(* what is proved of the table holds of the executors; then the types; then *)
(* what the advisory locks and the heartbeats protect.                      *)
EXTENDS JobExecutor, JobRepositoryProofs

\* Where an executor is says what it has: a candidate while it tries one, no
\* job while it scans, a job and its attempt while the worker runs, an outcome
\* of the child once the watch is over.
Phased ==
  \A e \in Executors :
    /\ main[e] = "claim" => trying[e] \in Jobs
    /\ main[e] \in {"scan", "claim"} => pc[e] = "free"
    /\ pc[e] # "free" => job[e] \in Jobs /\ att[e] \in Attempts
    /\ pc[e] \in {"store", "end"} => outcome[e] \in Exits \cup {"cancelled", "timeout"}
    /\ pc[e] = "stop" => outcome[e] \in {"cancelled", "timeout", "lost"}
    /\ pc[e] \in {"free", "start", "watch"} => outcome[e] = "none"
    /\ pc[e] = "abort" => outcome[e] = "error"

ExecInv == RepoInv /\ MainTypeOK /\ WorkTypeOK /\ DiskTypeOK /\ DataTypeOK /\ Phased

\* The empty report, result and rows have their types.
LEMMA RecordTypes == NoReport \in Reports /\ NoResult \in Results /\ NoRows \in Stored
BY MaxAttemptsAssumption
   DEF NoReport, Reports, NoResult, Results, NoRows, Stored, Verdicts, Exits

\* The executors start with the invariant in place.
LEMMA InitInv == Init => ExecInv
<1>1. MaxAttempts \in Nat \ {0} /\ MaxFaults \in Nat /\ NoJob \notin Jobs
  BY MaxAttemptsAssumption, ExecutorAssumption
<1> QED
  BY <1>1, RepoInitInv, RecordTypes
  DEF Init, ExecInv, MainTypeOK, WorkTypeOK, DiskTypeOK, DataTypeOK, Phased, Phases,
      Outcomes, ChildStates

-----------------------------------------------------------------------------
(* Every step of an executor is a statement of JobRepository, or none.      *)

\* _end writes a terminal status where models.py allows it, or nothing.
LEMMA EndJobStep ==
  ASSUME NEW j \in Jobs, NEW to \in Terminal, NEW res, EndJob(j, to, res)
  PROVE  [RepoNext]_repoVars
BY DEF EndJob, RepoNext, RowNext

\* Every step of the executors is a statement of the repository, or leaves its rows alone.
LEMMA RepoStep ==
  ASSUME Phased, [Next]_vars
  PROVE  [RepoNext]_repoVars
<1> USE DEF Phased
<1>1. ASSUME NEW e \in Executors, Claim(e) PROVE [RepoNext]_repoVars
  BY <1>1 DEF Claim, RepoNext, RowNext
<1>2. ASSUME NEW e \in Executors, Reap(e) PROVE [RepoNext]_repoVars
  BY <1>2 DEF Reap, RepoNext, ReapNext
<1>3. ASSUME NEW e \in Executors, Heartbeat(e) PROVE [RepoNext]_repoVars
  <2>1. job[e] \in Jobs
    BY <1>3 DEF Heartbeat, At
  <2> QED BY <1>3, <2>1 DEF Heartbeat, RepoNext, RowNext
<1>4. ASSUME NEW e \in Executors, End(e) PROVE [RepoNext]_repoVars
  <2>1. job[e] \in Jobs
    BY <1>4 DEF End, At
  <2>2. PICK to \in Terminal : \E res : EndJob(job[e], to, res)
    BY <1>4 DEF End, Terminal
  <2> QED BY <2>1, <2>2, EndJobStep
<1>5. ASSUME NEW e \in Executors, Abort(e) PROVE [RepoNext]_repoVars
  <2>1. job[e] \in Jobs /\ "failed" \in Terminal
    BY <1>5 DEF Abort, At, Terminal
  <2> QED BY <1>5, <2>1, EndJobStep DEF Abort
<1>6. ASSUME NEW j \in Jobs, GrowStale(j) PROVE [RepoNext]_repoVars
  BY <1>6 DEF GrowStale, RepoNext, RowNext
<1>7. ASSUME NEW j \in Jobs, RequestCancel(j) PROVE [RepoNext]_repoVars
  BY <1>7 DEF RequestCancel, RepoNext, RowNext
<1>8. ASSUME UNCHANGED repoVars PROVE [RepoNext]_repoVars
  BY <1>8
<1>9. ASSUME NEW e \in Executors, MainLoop(e) PROVE [RepoNext]_repoVars
  BY <1>1, <1>2, <1>8, <1>9 DEF MainLoop, StartScan, CanRun, PassOver, EndScan, Exit
<1>10. ASSUME NEW e \in Executors, Worker(e) PROVE [RepoNext]_repoVars
  BY <1>3, <1>4, <1>5, <1>8, <1>10
     DEF Worker, Start, ChildExited, Deadline, Stop, Store, Close, Notify
<1>11. ASSUME NEW e \in Executors, Failure(e) PROVE [RepoNext]_repoVars
  BY <1>8, <1>11 DEF Failure, ScanFails, LeaveServe, StartFails, HeartbeatFails, StoreFails,
                     EndFails, AbortFails, Crash, Restart
<1>12. ASSUME NEW j \in Jobs, NEW a \in Attempts, Child(j, a) PROVE [RepoNext]_repoVars
  BY <1>8, <1>12 DEF Child, ChildReserve, ChildWrites, ChildReports, ChildExits
<1>13. ASSUME NEW k \in Keys, LockLost(k) PROVE [RepoNext]_repoVars
  BY <1>8, <1>13 DEF LockLost
<1>14. ASSUME UNCHANGED vars PROVE [RepoNext]_repoVars
  BY <1>8, <1>14 DEF vars
<1> QED BY <1>6, <1>7, <1>9, <1>10, <1>11, <1>12, <1>13, <1>14 DEF Next, Quiescent
-----------------------------------------------------------------------------
(* Types.                                                                   *)

\* An attempt that is handed out is one of the MaxAttempts.
LEMMA ClaimCounts ==
  ASSUME RepoInv, NEW j \in Jobs, ClaimRow(j)
  PROVE  attempts'[j] \in Attempts
BY MaxAttemptsAssumption
   DEF RepoInv, RepoTypeOK, WaitingHasAttempt, ClaimRow, Attempts

\* The main loop takes one candidate at a time, only while the pool is idle,
\* and the phases of the worker follow its outcome.
LEMMA PhasedStep == ASSUME ExecInv, [Next]_vars PROVE Phased'
<1> USE DEF ExecInv, MainTypeOK, WorkTypeOK, Phased, At, Goto, Becomes, Mine
<1>1. ASSUME NEW e \in Executors, MainLoop(e) PROVE Phased'
  <2>1. ASSUME StartScan(e) PROVE Phased'
    BY <2>1 DEF StartScan, workVars
  <2>2. ASSUME CanRun(e) PROVE Phased'
    BY <2>2 DEF CanRun, workVars
  <2>3. ASSUME Claim(e) PROVE Phased'
    <3>1. trying[e] \in Jobs /\ attempts'[trying[e]] \in Attempts
      BY <2>3, ClaimCounts DEF Claim
    <3> QED BY <2>3, <3>1 DEF Claim
  <2>4. ASSUME PassOver(e) PROVE Phased'
    BY <2>4 DEF PassOver, workVars
  <2>5. ASSUME EndScan(e) \/ Exit(e) PROVE Phased'
    BY <2>5 DEF EndScan, Exit, workVars
  <2>6. ASSUME Reap(e) PROVE Phased'
    BY <2>6 DEF Reap, mainVars, workVars
  <2> QED BY <1>1, <2>1, <2>2, <2>3, <2>4, <2>5, <2>6 DEF MainLoop
<1>2. ASSUME NEW e \in Executors, Worker(e) PROVE Phased'
  <2> USE DEF mainVars, workVars
  <2>1. ASSUME Start(e) \/ Heartbeat(e) \/ Deadline(e) PROVE Phased'
    BY <2>1 DEF Start, Heartbeat, Deadline
  <2>2. ASSUME ChildExited(e) PROVE Phased'
    BY <2>2 DEF ChildExited
  <2>3. ASSUME Stop(e) PROVE Phased'
    BY <2>3 DEF Stop
  <2>4. ASSUME Store(e) \/ End(e) \/ Abort(e) PROVE Phased'
    BY <2>4 DEF Store, End, Abort
  <2>5. ASSUME Close(e) \/ Notify(e) PROVE Phased'
    BY <2>5 DEF Close, Notify, Idle
  <2> QED BY <1>2, <2>1, <2>2, <2>3, <2>4, <2>5 DEF Worker
<1>3. ASSUME NEW e \in Executors, Failure(e) PROVE Phased'
  <2> USE DEF mainVars, workVars
  <2>1. ASSUME ScanFails(e) \/ LeaveServe(e) \/ Restart(e) PROVE Phased'
    BY <2>1 DEF ScanFails, LeaveServe, Restart
  <2>2. ASSUME StartFails(e) \/ HeartbeatFails(e) \/ StoreFails(e) \/ EndFails(e) PROVE Phased'
    BY <2>2 DEF StartFails, HeartbeatFails, StoreFails, EndFails
  <2>3. ASSUME AbortFails(e) PROVE Phased'
    BY <2>3 DEF AbortFails
  <2>4. ASSUME Crash(e) PROVE Phased'
    BY <2>4 DEF Crash, Idle
  <2> QED BY <1>3, <2>1, <2>2, <2>3, <2>4 DEF Failure
<1>4. ASSUME UNCHANGED <<main, trying, workVars>> PROVE Phased'
  BY <1>4 DEF workVars
<1> QED BY <1>1, <1>2, <1>3, <1>4
        DEF Next, GrowStale, RequestCancel, Child, ChildReserve, ChildWrites, ChildReports,
            ChildExits, LockLost, Quiescent, vars, mainVars

\* No step breaks the types of the main loops and of the locks.
LEMMA MainTypesStep == ASSUME ExecInv, [Next]_vars PROVE MainTypeOK'
<1> USE DEF ExecInv, MainTypeOK, Phased
<1>1. ASSUME NEW e \in Executors, MainLoop(e) PROVE MainTypeOK'
  <2>1. ASSUME StartScan(e) PROVE MainTypeOK'
    BY <2>1 DEF StartScan, Candidates
  <2>2. ASSUME CanRun(e) PROVE MainTypeOK'
    BY <2>2 DEF CanRun
  <2>3. ASSUME Claim(e) PROVE MainTypeOK'
    BY <2>3 DEF Claim
  <2>4. ASSUME PassOver(e) \/ EndScan(e) \/ Exit(e) \/ Reap(e) PROVE MainTypeOK'
    BY <2>4 DEF PassOver, EndScan, Exit, Reap, Released, mainVars
  <2> QED BY <1>1, <2>1, <2>2, <2>3, <2>4 DEF MainLoop
<1>2. ASSUME NEW e \in Executors, Close(e) PROVE MainTypeOK'
  BY <1>2 DEF Close
<1>3. ASSUME NEW e \in Executors, Failure(e) PROVE MainTypeOK'
  BY <1>3 DEF Failure, ScanFails, LeaveServe, StartFails, HeartbeatFails, StoreFails,
              EndFails, AbortFails, Crash, Restart, Released, mainVars
<1>4. ASSUME NEW k \in Keys, LockLost(k) PROVE MainTypeOK'
  BY <1>4 DEF LockLost
<1>5. ASSUME UNCHANGED mainVars PROVE MainTypeOK'
  BY <1>5 DEF mainVars
<1>6. ASSUME NEW e \in Executors, Worker(e) PROVE MainTypeOK'
  BY <1>2, <1>5, <1>6 DEF Worker, Start, ChildExited, Heartbeat, Deadline, Stop, Store, End,
                          Abort, Notify
<1> QED BY <1>1, <1>3, <1>4, <1>5, <1>6
        DEF Next, GrowStale, RequestCancel, Child, ChildReserve, ChildWrites, ChildReports,
            ChildExits, Quiescent, vars

\* Nor those of the worker threads.
LEMMA WorkTypesStep == ASSUME ExecInv, [Next]_vars PROVE WorkTypeOK'
<1> USE MaxAttemptsAssumption DEF ExecInv, WorkTypeOK, Phases, Goto, Becomes
<1>1. ASSUME NEW e \in Executors, Claim(e) PROVE WorkTypeOK'
  <2>1. trying[e] \in Jobs /\ attempts'[trying[e]] \in Attempts
    BY <1>1, ClaimCounts DEF Claim, Phased
  <2> QED BY <1>1, <2>1 DEF Claim, Attempts
<1>2. ASSUME NEW e \in Executors, Worker(e) PROVE WorkTypeOK'
  <2> USE DEF workVars, Outcomes
  <2>1. ASSUME Start(e) \/ Heartbeat(e) \/ Deadline(e) \/ Stop(e) PROVE WorkTypeOK'
    BY <2>1 DEF Start, Heartbeat, Deadline, Stop
  <2>2. ASSUME ChildExited(e) PROVE WorkTypeOK'
    BY <2>2 DEF ChildExited
  <2>3. ASSUME Store(e) \/ End(e) \/ Abort(e) PROVE WorkTypeOK'
    BY <2>3 DEF Store, End, Abort
  <2>4. ASSUME Close(e) \/ Notify(e) PROVE WorkTypeOK'
    BY <2>4 DEF Close, Notify, Idle
  <2> QED BY <1>2, <2>1, <2>2, <2>3, <2>4 DEF Worker
<1>3. ASSUME NEW e \in Executors, Failure(e) PROVE WorkTypeOK'
  BY <1>3 DEF Failure, ScanFails, LeaveServe, StartFails, HeartbeatFails, StoreFails,
              EndFails, AbortFails, Crash, Restart, Idle, workVars, Outcomes
<1>4. ASSUME UNCHANGED workVars PROVE WorkTypeOK'
  BY <1>4 DEF workVars
<1>5. ASSUME NEW e \in Executors, MainLoop(e) PROVE WorkTypeOK'
  BY <1>1, <1>4, <1>5 DEF MainLoop, StartScan, CanRun, PassOver, EndScan, Exit, Reap
<1> QED BY <1>2, <1>3, <1>4, <1>5
        DEF Next, GrowStale, RequestCancel, Child, ChildReserve, ChildWrites, ChildReports,
            ChildExits, LockLost, Quiescent, vars

\* Renaming a run directory away keeps the types of what is on disk.
LEMMA ArchiveTypes == ASSUME DiskTypeOK, NEW j, Archive(j)
                      PROVE  /\ dir' \in [Jobs -> BOOLEAN] /\ report' \in [Jobs -> Reports]
                             /\ files' \in [Jobs -> SUBSET Attempts]
BY RecordTypes DEF DiskTypeOK, Archive

\* No step breaks the types of the children and of the run directories.
LEMMA DiskTypesStep == ASSUME ExecInv, [Next]_vars PROVE DiskTypeOK'
<1> USE MaxAttemptsAssumption
    DEF ExecInv, DiskTypeOK, ChildStates, Exits, Running
<1>1. ASSUME NEW e \in Executors, Worker(e) PROVE DiskTypeOK'
  <2>1. ASSUME Start(e) PROVE DiskTypeOK'
    BY <2>1, ArchiveTypes DEF Start, OpenLog, WorkTypeOK
  <2>2. ASSUME Stop(e) PROVE DiskTypeOK'
    BY <2>2 DEF Stop, fileVars
  <2>3. ASSUME UNCHANGED diskVars PROVE DiskTypeOK'
    BY <2>3 DEF diskVars, fileVars
  <2> QED BY <1>1, <2>1, <2>2, <2>3 DEF Worker, ChildExited, Heartbeat, Deadline, Store, End,
                                        Abort, Close, Notify
<1>2. ASSUME NEW e \in Executors, Failure(e) PROVE DiskTypeOK'
  <2>1. ASSUME StartFails(e) PROVE DiskTypeOK'
    BY <2>1, ArchiveTypes DEF StartFails, OpenLog, WorkTypeOK
  <2>2. ASSUME Crash(e) PROVE DiskTypeOK'
    BY <2>2 DEF Crash, fileVars
  <2>3. ASSUME UNCHANGED diskVars PROVE DiskTypeOK'
    BY <2>3 DEF diskVars, fileVars
  <2> QED BY <1>2, <2>1, <2>2, <2>3 DEF Failure, ScanFails, LeaveServe, HeartbeatFails,
                                        StoreFails, EndFails, AbortFails, Restart
<1>3. ASSUME NEW j \in Jobs, NEW a \in Attempts, Child(j, a) PROVE DiskTypeOK'
  <2>1. ASSUME ChildReserve(j, a) \/ ChildExits(j, a) PROVE DiskTypeOK'
    BY <2>1 DEF ChildReserve, ChildExits, fileVars
  <2>2. ASSUME ChildReports(j, a) PROVE DiskTypeOK'
    BY <2>2 DEF ChildReports, Reports, Attempts
  <2>3. ASSUME ChildWrites(j, a) PROVE DiskTypeOK'
    <3>1. files[j] \cup {a} \in SUBSET Attempts
      OBVIOUS
    <3>2. files' \in [Jobs -> SUBSET Attempts]
      BY <2>3, <3>1 DEF ChildWrites
    <3> QED BY <2>3, <3>2 DEF ChildWrites
  <2> QED BY <1>3, <2>1, <2>2, <2>3 DEF Child
<1>4. ASSUME UNCHANGED diskVars PROVE DiskTypeOK'
  BY <1>4 DEF diskVars, fileVars
<1> QED BY <1>1, <1>2, <1>3, <1>4
        DEF Next, MainLoop, StartScan, CanRun, Claim, PassOver, EndScan, Exit, Reap, GrowStale,
            RequestCancel, LockLost, Quiescent, vars

\* What _end writes is a result.
LEMMA EndJobTypes ==
  ASSUME result \in [Jobs -> Results], NEW j, NEW to, NEW res \in Results, EndJob(j, to, res)
  PROVE  result' \in [Jobs -> Results]
BY DEF EndJob

\* The end of _finalize writes a result of the right type.
LEMMA EndTypes ==
  ASSUME ExecInv, NEW e \in Executors, End(e)
  PROVE  result' \in [Jobs -> Results]
<1> DEFINE j == job[e]
           rep == report[j]
           res == [by |-> rep.by, verdict |-> rep.verdict, code |-> outcome[e]]
           err == [result[j] EXCEPT !.code = outcome[e]]
<1>1. /\ j \in Jobs /\ result \in [Jobs -> Results] /\ rep \in Reports
      /\ outcome[e] \in Exits \cup {"cancelled", "timeout"}
  BY DEF End, At, ExecInv, Phased, DataTypeOK, DiskTypeOK
<1>2. outcome[e] \in Exits => res \in Results /\ err \in Results
  BY <1>1 DEF Results, Reports
<1>3. outcome[e] \in {"exit0", "exit1"} => outcome[e] \in Exits
  BY DEF Exits
<1> HIDE DEF res, err
<1>4. CASE \E to : EndJob(j, to, result[j])
  BY <1>1, <1>4, EndJobTypes
<1>5. CASE outcome[e] \in Exits /\ \E to : EndJob(j, to, res)
  BY <1>1, <1>2, <1>5, EndJobTypes
<1>6. CASE outcome[e] \in Exits /\ \E to : EndJob(j, to, err)
  BY <1>1, <1>2, <1>6, EndJobTypes
<1> QED BY <1>3, <1>4, <1>5, <1>6 DEF End, res, err

\* No step breaks the types of the results, the rows and the notifications.
LEMMA DataTypesStep == ASSUME ExecInv, [Next]_vars PROVE DataTypeOK'
<1> USE MaxAttemptsAssumption, ExecutorAssumption DEF ExecInv, DataTypeOK
<1>1. ASSUME NEW e \in Executors, Worker(e) PROVE DataTypeOK'
  <2>1. ASSUME Store(e) PROVE DataTypeOK'
    <3>1. [log |-> log[job[e]], tasks |-> files[job[e]]] \in Stored
      BY <2>1 DEF Store, At, Phased, DiskTypeOK, Stored
    <3> QED BY <2>1, <3>1 DEF Store
  <2>2. ASSUME End(e) PROVE DataTypeOK'
    BY <2>2, EndTypes DEF End
  <2>3. ASSUME Abort(e) PROVE DataTypeOK'
    <3>1. result[job[e]] \in Results
      BY <2>3 DEF Abort, At, Phased
    <3>2. result' \in [Jobs -> Results]
      BY <2>3, <3>1, EndJobTypes DEF Abort
    <3> QED BY <2>3, <3>2 DEF Abort
  <2>4. ASSUME Notify(e) PROVE DataTypeOK'
    <3>1. job[e] \in Jobs
      BY <2>4 DEF Notify, At, Phased
    <3>2. notified[job[e]] \in Nat /\ notified[job[e]] + 1 \in Nat
      BY <3>1
    <3>3. notified' \in [Jobs -> Nat]
      BY <2>4, <3>2 DEF Notify
    <3> QED BY <2>4, <3>3 DEF Notify
  <2>5. ASSUME UNCHANGED <<dataVars, faults>> PROVE DataTypeOK'
    BY <2>5 DEF dataVars
  <2> QED BY <1>1, <2>1, <2>2, <2>3, <2>4, <2>5
          DEF Worker, Start, ChildExited, Heartbeat, Deadline, Stop, Close
<1>2. ASSUME UNCHANGED dataVars, faults' = faults \/ \E kind : Fault(kind) PROVE DataTypeOK'
  BY <1>2 DEF dataVars, Fault
<1>3. ASSUME NEW e \in Executors, Failure(e) PROVE DataTypeOK'
  BY <1>2, <1>3 DEF Failure, ScanFails, LeaveServe, StartFails, HeartbeatFails, StoreFails,
                    EndFails, AbortFails, Crash, Restart
<1>4. ASSUME NEW e \in Executors, MainLoop(e) PROVE DataTypeOK'
  BY <1>2, <1>4 DEF MainLoop, StartScan, CanRun, Claim, PassOver, EndScan, Exit, Reap
<1>5. ASSUME NEW j \in Jobs, GrowStale(j) PROVE DataTypeOK'
  BY <1>2, <1>5 DEF GrowStale
<1>6. ASSUME NEW k \in Keys, LockLost(k) PROVE DataTypeOK'
  BY <1>2, <1>6 DEF LockLost
<1> QED BY <1>1, <1>2, <1>3, <1>4, <1>5, <1>6
        DEF Next, RequestCancel, Child, ChildReserve, ChildWrites, ChildReports, ChildExits,
            Quiescent, vars

\* The invariant is inductive.
LEMMA StepInv == ExecInv /\ [Next]_vars => ExecInv'
<1>1. ASSUME ExecInv, [Next]_vars PROVE RepoInv'
  BY <1>1, RepoStep, RepoStepInv DEF ExecInv
<1> QED BY <1>1, PhasedStep, MainTypesStep, WorkTypesStep, DiskTypesStep, DataTypesStep
        DEF ExecInv

\* Every variable keeps its type and every executor is where its job says.
THEOREM ExecInvariant == Spec => []ExecInv
BY InitInv, StepInv, PTL DEF Spec

\* Every variable of the executors, the table and the run directories keeps its type.
THEOREM Types == Spec => []TypeOK
<1>1. ExecInv => TypeOK
  BY DEF ExecInv, RepoInv, TypeOK
<1> QED BY <1>1, ExecInvariant, PTL

\* The executors, the faults and the users together are callers of
\* JobRepository and nothing else: all that is proved of the table holds.
THEOREM ExecutorUsesRepository == Spec => RepoSpec
<1>1. Init => RepoInit
  BY DEF Init
<1>2. ExecInv /\ [Next]_vars => [RepoNext]_repoVars
  BY RepoStep DEF ExecInv
<1> QED BY <1>1, <1>2, ExecInvariant, PTL DEF Spec, RepoSpec

\* Jobs run by executors follow models.py, with at most MaxAttempts attempts.
THEOREM ExecutorImplementsLifecycle == Spec => ImplementsLifecycle
BY ExecutorUsesRepository, RepositoryImplementsLifecycle, PTL
-----------------------------------------------------------------------------
(* The advisory locks.                                                      *)

\* A session that is not dropped holds what its executor took: the lock of
\* the candidate it tries, then that of the job it owns.
CandidateLocked ==
  "lock" \notin Faults =>
    \A e \in Executors :
      main[e] = "claim" /\ Key[trying[e]] # NoKey => lock[Key[trying[e]]] = e

LockInv == LockHeld /\ CandidateLocked

\* A key is locked by its holder alone, so the others leave it alone.
LEMMA LockStep == ASSUME ExecInv, LockInv, [Next]_vars PROVE LockInv'
<1> SUFFICES ASSUME "lock" \notin Faults PROVE LockInv'
  BY DEF LockInv, LockHeld, CandidateLocked
<1> USE ExecutorAssumption
    DEF LockInv, LockHeld, CandidateLocked, ExecInv, Phased, MainTypeOK, WorkTypeOK, Owning,
        Phases, At, Goto, Released
<1>1. ASSUME NEW e \in Executors, MainLoop(e) PROVE LockInv'
  <2>1. ASSUME StartScan(e) PROVE LockInv'
    BY <2>1 DEF StartScan, workVars
  <2>2. ASSUME CanRun(e) PROVE LockInv'
    BY <2>2 DEF CanRun, workVars
  <2>3. ASSUME Claim(e) PROVE LockInv'
    BY <2>3 DEF Claim
  <2>4. ASSUME PassOver(e) PROVE LockInv'
    BY <2>4 DEF PassOver, workVars
  <2>5. ASSUME EndScan(e) PROVE LockInv'
    BY <2>5 DEF EndScan, workVars
  <2>6. ASSUME Reap(e) \/ Exit(e) PROVE LockInv'
    BY <2>6 DEF Reap, Exit, mainVars, workVars
  <2> QED BY <1>1, <2>1, <2>2, <2>3, <2>4, <2>5, <2>6 DEF MainLoop
<1>2. ASSUME NEW e \in Executors, Worker(e) PROVE LockInv'
  <2>1. ASSUME Close(e) PROVE LockInv'
    BY <2>1 DEF Close, Idle
  <2>2. ASSUME Notify(e) PROVE LockInv'
    BY <2>2 DEF Notify, Idle, mainVars
  <2>3. ASSUME pc[e] \in Phases \ {"notify"}, UNCHANGED <<main, trying, lock, job>>,
               \E phase \in Phases : pc' = [pc EXCEPT ![e] = phase]
        PROVE  LockInv'
    BY <2>3
  <2>4. ASSUME pc[e] \in Phases \ {"notify"}, UNCHANGED <<main, trying, lock, job, pc>>
        PROVE  LockInv'
    BY <2>4
  <2>5. Worker(e) => \/ Close(e) \/ Notify(e)
                     \/ /\ pc[e] \in Phases \ {"notify"}
                        /\ UNCHANGED <<main, trying, lock, job>>
                        /\ \/ UNCHANGED pc
                           \/ \E phase \in Phases : pc' = [pc EXCEPT ![e] = phase]
    BY DEF Worker, Start, ChildExited, Heartbeat, Deadline, Stop, Store, End, Abort, mainVars
  <2> QED BY <1>2, <2>1, <2>2, <2>3, <2>4, <2>5
<1>3. ASSUME NEW e \in Executors, Failure(e) PROVE LockInv'
  <2>1. ASSUME ScanFails(e) PROVE LockInv'
    BY <2>1 DEF ScanFails, workVars
  <2>2. ASSUME LeaveServe(e) \/ Restart(e) PROVE LockInv'
    BY <2>2 DEF LeaveServe, Restart, workVars
  <2>3. ASSUME StartFails(e) \/ HeartbeatFails(e) \/ StoreFails(e) \/ EndFails(e) \/ AbortFails(e)
        PROVE  LockInv'
    BY <2>3 DEF StartFails, HeartbeatFails, StoreFails, EndFails, AbortFails, mainVars
  <2>4. ASSUME Crash(e) PROVE LockInv'
    BY <2>4 DEF Crash, Idle
  <2> QED BY <1>3, <2>1, <2>2, <2>3, <2>4 DEF Failure
<1>4. ASSUME NEW k \in Keys, LockLost(k) PROVE LockInv'
  BY <1>4 DEF LockLost, Fault
<1>5. ASSUME UNCHANGED <<mainVars, workVars>> PROVE LockInv'
  BY <1>5 DEF mainVars, workVars
<1> QED BY <1>1, <1>2, <1>3, <1>4, <1>5
        DEF Next, GrowStale, RequestCancel, Child, ChildReserve, ChildWrites, ChildReports,
            ChildExits, Quiescent, vars

\* What the locks rest on, with the invariant, at all times.
LEMMA LockInvariant == Spec => []LockInv
<1>1. Init => LockInv
  BY DEF Init, LockInv, LockHeld, CandidateLocked, Owning, Phases
<1>2. ExecInv /\ LockInv /\ [Next]_vars => LockInv'
  BY LockStep
<1> QED BY <1>1, <1>2, ExecInvariant, PTL DEF Spec

\* The lock of a job's key is held for as long as an executor owns the job.
THEOREM LocksAreHeld == Spec => []LockHeld
BY LockInvariant, PTL DEF LockInv

\* Two executors never own jobs of one environment at a time, however late
\* their heartbeats are and whatever crashes.
THEOREM OneOwnerPerKey == Spec => []KeyExclusive
<1>1. LockInv => KeyExclusive
  BY DEF LockInv, LockHeld, KeyExclusive
<1> QED BY <1>1, LockInvariant, PTL

\* No step of an executor, of the database or of a crash leaks a lock.
LEMMA NoLeakStep == ASSUME ExecInv, NoLeakedLock, [Next]_vars PROVE NoLeakedLock'
<1> USE ExecutorAssumption
    DEF NoLeakedLock, ExecInv, Phased, MainTypeOK, WorkTypeOK, Owning, Phases, At, Goto, Released
<1>1. ASSUME NEW e \in Executors, MainLoop(e) PROVE NoLeakedLock'
  <2>1. ASSUME StartScan(e) \/ PassOver(e) PROVE NoLeakedLock'
    BY <2>1 DEF StartScan, PassOver, workVars
  <2>2. ASSUME CanRun(e) PROVE NoLeakedLock'
    BY <2>2 DEF CanRun, workVars
  <2>3. ASSUME Claim(e) PROVE NoLeakedLock'
    BY <2>3 DEF Claim
  <2>4. ASSUME EndScan(e) PROVE NoLeakedLock'
    BY <2>4 DEF EndScan, workVars
  <2>5. ASSUME Reap(e) \/ Exit(e) PROVE NoLeakedLock'
    BY <2>5 DEF Reap, Exit, mainVars, workVars
  <2> QED BY <1>1, <2>1, <2>2, <2>3, <2>4, <2>5 DEF MainLoop
<1>2. ASSUME NEW e \in Executors, Worker(e) PROVE NoLeakedLock'
  <2> USE DEF mainVars
  <2>1. ASSUME Close(e) PROVE NoLeakedLock'
    BY <2>1 DEF Close, Idle
  <2>2. ASSUME Notify(e) PROVE NoLeakedLock'
    BY <2>2 DEF Notify, Idle
  <2>3. ASSUME Start(e) \/ ChildExited(e) \/ Heartbeat(e) \/ Deadline(e) PROVE NoLeakedLock'
    BY <2>3 DEF Start, ChildExited, Heartbeat, Deadline
  <2>4. ASSUME Stop(e) \/ Store(e) \/ End(e) \/ Abort(e) PROVE NoLeakedLock'
    BY <2>4 DEF Stop, Store, End, Abort
  <2> QED BY <1>2, <2>1, <2>2, <2>3, <2>4 DEF Worker
<1>3. ASSUME NEW e \in Executors, Failure(e) PROVE NoLeakedLock'
  <2> USE DEF mainVars
  <2>1. ASSUME ScanFails(e) PROVE NoLeakedLock'
    BY <2>1 DEF ScanFails, workVars
  <2>2. ASSUME LeaveServe(e) \/ Restart(e) PROVE NoLeakedLock'
    BY <2>2 DEF LeaveServe, Restart, workVars
  <2>3. ASSUME StartFails(e) \/ HeartbeatFails(e) \/ StoreFails(e) \/ EndFails(e) \/ AbortFails(e)
        PROVE  NoLeakedLock'
    BY <2>3 DEF StartFails, HeartbeatFails, StoreFails, EndFails, AbortFails
  <2>4. ASSUME Crash(e) PROVE NoLeakedLock'
    BY <2>4 DEF Crash, Idle
  <2> QED BY <1>3, <2>1, <2>2, <2>3, <2>4 DEF Failure
<1>4. ASSUME NEW k \in Keys, LockLost(k) PROVE NoLeakedLock'
  BY <1>4 DEF LockLost, workVars
<1>5. ASSUME UNCHANGED <<mainVars, workVars>> PROVE NoLeakedLock'
  BY <1>5 DEF mainVars, workVars
<1> QED BY <1>1, <1>2, <1>3, <1>4, <1>5
        DEF Next, GrowStale, RequestCancel, Child, ChildReserve, ChildWrites, ChildReports,
            ChildExits, Quiescent, vars

\* A lock outlives neither the job nor the scan it was taken for, on any path
\* out of them: an environment is never locked by nobody.
THEOREM LocksDoNotLeak == Spec => []NoLeakedLock
<1>1. Init => NoLeakedLock
  BY ExecutorAssumption DEF Init, NoLeakedLock
<1>2. ExecInv /\ NoLeakedLock /\ [Next]_vars => NoLeakedLock'
  BY NoLeakStep
<1> QED BY <1>1, <1>2, ExecInvariant, PTL DEF Spec
-----------------------------------------------------------------------------
(* Who moves what: the two lemmas that the proofs below go by.              *)

Still(e) == /\ pc'[e] = pc[e] /\ job'[e] = job[e]
            /\ att'[e] = att[e] /\ outcome'[e] = outcome[e]

\* A worker thread is moved by its own executor only.
LEMMA WhoMoves ==
  ASSUME ExecInv, [Next]_vars, NEW e \in Executors
  PROVE  Still(e) \/ Claim(e) \/ Worker(e) \/ Failure(e)
<1> USE DEF Still, ExecInv, WorkTypeOK, Goto, Becomes, workVars
<1>1. ASSUME UNCHANGED workVars PROVE Still(e)
  BY <1>1
<1>2. ASSUME NEW f \in Executors, f # e, Claim(f) PROVE Still(e)
  BY <1>2 DEF Claim
<1>3. ASSUME NEW f \in Executors, f # e, Worker(f) PROVE Still(e)
  BY <1>3 DEF Worker, Start, ChildExited, Heartbeat, Deadline, Stop, Store, End, Abort, Close,
              Notify, Idle
<1>4. ASSUME NEW f \in Executors, f # e, Failure(f) PROVE Still(e)
  BY <1>4 DEF Failure, ScanFails, LeaveServe, StartFails, HeartbeatFails, StoreFails,
              EndFails, AbortFails, Crash, Restart, Idle
<1>5. ASSUME NEW f \in Executors, MainLoop(f) PROVE Claim(f) \/ UNCHANGED workVars
  BY <1>5 DEF MainLoop, StartScan, CanRun, PassOver, EndScan, Exit, Reap
<1>6. ASSUME NEW j \in Jobs, GrowStale(j) \/ RequestCancel(j) \/ \E a \in Attempts : Child(j, a)
      PROVE  UNCHANGED workVars
  BY <1>6 DEF GrowStale, RequestCancel, Child, ChildReserve, ChildWrites, ChildReports, ChildExits
<1>7. ASSUME NEW k \in Keys, LockLost(k) PROVE UNCHANGED workVars
  BY <1>7 DEF LockLost
<1>8. ASSUME UNCHANGED vars PROVE UNCHANGED workVars
  BY <1>8 DEF vars
<1> QED BY <1>1, <1>2, <1>3, <1>4, <1>5, <1>6, <1>7, <1>8 DEF Next, Quiescent

\* The steps that write to what a user reads of a job, or count its attempts.
LEMMA WritingSteps ==
  ASSUME [Next]_vars
  PROVE  \/ UNCHANGED <<status, attempts, rows, result>>
         \/ \E e \in Executors : Claim(e) \/ Reap(e) \/ Store(e) \/ End(e) \/ Abort(e)
         \/ \E j \in Jobs : RequestCancel(j)
<1> USE DEF repoVars, dataVars
<1>1. ASSUME NEW e \in Executors, MainLoop(e)
      PROVE  UNCHANGED <<status, attempts, rows, result>> \/ Claim(e) \/ Reap(e)
  BY <1>1 DEF MainLoop, StartScan, CanRun, PassOver, EndScan, Exit
<1>2. ASSUME NEW e \in Executors, Worker(e)
      PROVE  UNCHANGED <<status, attempts, rows, result>> \/ Store(e) \/ End(e) \/ Abort(e)
  BY <1>2 DEF Worker, Start, ChildExited, Heartbeat, BeatRow, Deadline, Stop, Close, Notify
<1>3. ASSUME NEW e \in Executors, Failure(e)
      PROVE  UNCHANGED <<status, attempts, rows, result>>
  BY <1>3 DEF Failure, ScanFails, LeaveServe, StartFails, HeartbeatFails, StoreFails,
              EndFails, AbortFails, Crash, Restart
<1>4. ASSUME NEW j \in Jobs, NEW a \in Attempts, Child(j, a)
      PROVE  UNCHANGED <<status, attempts, rows, result>>
  BY <1>4 DEF Child, ChildReserve, ChildWrites, ChildReports, ChildExits
<1>5. ASSUME NEW j \in Jobs, GrowStale(j)
      PROVE  UNCHANGED <<status, attempts, rows, result>>
  BY <1>5 DEF GrowStale, Age
<1>6. ASSUME NEW k \in Keys, LockLost(k) PROVE UNCHANGED <<status, attempts, rows, result>>
  BY <1>6 DEF LockLost
<1>7. ASSUME UNCHANGED vars PROVE UNCHANGED <<status, attempts, rows, result>>
  BY <1>7 DEF vars
<1> QED BY <1>1, <1>2, <1>3, <1>4, <1>5, <1>6, <1>7 DEF Next, Quiescent

\* Only the end of _finalize ends a job as succeeded or timed out or writes a
\* result, only _store_results writes rows, only claim_next counts an attempt.
LEMMA WhoWrites ==
  ASSUME ExecInv, [Next]_vars, NEW j \in Jobs
  PROVE  /\ rows'[j] = rows[j] \/ \E e \in Executors : Store(e) /\ job[e] = j
         /\ result'[j] = result[j] \/ \E e \in Executors : End(e) /\ job[e] = j
         /\ attempts'[j] = attempts[j] \/ \E e \in Executors : Claim(e) /\ trying[e] = j
         /\ \/ status'[j] \in {status[j], "queued", "running", "cancelled", "failed"}
            \/ \E e \in Executors : End(e) /\ job[e] = j
<1> DEFINE Goal == /\ rows'[j] = rows[j] \/ \E e \in Executors : Store(e) /\ job[e] = j
                   /\ result'[j] = result[j] \/ \E e \in Executors : End(e) /\ job[e] = j
                   /\ attempts'[j] = attempts[j] \/ \E e \in Executors : Claim(e) /\ trying[e] = j
                   /\ \/ status'[j] \in {status[j], "queued", "running", "cancelled", "failed"}
                      \/ \E e \in Executors : End(e) /\ job[e] = j
<1>a. /\ status \in [Jobs -> Statuses] /\ attempts \in [Jobs -> 0..MaxAttempts]
      /\ rows \in [Jobs -> Stored] /\ result \in [Jobs -> Results]
  BY DEF ExecInv, RepoInv, RepoTypeOK, DataTypeOK
<1>1. CASE UNCHANGED <<status, attempts, rows, result>>
  BY <1>1
<1>2. ASSUME NEW e \in Executors, Claim(e) PROVE Goal
  BY <1>a, <1>2 DEF Claim, ClaimRow, dataVars
<1>3. ASSUME NEW e \in Executors, Reap(e) PROVE Goal
  BY <1>a, <1>3 DEF Reap, ReapCancelled, ReapFailed, ReapRequeued, dataVars
<1>4. ASSUME NEW e \in Executors, Store(e) PROVE Goal
  BY <1>a, <1>4 DEF Store, repoVars
<1>5. ASSUME NEW e \in Executors, NEW to, NEW res, EndJob(job[e], to, res), UNCHANGED rows
      PROVE  /\ rows'[j] = rows[j] /\ attempts'[j] = attempts[j]
             /\ job[e] # j => status'[j] = status[j] /\ result'[j] = result[j]
             /\ status'[j] \in {status[j], to}
  BY <1>a, <1>5 DEF EndJob, Transition, repoVars
<1>6. ASSUME NEW e \in Executors, End(e) PROVE Goal
  <2>1. PICK to, res : EndJob(job[e], to, res) /\ UNCHANGED rows
    BY <1>6 DEF End
  <2> QED BY <1>5, <1>6, <2>1
<1>7. ASSUME NEW e \in Executors, Abort(e) PROVE Goal
  <2>1. EndJob(job[e], "failed", result[job[e]]) /\ UNCHANGED rows
    BY <1>7 DEF Abort
  <2>2. result' = result
    BY <1>a, <2>1 DEF EndJob
  <2> QED BY <1>5, <2>1, <2>2
<1>8. ASSUME NEW i \in Jobs, RequestCancel(i) PROVE Goal
  BY <1>a, <1>8 DEF RequestCancel, CancelQueued, CancelRunning, dataVars
<1> QED BY <1>1, <1>2, <1>3, <1>4, <1>6, <1>7, <1>8, WritingSteps
-----------------------------------------------------------------------------
(* The owner of an attempt, without late heartbeats.                        *)

\* From the claim to the notification the thread is with a job.  With no late
\* heartbeat its owner is not taken for dead, so nobody else is handed the job
\* and nobody but the owner ends it: what makes OwnerIsCurrent inductive.
Engaged(e) == pc[e] # "free"
Ended(e)   == pc[e] = "notify" \/ (pc[e] = "close" /\ outcome[e] # "dropped")
Owned(e)   == /\ attempts[job[e]] = att[e] /\ outcome[e] # "lost"
              /\ IF Ended(e) THEN status[job[e]] \in Terminal
                 ELSE status[job[e]] = "running" /\ beat[job[e]] = "fresh"
OwnedAlone == "late" \notin Faults =>
                /\ \A e \in Executors : Engaged(e) => Owned(e)
                /\ \A e, f \in Executors : Engaged(e) /\ Engaged(f) /\ e # f => job[e] # job[f]

\* A statement that leaves the owned rows as they are, under workers that stay
\* with their jobs and do not end them, leaves the owners as they are.
LEMMA OwnersStay ==
  ASSUME OwnedAlone, "late" \notin Faults,
         \A e \in Executors :
           Engaged(e)' => /\ Engaged(e) /\ job'[e] = job[e] /\ att'[e] = att[e]
                          /\ outcome'[e] # "lost" /\ (Ended(e)' <=> Ended(e))
                          /\ status'[job[e]] = status[job[e]]
                          /\ attempts'[job[e]] = attempts[job[e]]
                          /\ ~ Ended(e) => beat'[job[e]] \in {beat[job[e]], "fresh"}
  PROVE  OwnedAlone'
BY DEF OwnedAlone, Owned, Engaged

\* _end by the owner ends the job, whose row nobody else owns.
LEMMA OwnerEnds ==
  ASSUME ExecInv, OwnedAlone, "late" \notin Faults, NEW e \in Executors,
         pc[e] \in {"end", "abort"}, NEW to \in Terminal, NEW res, EndJob(job[e], to, res),
         pc' = [pc EXCEPT ![e] = "close"], UNCHANGED <<job, att, outcome>>
  PROVE  OwnedAlone'
<1>1. /\ pc \in [Executors -> Phases \cup {"free"}] /\ job[e] \in Jobs
      /\ status \in [Jobs -> Statuses] /\ outcome[e] \notin {"dropped", "lost"}
  BY DEF ExecInv, Phased, WorkTypeOK, RepoInv, RepoTypeOK, Exits
<1>2. /\ status[job[e]] = "running" /\ attempts[job[e]] = att[e]
      /\ \A f \in Executors : f # e /\ Engaged(f) => job[f] # job[e] /\ job[f] \in Jobs
  BY <1>1 DEF OwnedAlone, Owned, Engaged, Ended, ExecInv, Phased
<1>3. status' = [status EXCEPT ![job[e]] = to] /\ UNCHANGED <<attempts, beat>>
  BY <1>2, StatusFacts DEF EndJob, Transition
<1>4. Owned(e)' /\ pc[e] # "free"
  BY <1>1, <1>2, <1>3 DEF Owned, Ended
<1>5. \A f \in Executors : f # e => (Engaged(f)' <=> Engaged(f)) /\ (Ended(f)' <=> Ended(f))
  BY <1>1 DEF Engaged, Ended
<1>6. \A f \in Executors : f # e /\ Engaged(f) => Owned(f)'
  BY <1>1, <1>2, <1>3, <1>5 DEF OwnedAlone, Owned
<1> QED BY <1>4, <1>5, <1>6 DEF OwnedAlone, Engaged

\* Without late heartbeats no step puts a second owner beside the one of an attempt.
LEMMA OwnerStep == ASSUME ExecInv, OwnedAlone, [Next]_vars PROVE OwnedAlone'
<1> SUFFICES ASSUME "late" \notin Faults PROVE OwnedAlone'
  BY DEF OwnedAlone
<1>a. \A e \in Executors : Engaged(e) => Owned(e) /\ job[e] \in Jobs
  BY DEF OwnedAlone, Engaged, ExecInv, Phased
<1>b. /\ pc \in [Executors -> Phases \cup {"free"}] /\ job \in [Executors -> Jobs \cup {NoJob}]
      /\ att \in [Executors -> 0..MaxAttempts] /\ outcome \in [Executors -> Outcomes]
      /\ status \in [Jobs -> Statuses] /\ attempts \in [Jobs -> 0..MaxAttempts]
      /\ beat \in [Jobs -> {"none", "fresh", "stale"}]
  BY DEF ExecInv, WorkTypeOK, RepoInv, RepoTypeOK
<1>1. ASSUME UNCHANGED <<status, attempts, beat>>,
             \A e \in Executors : Engaged(e)' =>
               /\ Engaged(e) /\ job'[e] = job[e] /\ att'[e] = att[e]
               /\ outcome'[e] # "lost" /\ (Ended(e)' <=> Ended(e))
      PROVE  OwnedAlone'
  BY <1>1, OwnersStay
<1>2. ASSUME UNCHANGED <<status, attempts, beat, workVars>> PROVE OwnedAlone'
  BY <1>a, <1>1, <1>2 DEF Engaged, Owned, Ended, workVars
<1>3. ASSUME NEW e \in Executors, Claim(e) PROVE OwnedAlone'
  <2> DEFINE j == trying[e]
  <2>1. j \in Jobs /\ status[j] = "queued" /\ pc[e] = "free" /\ outcome[e] = "none"
    BY <1>3 DEF Claim, ClaimRow, ExecInv, Phased
  <2>2. /\ job' = [job EXCEPT ![e] = j] /\ att' = [att EXCEPT ![e] = attempts'[j]]
        /\ pc' = [pc EXCEPT ![e] = "start"] /\ outcome' = outcome
        /\ status' = [status EXCEPT ![j] = "running"]
        /\ attempts' = [attempts EXCEPT ![j] = @ + 1] /\ beat' = [beat EXCEPT ![j] = "fresh"]
    BY <1>3 DEF Claim, ClaimRow, Beaten
  <2> HIDE DEF j
  <2>3. Owned(e)'
    BY <1>b, <2>1, <2>2 DEF Owned, Ended
  <2>4. \A f \in Executors : f # e /\ Engaged(f)' =>
          Engaged(f) /\ job'[f] = job[f] /\ job[f] # j /\ Owned(f)'
    <3> SUFFICES ASSUME NEW f \in Executors, f # e, Engaged(f)'
                 PROVE  Engaged(f) /\ job'[f] = job[f] /\ job[f] # j /\ Owned(f)'
      OBVIOUS
    <3>1. Engaged(f) /\ UNCHANGED <<pc[f], job[f], att[f], outcome[f]>>
      BY <1>b, <2>2 DEF Engaged
    <3>2. job[f] # j /\ job[f] \in Jobs
      BY <1>a, <2>1, <3>1, StatusFacts DEF Owned
    <3>3. UNCHANGED <<status[job[f]], attempts[job[f]], beat[job[f]]>>
      BY <1>b, <2>2, <3>2
    <3> QED BY <1>a, <3>1, <3>2, <3>3 DEF Owned, Ended
  <2>5. job'[e] = j
    BY <1>b, <2>2
  <2> QED BY <2>3, <2>4, <2>5 DEF OwnedAlone
<1>4. ASSUME NEW e \in Executors, Reap(e) PROVE OwnedAlone'
  <2>1. \A j \in Jobs : beat[j] = "fresh" \/ status[j] \in Terminal => status'[j] = status[j]
    BY <1>4, <1>b, StatusFacts DEF Reap, ReapCancelled, ReapFailed, ReapRequeued, Stale
  <2>2. \A j \in Jobs : beat[j] = "fresh" => beat'[j] = beat[j]
    BY <1>4, <1>b DEF Reap, ReapCancelled, ReapFailed, ReapRequeued, Stale
  <2>3. UNCHANGED <<attempts, workVars>>
    BY <1>4 DEF Reap, ReapCancelled, ReapFailed, ReapRequeued
  <2> QED BY <1>a, <2>1, <2>2, <2>3, OwnersStay DEF Owned, Engaged, Ended, workVars
<1>5. ASSUME NEW j \in Jobs, RequestCancel(j) PROVE OwnedAlone'
  <2>1. \A i \in Jobs : status[i] = "running" \/ status[i] \in Terminal => status'[i] = status[i]
    BY <1>5, <1>b, StatusFacts DEF RequestCancel, CancelQueued, CancelRunning
  <2>2. UNCHANGED <<attempts, beat, workVars>>
    BY <1>5 DEF RequestCancel, CancelQueued, CancelRunning
  <2> QED BY <1>a, <2>1, <2>2, OwnersStay DEF Owned, Engaged, Ended, workVars
<1>6. ASSUME NEW j \in Jobs, GrowStale(j) PROVE OwnedAlone'
  <2>1. \A e \in Executors : <<job[e], att[e]>> # <<j, attempts[j]>>
    BY <1>6 DEF GrowStale, Fault, Mine
  <2>2. \A e \in Executors : Engaged(e) => job[e] # j
    BY <1>a, <2>1 DEF Owned
  <2>3. UNCHANGED <<status, attempts, workVars>> /\ beat' = [beat EXCEPT ![j] = "stale"]
    BY <1>6 DEF GrowStale, Age
  <2> QED BY <1>a, <1>b, <2>2, <2>3, OwnersStay DEF Owned, Engaged, Ended, workVars
<1>7. ASSUME NEW e \in Executors, Heartbeat(e) PROVE OwnedAlone'
  <2>1. job[e] \in Jobs /\ Engaged(e) /\ ~ Ended(e) /\ status[job[e]] = "running"
    BY <1>7, <1>a DEF Heartbeat, At, Engaged, Ended, Owned
  <2>2. BeatRow(job[e]) /\ UNCHANGED <<job, att>>
    BY <1>7, <2>1 DEF Heartbeat
  <2>3. \A f \in Executors : /\ Engaged(f)' => Engaged(f) /\ (Ended(f)' <=> Ended(f))
                             /\ Engaged(f)' /\ outcome[f] # "lost" => outcome'[f] # "lost"
    BY <1>7, <1>b, <2>1 DEF Heartbeat, Goto, Becomes, Engaged, Ended
  <2> QED BY <1>a, <1>b, <2>2, <2>3, OwnersStay DEF BeatRow, Beaten, Owned
<1>8. ASSUME NEW e \in Executors, End(e) \/ Abort(e) PROVE OwnedAlone'
  <2>1. pc[e] \in {"end", "abort"}
    BY <1>8 DEF End, Abort, At
  <2>2. \E to \in Terminal : \E res : EndJob(job[e], to, res)
    BY <1>8 DEF End, Abort, Terminal
  <2> QED BY <1>8, <2>1, <2>2, OwnerEnds DEF End, Abort, Goto
<1>9. ASSUME NEW e \in Executors, Worker(e) PROVE OwnedAlone'
  <2> USE <1>a, <1>b DEF Goto, Becomes, At, Engaged, Ended, Owned, repoVars
  <2>1. ASSUME Start(e) \/ ChildExited(e) \/ Deadline(e) PROVE OwnedAlone'
    BY <2>1, <1>1 DEF Start, ChildExited, Deadline, Exits
  <2>2. ASSUME Stop(e) \/ Store(e) PROVE OwnedAlone'
    BY <2>2, <1>1 DEF Stop, Store
  <2>3. ASSUME Close(e) \/ Notify(e) PROVE OwnedAlone'
    BY <2>3, <1>1 DEF Close, Notify, Idle
  <2> QED BY <1>7, <1>8, <1>9, <2>1, <2>2, <2>3 DEF Worker
<1>10. ASSUME NEW e \in Executors, Failure(e) PROVE OwnedAlone'
  <2> USE <1>a, <1>b DEF Goto, Becomes, At, Engaged, Ended, Owned, repoVars
  <2>1. ASSUME ScanFails(e) \/ LeaveServe(e) \/ Restart(e) PROVE OwnedAlone'
    BY <2>1, <1>2 DEF ScanFails, LeaveServe, Restart
  <2>2. ASSUME StartFails(e) \/ HeartbeatFails(e) PROVE OwnedAlone'
    BY <2>2, <1>1 DEF StartFails, HeartbeatFails
  <2>3. ASSUME StoreFails(e) \/ EndFails(e) \/ AbortFails(e) PROVE OwnedAlone'
    BY <2>3, <1>1 DEF StoreFails, EndFails, AbortFails
  <2>4. ASSUME Crash(e) PROVE OwnedAlone'
    BY <2>4, <1>1 DEF Crash, Idle
  <2> QED BY <1>10, <2>1, <2>2, <2>3, <2>4 DEF Failure
<1>11. ASSUME NEW e \in Executors, MainLoop(e) PROVE OwnedAlone'
  BY <1>2, <1>3, <1>4, <1>11 DEF MainLoop, StartScan, CanRun, PassOver, EndScan, Exit, repoVars
<1>12. ASSUME NEW j \in Jobs, NEW a \in Attempts, Child(j, a) PROVE OwnedAlone'
  BY <1>2, <1>12 DEF Child, ChildReserve, ChildWrites, ChildReports, ChildExits, repoVars
<1>13. ASSUME NEW k \in Keys, LockLost(k) PROVE OwnedAlone'
  BY <1>2, <1>13 DEF LockLost, repoVars
<1>14. ASSUME UNCHANGED vars PROVE OwnedAlone'
  BY <1>2, <1>14 DEF vars, repoVars
<1> QED BY <1>5, <1>6, <1>9, <1>10, <1>11, <1>12, <1>13, <1>14 DEF Next, Quiescent

\* What the owners rest on, at all times.
LEMMA OwnerInvariant == Spec => []OwnedAlone
<1>1. Init => OwnedAlone
  BY DEF Init, OwnedAlone, Engaged
<1>2. ExecInv /\ OwnedAlone /\ [Next]_vars => OwnedAlone'
  BY OwnerStep
<1> QED BY <1>1, <1>2, ExecInvariant, PTL DEF Spec

\* With no late heartbeat, whoever is about to write to a job does so about the
\* attempt that is running, and is the only one.
THEOREM OwnersAreCurrent == Spec => []OwnerIsCurrent
<1>1. OwnedAlone => OwnerIsCurrent
  BY DEF OwnedAlone, Owned, Engaged, Ended, Writing, OwnerIsCurrent
<1> QED BY <1>1, OwnerInvariant, PTL

\* The user is told of a job by whoever ended it, who then lets go of it.
ToldOnce == "late" \notin Faults =>
              \A j \in Jobs :
                /\ notified[j] \in {0, 1}
                /\ notified[j] = 1 => /\ status[j] \in Terminal
                                      /\ \A e \in Executors : Engaged(e) => job[e] # j

\* A job that has ended stays so.
LEMMA EndedStays ==
  ASSUME ExecInv, [Next]_vars, NEW j \in Jobs, status[j] \in Terminal
  PROVE  status'[j] = status[j] /\ attempts'[j] = attempts[j]
<1>1. RowMoves(j)
  BY RepoStep, EveryRowMoves DEF ExecInv
<1> QED BY <1>1, StatusFacts
        DEF RowMoves, Lifecycle!HandOut, Lifecycle!Finish, Lifecycle!Retry, Lifecycle!Rest,
            Lifecycle!Targets, Lifecycle!Statuses, Lifecycle!Terminal, Terminal

\* Whoever is with a job after a step was with it before, or claims it.
LEMMA EngagedMoves ==
  ASSUME ExecInv, [Next]_vars, NEW e \in Executors, Engaged(e)'
  PROVE  Claim(e) \/ (Engaged(e) /\ job'[e] = job[e])
<1>1. /\ pc \in [Executors -> Phases \cup {"free"}] /\ job \in [Executors -> Jobs \cup {NoJob}]
  BY DEF ExecInv, WorkTypeOK
<1> USE <1>1 DEF Engaged, Goto
<1>2. CASE Still(e)
  BY <1>2 DEF Still
<1>3. CASE Worker(e)
  BY <1>3 DEF Worker, Start, ChildExited, Heartbeat, Deadline, Stop, Store, End, Abort, Close,
              Notify, Idle, At
<1>4. CASE Failure(e)
  BY <1>4 DEF Failure, ScanFails, LeaveServe, StartFails, HeartbeatFails, StoreFails,
              EndFails, AbortFails, Crash, Restart, Idle, At, workVars
<1> QED BY <1>2, <1>3, <1>4, WhoMoves

\* No step tells a user twice.
LEMMA ToldStep == ASSUME ExecInv, OwnedAlone, ToldOnce, [Next]_vars PROVE ToldOnce'
<1> SUFFICES ASSUME "late" \notin Faults, NEW j \in Jobs
             PROVE  /\ notified'[j] \in {0, 1}
                    /\ notified'[j] = 1 => /\ status'[j] \in Terminal
                                           /\ \A e \in Executors : Engaged(e)' => job'[e] # j
  BY DEF ToldOnce
<1>a. notified \in [Jobs -> Nat] /\ notified[j] \in {0, 1}
  BY DEF ExecInv, DataTypeOK, ToldOnce
<1>1. ASSUME notified'[j] = notified[j]
      PROVE  /\ notified'[j] \in {0, 1}
             /\ notified'[j] = 1 => /\ status'[j] \in Terminal
                                    /\ \A e \in Executors : Engaged(e)' => job'[e] # j
  <2> SUFFICES ASSUME notified[j] = 1
               PROVE  /\ status'[j] \in Terminal
                      /\ \A e \in Executors : Engaged(e)' => job'[e] # j
    BY <1>a, <1>1
  <2>1. status[j] \in Terminal /\ \A e \in Executors : Engaged(e) => job[e] # j
    BY DEF ToldOnce
  <2>2. status'[j] \in Terminal
    BY <2>1, EndedStays
  <2>3. ASSUME NEW e \in Executors, Claim(e) PROVE job'[e] # j
    BY <2>1, <2>3, StatusFacts DEF Claim, ClaimRow, ExecInv, WorkTypeOK
  <2> QED BY <2>1, <2>2, <2>3, EngagedMoves
<1>2. ASSUME NEW e \in Executors, Notify(e), job[e] = j
      PROVE  /\ notified'[j] \in {0, 1} /\ status'[j] \in Terminal
             /\ \A f \in Executors : Engaged(f)' => job'[f] # j
  <2>1. Engaged(e) /\ status[j] \in Terminal
    BY <1>2 DEF Notify, At, Engaged, Ended, OwnedAlone, Owned
  <2>2. notified[j] = 0
    BY <1>2, <2>1, <1>a DEF ToldOnce
  <2>3. notified'[j] = 1 /\ status' = status
    BY <1>2, <1>a, <2>1, <2>2 DEF Notify, repoVars
  <2>4. \A f \in Executors : f # e /\ Engaged(f) => job[f] # j
    BY <1>2, <2>1 DEF OwnedAlone
  <2>5. \A f \in Executors : Engaged(f)' => f # e /\ Engaged(f) /\ job'[f] = job[f]
    BY <1>2 DEF Notify, Idle, Engaged, ExecInv, WorkTypeOK
  <2> QED BY <2>1, <2>3, <2>4, <2>5
<1>3. notified'[j] = notified[j] \/ \E e \in Executors : Notify(e) /\ job[e] = j
  <2> USE <1>a DEF dataVars
  <2>1. ASSUME NEW e \in Executors, Worker(e)
        PROVE  notified'[j] = notified[j] \/ (Notify(e) /\ job[e] = j)
    BY <2>1 DEF Worker, Start, ChildExited, Heartbeat, Deadline, Stop, Store, End, Abort, Close,
                Notify
  <2>2. ASSUME NEW e \in Executors, Failure(e) PROVE notified' = notified
    BY <2>2 DEF Failure, ScanFails, LeaveServe, StartFails, HeartbeatFails, StoreFails,
                EndFails, AbortFails, Crash, Restart
  <2>3. ASSUME NEW e \in Executors, MainLoop(e) PROVE notified' = notified
    BY <2>3 DEF MainLoop, StartScan, CanRun, Claim, PassOver, EndScan, Exit, Reap
  <2>4. ASSUME NEW i \in Jobs, GrowStale(i) \/ RequestCancel(i) PROVE notified' = notified
    BY <2>4 DEF GrowStale, RequestCancel
  <2>5. ASSUME NEW i \in Jobs, NEW a \in Attempts, Child(i, a) PROVE notified' = notified
    BY <2>5 DEF Child, ChildReserve, ChildWrites, ChildReports, ChildExits
  <2>6. ASSUME NEW k \in Keys, LockLost(k) PROVE notified' = notified
    BY <2>6 DEF LockLost
  <2>7. ASSUME UNCHANGED vars PROVE notified' = notified
    BY <2>7 DEF vars
  <2> QED BY <2>1, <2>2, <2>3, <2>4, <2>5, <2>6, <2>7 DEF Next, Quiescent
<1> QED BY <1>1, <1>2, <1>3

\* Without late heartbeats a user is told of a job once, whatever crashes and
\* however many attempts it takes (executor.py _notify_finished).
THEOREM UsersAreToldOnce == "late" \notin Faults => (Spec => []NotifiedOnce)
<1>1. Init => ToldOnce
  BY DEF Init, ToldOnce
<1>2. ExecInv /\ OwnedAlone /\ ToldOnce /\ [Next]_vars => ToldOnce'
  BY ToldStep
<1>3. Spec => []ToldOnce
  BY <1>1, <1>2, ExecInvariant, OwnerInvariant, PTL DEF Spec
<1> SUFFICES ASSUME "late" \notin Faults PROVE Spec => []NotifiedOnce
  OBVIOUS
<1>4. ToldOnce => NotifiedOnce
  BY DEF ToldOnce, NotifiedOnce
<1> QED BY <1>3, <1>4, PTL

\* Without late heartbeats nobody changes what a user reads of a job that has
\* ended: its status, its rows and its result.
THEOREM EndedJobsAreFrozen == "late" \notin Faults => (Spec => EndedIsFrozen)
<1> DEFINE Frozen(j) == status'[j] = status[j] /\ rows'[j] = rows[j] /\ result'[j] = result[j]
<1>1. ASSUME "late" \notin Faults, ExecInv, OwnedAlone, [Next]_vars,
             NEW j \in Jobs, status[j] \in Terminal
      PROVE  Frozen(j)
  <2>1. \A e \in Executors : Store(e) \/ End(e) => job[e] # j
    BY <1>1, StatusFacts DEF Store, End, At, OwnedAlone, Engaged, Owned, Ended
  <2> QED BY <1>1, <2>1, EndedStays, WhoWrites
<1> SUFFICES ASSUME "late" \notin Faults PROVE Spec => EndedIsFrozen
  OBVIOUS
<1>2. ExecInv /\ OwnedAlone /\ [Next]_vars
        => [\A j \in Jobs : status[j] \in Terminal => Frozen(j)]_vars
  BY <1>1
<1> QED BY <1>2, ExecInvariant, OwnerInvariant, PTL DEF Spec, EndedIsFrozen
-----------------------------------------------------------------------------
(* The owner of a job that two executors may be with, one after the other.  *)

\* A job that only one executor at a time may write to: none is taken for
\* dead, or the lock of its key keeps the next one out.
Guarded(j) == "late" \notin Faults \/ ("lock" \notin Faults /\ Key[j] # NoKey)

\* The lock of its key keeps a job from being handed out again under its owner.
LockKeepsAttempt ==
  "lock" \notin Faults =>
    \A e \in Executors : Owning(e) /\ Key[job[e]] # NoKey => attempts[job[e]] = att[e]

SoleOwner ==
  \A e \in Executors : Owning(e) /\ Guarded(job[e]) =>
    /\ attempts[job[e]] = att[e]
    /\ \A f \in Executors : Owning(f) /\ job[f] = job[e] => f = e

\* The invariants of the owners, together.
OwnInv == ExecInv /\ LockInv /\ OwnedAlone /\ LockKeepsAttempt

\* Whoever owns a job after a step owned the same attempt before, or claims it.
LEMMA OwningMoves ==
  ASSUME ExecInv, [Next]_vars, NEW e \in Executors, Owning(e)'
  PROVE  Claim(e) \/ (Owning(e) /\ job'[e] = job[e] /\ att'[e] = att[e])
<1>1. /\ pc \in [Executors -> Phases \cup {"free"}] /\ job \in [Executors -> Jobs \cup {NoJob}]
      /\ att \in [Executors -> 0..MaxAttempts]
  BY DEF ExecInv, WorkTypeOK
<1> USE <1>1 DEF Owning, Phases, Goto
<1>2. CASE Still(e)
  BY <1>2 DEF Still
<1>3. CASE Worker(e)
  BY <1>3 DEF Worker, Start, ChildExited, Heartbeat, Deadline, Stop, Store, End, Abort, Close,
              Notify, Idle, At
<1>4. CASE Failure(e)
  BY <1>4 DEF Failure, ScanFails, LeaveServe, StartFails, HeartbeatFails, StoreFails,
              EndFails, AbortFails, Crash, Restart, Idle, At, workVars
<1> QED BY <1>2, <1>3, <1>4, WhoMoves

\* A job is handed out to the holder of the lock of its key alone.
LEMMA AttemptStep ==
  ASSUME ExecInv, LockInv, LockKeepsAttempt, [Next]_vars
  PROVE  LockKeepsAttempt'
<1> SUFFICES ASSUME "lock" \notin Faults, NEW e \in Executors,
                    Owning(e)', Key[job'[e]] # NoKey
             PROVE  attempts'[job'[e]] = att'[e]
  BY DEF LockKeepsAttempt
<1>1. CASE Claim(e)
  BY <1>1 DEF Claim, ExecInv, WorkTypeOK
<1>2. ASSUME Owning(e), job'[e] = job[e], att'[e] = att[e], ~ Claim(e)
      PROVE  attempts'[job'[e]] = att'[e]
  <2>1. attempts[job[e]] = att[e] /\ job[e] \in Jobs /\ lock[Key[job[e]]] = e
    BY <1>2 DEF LockKeepsAttempt, LockInv, LockHeld, ExecInv, Phased, Owning, Phases
  <2>2. ASSUME NEW f \in Executors, Claim(f), trying[f] = job[e] PROVE FALSE
    <3>1. lock[Key[job[e]]] = f
      BY <1>2, <2>2 DEF Claim, LockInv, CandidateLocked
    <3> QED BY <1>2, <2>1, <2>2, <3>1
  <2> QED BY <1>2, <2>1, <2>2, WhoWrites
<1> QED BY <1>1, <1>2, OwningMoves

\* A guarded job has one owner, whose attempt is the last one.
LEMMA OwnerIsSole == ASSUME OwnInv PROVE SoleOwner
<1> SUFFICES ASSUME NEW e \in Executors, Owning(e), Guarded(job[e])
             PROVE  /\ attempts[job[e]] = att[e]
                    /\ \A f \in Executors : Owning(f) /\ job[f] = job[e] => f = e
  BY DEF SoleOwner
<1>1. CASE "late" \notin Faults
  BY <1>1 DEF OwnInv, OwnedAlone, Owned, Engaged, Owning, Phases
<1>2. CASE "lock" \notin Faults /\ Key[job[e]] # NoKey
  BY <1>2 DEF OwnInv, LockKeepsAttempt, LockInv, LockHeld
<1> QED BY <1>1, <1>2 DEF Guarded

\* The invariants of the owners hold at all times.
LEMMA OwnInvariant == Spec => []OwnInv
<1>1. Init => LockKeepsAttempt
  BY DEF Init, LockKeepsAttempt, Owning, Phases
<1>2. ExecInv /\ LockInv /\ LockKeepsAttempt /\ [Next]_vars => LockKeepsAttempt'
  BY AttemptStep
<1> QED BY <1>1, <1>2, ExecInvariant, LockInvariant, OwnerInvariant, PTL DEF Spec, OwnInv
-----------------------------------------------------------------------------
(* The CLI processes.                                                       *)

\* No executor loses hold of a running child: its database does not fail
\* under a heartbeat, and its children die with it.
Orderly == Faults \cap {"db", "orphan"} = {}

\* A child that is alive is watched, or being stopped, by its executor.
ChildWatched ==
  Orderly => \A j \in Jobs, a \in Attempts :
               Alive(j, a) => \E e \in Executors : pc[e] \in {"watch", "stop"} /\ Mine(e) = <<j, a>>

\* How the children move: a new one is started by the executor of its attempt,
\* and the others live on, exit or are killed.
LEMMA ChildMoves ==
  ASSUME ExecInv, [Next]_vars, NEW j \in Jobs, NEW a \in Attempts, Alive(j, a)'
  PROVE  Alive(j, a) \/ \E e \in Executors : Start(e) /\ Mine(e) = <<j, a>>
<1>1. child \in [Jobs \X Attempts -> ChildStates] /\ <<j, a>> \in Jobs \X Attempts
  BY DEF ExecInv, DiskTypeOK
<1> USE <1>1 DEF Alive, Running, Exits
<1>2. CASE UNCHANGED child
  BY <1>2
<1>3. ASSUME NEW e \in Executors, Start(e) PROVE child'[<<j, a>>] = child[<<j, a>>] \/ Mine(e) = <<j, a>>
  BY <1>3 DEF Start
<1>4. ASSUME NEW e \in Executors, Stop(e) PROVE Alive(j, a)
  BY <1>4 DEF Stop
<1>5. ASSUME NEW e \in Executors, Crash(e) PROVE Alive(j, a)
  BY <1>5 DEF Crash
<1>6. ASSUME NEW i \in Jobs, NEW b \in Attempts, Child(i, b) PROVE Alive(j, a)
  BY <1>6 DEF Child, ChildReserve, ChildWrites, ChildReports, ChildExits
<1>7. ASSUME NEW e \in Executors, Worker(e) PROVE Start(e) \/ Stop(e) \/ UNCHANGED child
  BY <1>7 DEF Worker, ChildExited, Heartbeat, Deadline, Store, End, Abort, Close, Notify, diskVars
<1>8. ASSUME NEW e \in Executors, Failure(e) PROVE Crash(e) \/ UNCHANGED child
  BY <1>8 DEF Failure, ScanFails, LeaveServe, StartFails, HeartbeatFails, StoreFails,
              EndFails, AbortFails, Restart, diskVars
<1>9. ASSUME NEW e \in Executors, MainLoop(e) PROVE UNCHANGED child
  BY <1>9 DEF MainLoop, StartScan, CanRun, Claim, PassOver, EndScan, Exit, Reap, diskVars
<1>10. ASSUME NEW i \in Jobs, GrowStale(i) \/ RequestCancel(i) PROVE UNCHANGED child
  BY <1>10 DEF GrowStale, RequestCancel, diskVars
<1>11. ASSUME NEW k \in Keys, LockLost(k) PROVE UNCHANGED child
  BY <1>11 DEF LockLost, diskVars
<1>12. ASSUME UNCHANGED vars PROVE UNCHANGED child
  BY <1>12 DEF vars, diskVars
<1> QED BY <1>2, <1>3, <1>4, <1>5, <1>6, <1>7, <1>8, <1>9, <1>10, <1>11, <1>12
        DEF Next, Quiescent

\* Unless a fault leaves a child alone, its executor stays with it to its end.
LEMMA WatchStep == ASSUME ExecInv, ChildWatched, [Next]_vars PROVE ChildWatched'
<1> SUFFICES ASSUME Orderly, NEW j \in Jobs, NEW a \in Attempts, Alive(j, a)'
             PROVE  \E e \in Executors : (pc[e] \in {"watch", "stop"} /\ Mine(e) = <<j, a>>)'
  BY DEF ChildWatched
<1>1. /\ pc \in [Executors -> Phases \cup {"free"}] /\ job \in [Executors -> Jobs \cup {NoJob}]
      /\ child \in [Jobs \X Attempts -> ChildStates] /\ <<j, a>> \in Jobs \X Attempts
  BY DEF ExecInv, WorkTypeOK, DiskTypeOK
<1>2. ASSUME NEW e \in Executors, Start(e), Mine(e) = <<j, a>>
      PROVE  (pc[e] \in {"watch", "stop"} /\ Mine(e) = <<j, a>>)'
  BY <1>1, <1>2 DEF Start, Goto, Mine
<1>3. ASSUME Alive(j, a)
      PROVE  \E e \in Executors : (pc[e] \in {"watch", "stop"} /\ Mine(e) = <<j, a>>)'
  <2>1. PICK e \in Executors : pc[e] \in {"watch", "stop"} /\ Mine(e) = <<j, a>>
    BY <1>3 DEF ChildWatched
  <2>2. CASE Still(e)
    BY <2>1, <2>2 DEF Still, Mine
  <2>3. CASE Worker(e)
    <3> USE <1>1, <2>1 DEF At, Goto
    <3>1. ~ Stop(e)
      BY <1>1, <1>3 DEF Stop, Alive, Running, Exits
    <3>2. ~ ChildExited(e)
      BY <1>3 DEF ChildExited, Alive, Running, Exits
    <3>3. ASSUME Heartbeat(e) \/ Deadline(e) PROVE (pc[e] \in {"watch", "stop"} /\ Mine(e) = <<j, a>>)'
      BY <3>3 DEF Heartbeat, Deadline, Mine
    <3> QED BY <2>3, <3>1, <3>2, <3>3 DEF Worker, Start, Store, End, Abort, Close, Notify
  <2>4. CASE Failure(e)
    <3> USE <2>1 DEF At, Goto
    <3>1. ~ HeartbeatFails(e)
      BY DEF HeartbeatFails, Fault, Orderly
    <3>2. ~ Crash(e)
      BY <1>1, <1>3 DEF Crash, Fault, Orderly, Alive, Running
    <3>3. ASSUME ScanFails(e) \/ LeaveServe(e) \/ Restart(e)
          PROVE  (pc[e] \in {"watch", "stop"} /\ Mine(e) = <<j, a>>)'
      BY <3>3 DEF ScanFails, LeaveServe, Restart, workVars, Mine
    <3> QED BY <2>4, <3>1, <3>2, <3>3 DEF Failure, StartFails, StoreFails, EndFails, AbortFails
  <2>5. ~ Claim(e)
    BY <2>1 DEF Claim, ExecInv, Phased
  <2> QED BY <2>2, <2>3, <2>4, <2>5, WhoMoves
<1> QED BY <1>2, <1>3, ChildMoves

\* The children are watched at all times.
LEMMA WatchInvariant == Spec => []ChildWatched
<1>1. Init => ChildWatched
  BY DEF Init, ChildWatched, Alive, Running
<1>2. ExecInv /\ ChildWatched /\ [Next]_vars => ChildWatched'
  BY WatchStep
<1> QED BY <1>1, <1>2, ExecInvariant, PTL DEF Spec

\* Unless the database fails or the children outlive their executor, at most
\* one CLI process of an environment is alive: the lock of the key is held for
\* as long as the child lives, whatever is late or crashes.
THEOREM OneRunAtATime ==
  Faults \cap {"db", "orphan", "lock"} = {} => (Spec => []OneRunPerKey)
<1> SUFFICES ASSUME Faults \cap {"db", "orphan", "lock"} = {}
             PROVE  Spec => []OneRunPerKey
  OBVIOUS
<1>1. ASSUME ChildWatched, LockInv PROVE OneRunPerKey
  <2> SUFFICES ASSUME NEW i \in Jobs, NEW j \in Jobs, NEW a \in Attempts, NEW b \in Attempts,
                      Key[i] # NoKey, Key[i] = Key[j], Alive(i, a), Alive(j, b)
               PROVE  i = j /\ a = b
    BY DEF OneRunPerKey
  <2>1. Orderly /\ "lock" \notin Faults
    BY DEF Orderly
  <2>2. PICK e \in Executors : pc[e] \in {"watch", "stop"} /\ Mine(e) = <<i, a>>
    BY <1>1, <2>1 DEF ChildWatched
  <2>3. PICK f \in Executors : pc[f] \in {"watch", "stop"} /\ Mine(f) = <<j, b>>
    BY <1>1, <2>1 DEF ChildWatched
  <2>4. job[e] = i /\ att[e] = a /\ job[f] = j /\ att[f] = b
    BY <2>2, <2>3 DEF Mine
  <2>5. e = f
    BY <1>1, <2>1, <2>2, <2>3, <2>4 DEF LockInv, LockHeld, Owning, Phases
  <2> QED BY <2>4, <2>5
<1> QED BY <1>1, WatchInvariant, LockInvariant, PTL
-----------------------------------------------------------------------------
(* The reports.                                                             *)

\* From the start of the child to the end of _finalize, what is on disk is of
\* the executor's own attempt: no earlier one left its directory in the way,
\* the results are its child's, and the report that will be read says how the
\* child exits.
Judging(e)  == pc[e] \in {"watch", "stop", "store", "end"}
ReportOf(e) ==
  LET c == child[Mine(e)]
      r == report[job[e]]
  IN
  /\ c = "spawned" => ~ dir[job[e]]
  /\ c \in {"passing", "exit0"}  => r = [by |-> att[e], verdict |-> "PASSED"]
  /\ c \in {"blocking", "exit1"} => r = [by |-> att[e], verdict |-> "BLOCKED"]
  /\ outcome[e] \in Exits => outcome[e] = c
  /\ log[job[e]] = att[e] /\ files[job[e]] \subseteq {att[e]}
  /\ c \in {"tested", "passing", "blocking", "exit0", "exit1"} => files[job[e]] = {att[e]}
ReportKept ==
  Orderly => \A e \in Executors : Judging(e) /\ Guarded(job[e]) => ReportOf(e)

\* The steps that touch a run directory or a CLI process.
LEMMA DiskSteps ==
  ASSUME [Next]_vars
  PROVE  \/ UNCHANGED diskVars
         \/ \E f \in Executors : Start(f) \/ StartFails(f) \/ Stop(f) \/ Crash(f)
         \/ \E j \in Jobs, a \in Attempts : Child(j, a)
<1>1. ASSUME NEW e \in Executors, Worker(e) PROVE UNCHANGED diskVars \/ Start(e) \/ Stop(e)
  BY <1>1 DEF Worker, ChildExited, Heartbeat, Deadline, Store, End, Abort, Close, Notify
<1>2. ASSUME NEW e \in Executors, Failure(e)
      PROVE  UNCHANGED diskVars \/ StartFails(e) \/ Crash(e)
  BY <1>2 DEF Failure, ScanFails, LeaveServe, HeartbeatFails, StoreFails, EndFails, AbortFails,
              Restart
<1>3. ASSUME NEW e \in Executors, MainLoop(e) PROVE UNCHANGED diskVars
  BY <1>3 DEF MainLoop, StartScan, CanRun, Claim, PassOver, EndScan, Exit, Reap
<1>4. ASSUME NEW j \in Jobs, GrowStale(j) \/ RequestCancel(j) PROVE UNCHANGED diskVars
  BY <1>4 DEF GrowStale, RequestCancel
<1>5. ASSUME NEW k \in Keys, LockLost(k) PROVE UNCHANGED diskVars
  BY <1>5 DEF LockLost
<1>6. ASSUME UNCHANGED vars PROVE UNCHANGED diskVars
  BY <1>6 DEF vars
<1> QED BY <1>1, <1>2, <1>3, <1>4, <1>5, <1>6 DEF Next, Quiescent

\* A step leaves what is on disk of the executor's job, or its child, as it was.
KeepsReport(e) == /\ report'[job[e]] = report[job[e]] /\ dir'[job[e]] = dir[job[e]]
                  /\ files'[job[e]] = files[job[e]] /\ log'[job[e]] = log[job[e]]
KeepsChild(e)  == child'[Mine(e)] = child[Mine(e)]

\* While an executor judges a guarded job, only its own child writes there.
LEMMA DiskOfOwner ==
  ASSUME OwnInv, ChildWatched, Orderly, [Next]_vars,
         NEW e \in Executors, Judging(e), Guarded(job[e]), Still(e)
  PROVE  \/ KeepsChild(e) /\ KeepsReport(e)
         \/ /\ child[Mine(e)] \in Running /\ child'[Mine(e)] = "killed"
            /\ KeepsReport(e)
         \/ Child(job[e], att[e])
<1> USE DEF Judging, At, KeepsReport, KeepsChild, fileVars
<1>1. /\ job[e] \in Jobs /\ att[e] \in Attempts /\ Mine(e) = <<job[e], att[e]>>
      /\ child \in [Jobs \X Attempts -> ChildStates] /\ dir \in [Jobs -> BOOLEAN]
      /\ report \in [Jobs -> Reports] /\ pc \in [Executors -> Phases \cup {"free"}]
      /\ files \in [Jobs -> SUBSET Attempts] /\ log \in [Jobs -> 0..MaxAttempts]
  BY DEF OwnInv, ExecInv, DiskTypeOK, WorkTypeOK, Phased, Mine
<1>2. \A f \in Executors : Owning(f) /\ job[f] = job[e] => f = e
  BY OwnerIsSole DEF SoleOwner, Owning, Phases
<1>3. CASE UNCHANGED diskVars
  BY <1>3 DEF diskVars
<1>4. ASSUME NEW f \in Executors, Start(f) \/ StartFails(f)
      PROVE  KeepsChild(e) /\ KeepsReport(e)
  <2>1. job[f] # job[e] /\ Mine(f) # Mine(e)
    BY <1>2, <1>4 DEF Start, StartFails, Owning, Phases, Mine
  <2> QED BY <1>1, <1>4, <2>1 DEF Start, StartFails, Archive, OpenLog
<1>5. ASSUME NEW f \in Executors, Stop(f)
      PROVE  KeepsChild(e) /\ KeepsReport(e)
  <2>1. f # e
    BY <1>1, <1>5 DEF Stop, Goto, Still
  <2>2. Mine(f) # Mine(e)
    BY <1>2, <1>5, <2>1 DEF Stop, Owning, Phases, Mine
  <2> QED BY <1>1, <1>5, <2>2 DEF Stop
<1>6. ASSUME NEW f \in Executors, Crash(f)
      PROVE  /\ \/ KeepsChild(e)
                \/ child[Mine(e)] \in Running /\ child'[Mine(e)] = "killed"
             /\ KeepsReport(e)
  BY <1>1, <1>6 DEF Crash
<1>7. ASSUME NEW j \in Jobs, NEW a \in Attempts, Child(j, a)
      PROVE  \/ KeepsChild(e) /\ KeepsReport(e)
             \/ j = job[e] /\ a = att[e]
  <2>1. Alive(j, a)
    BY <1>7 DEF Child, ChildReserve, ChildWrites, ChildReports, ChildExits, Alive, Running
  <2>2. PICK f \in Executors : pc[f] \in {"watch", "stop"} /\ Mine(f) = <<j, a>>
    BY <2>1 DEF ChildWatched
  <2>3. CASE j = job[e]
    BY <1>2, <2>2, <2>3 DEF Mine, Owning, Phases
  <2>4. CASE j # job[e]
    BY <1>1, <1>7, <2>4 DEF Child, ChildReserve, ChildWrites, ChildReports, ChildExits
  <2> QED BY <2>3, <2>4
<1> QED BY <1>3, <1>4, <1>5, <1>6, <1>7, DiskSteps

\* The child of a job's owner keeps the report and its exit code in step.
LEMMA ReportStep ==
  ASSUME OwnInv, ChildWatched, ReportKept, [Next]_vars
  PROVE  ReportKept'
<1> SUFFICES ASSUME Orderly, NEW e \in Executors, Judging(e)', Guarded(job'[e])
             PROVE  ReportOf(e)'
  BY DEF ReportKept, Guarded
<1>1. /\ child \in [Jobs \X Attempts -> ChildStates] /\ dir \in [Jobs -> BOOLEAN]
      /\ report \in [Jobs -> Reports] /\ pc \in [Executors -> Phases \cup {"free"}]
      /\ files \in [Jobs -> SUBSET Attempts] /\ log \in [Jobs -> 0..MaxAttempts]
      /\ outcome \in [Executors -> Outcomes]
  BY DEF OwnInv, ExecInv, DiskTypeOK, WorkTypeOK
<1>2. Judging(e) => job[e] \in Jobs /\ att[e] \in Attempts
  BY DEF Judging, OwnInv, ExecInv, Phased
<1>3. CASE Start(e)
  <2>1. job[e] \in Jobs /\ att[e] \in Attempts /\ outcome[e] = "none"
    BY <1>3 DEF Start, At, OwnInv, ExecInv, Phased
  <2> QED BY <1>1, <1>3, <2>1 DEF Start, Archive, OpenLog, ReportOf, Mine, Exits
<1>4. ASSUME Judging(e), Guarded(job[e]), ~ Start(e), Worker(e) PROVE ReportOf(e)'
  <2>1. ReportOf(e) /\ job[e] \in Jobs /\ att[e] \in Attempts
    BY <1>2, <1>4 DEF ReportKept
  <2> USE <1>1, <2>1 DEF ReportOf, Mine, At, Goto, Becomes, diskVars, fileVars
  <2>2. CASE ChildExited(e)
    BY <2>2 DEF ChildExited
  <2>3. CASE Heartbeat(e) \/ Deadline(e)
    BY <2>3 DEF Heartbeat, Deadline, Exits
  <2>4. CASE Stop(e)
    <3>1. outcome[e] \notin Exits
      BY <2>4 DEF Stop, OwnInv, ExecInv, Phased, Exits
    <3> QED BY <2>4, <3>1 DEF Stop, Exits
  <2>5. CASE Store(e)
    BY <2>5 DEF Store
  <2>6. ~ (End(e) \/ Abort(e) \/ Close(e) \/ Notify(e))
    BY <1>4 DEF End, Abort, Close, Notify, Idle, Judging
  <2> QED BY <1>4, <2>2, <2>3, <2>4, <2>5, <2>6 DEF Worker
<1>5. ASSUME Failure(e), ~ Still(e) PROVE FALSE
  BY <1>1, <1>5 DEF Failure, ScanFails, LeaveServe, StartFails, HeartbeatFails, StoreFails,
     EndFails, AbortFails, Crash, Restart, Idle, Goto, Judging, Still, workVars
<1>6. ASSUME Judging(e), Guarded(job[e]), Still(e) PROVE ReportOf(e)'
  <2>1. ReportOf(e) /\ Mine(e)' = Mine(e) /\ UNCHANGED <<job[e], att[e], outcome[e]>>
    BY <1>6 DEF ReportKept, Still, Mine
  <2>2. CASE KeepsChild(e) /\ KeepsReport(e)
    BY <1>6, <2>1, <2>2 DEF ReportOf, KeepsChild, KeepsReport
  <2>3. CASE child[Mine(e)] \in Running /\ child'[Mine(e)] = "killed" /\ KeepsReport(e)
    <3>1. outcome[e] \notin Exits
      BY <2>1, <2>3 DEF ReportOf, Running, Exits
    <3>2. (child[Mine(e)])' = "killed" /\ outcome'[e] \notin Exits
      BY <2>1, <2>3, <3>1
    <3> QED BY <2>1, <2>3, <3>2 DEF ReportOf, KeepsReport
  <2>4. CASE Child(job[e], att[e])
    <3> USE <1>1, <1>2, <1>6, <2>1 DEF ReportOf, Mine, Still, fileVars
    <3>1. CASE ChildReserve(job[e], att[e])
      BY <3>1 DEF ChildReserve, Exits
    <3>2. CASE ChildWrites(job[e], att[e])
      <4>1. child[Mine(e)] \in {"working", "tested"} /\ outcome[e] \notin Exits
        BY <3>2 DEF ChildWrites, Exits
      <4>2. CASE UNCHANGED <<child, files>>
        BY <3>2, <4>1, <4>2 DEF ChildWrites
      <4>3. CASE /\ child' = [child EXCEPT ![Mine(e)] = "tested"]
                 /\ files' = [files EXCEPT ![job[e]] = @ \cup {att[e]}]
        <5>1. files'[job[e]] = {att[e]} /\ (child[Mine(e)])' = "tested"
          BY <4>3
        <5> QED BY <3>2, <4>1, <5>1 DEF ChildWrites
      <4> QED BY <3>2, <4>2, <4>3 DEF ChildWrites
    <3>3. CASE ChildReports(job[e], att[e])
      BY <3>3 DEF ChildReports, Verdicts, Exits
    <3>4. CASE ChildExits(job[e], att[e])
      BY <3>4 DEF ChildExits, Exits
    <3> QED BY <2>4, <3>1, <3>2, <3>3, <3>4 DEF Child
  <2> QED BY <1>6, <2>2, <2>3, <2>4, DiskOfOwner
<1>7. ~ Start(e) /\ ~ Claim(e) => Judging(e) /\ Guarded(job[e])
  <2>1. Still(e) => Judging(e) /\ Guarded(job[e])
    BY DEF Still, Judging
  <2>2. Worker(e) => Start(e) \/ (Judging(e) /\ job'[e] = job[e])
    BY <1>1 DEF Judging, Worker, ChildExited, Heartbeat, Deadline, Stop, Store, End,
       Abort, Close, Notify, Idle, At, Goto
  <2> QED BY <1>5, <2>1, <2>2, WhoMoves DEF OwnInv
<1>8. ~ Claim(e)
  BY <1>1 DEF Claim, Judging
<1> QED BY <1>3, <1>4, <1>5, <1>6, <1>7, <1>8, WhoMoves DEF OwnInv

\* What is on disk is the owner's, at all times.
LEMMA ReportInvariant == Spec => []ReportKept
<1>1. Init => ReportKept
  BY DEF Init, ReportKept, Judging
<1>2. OwnInv /\ ChildWatched /\ ReportKept /\ [Next]_vars => ReportKept'
  BY ReportStep
<1> QED BY <1>1, <1>2, OwnInvariant, WatchInvariant, PTL DEF Spec

\* The CLI never finds its run id taken by an earlier attempt: nobody loses
\* hold of a child, and no two executors are with one job at a time
\* (executor.py _archive_previous_attempt, engine.py _reserve_run_dir).
THEOREM RunIdsAreFree ==
  Orderly /\ (\A j \in Jobs : Guarded(j)) => (Spec => []RunIdFree)
<1> SUFFICES ASSUME Orderly, \A j \in Jobs : Guarded(j) PROVE Spec => []RunIdFree
  OBVIOUS
<1>1. ASSUME ChildWatched, ReportKept PROVE RunIdFree
  <2> SUFFICES ASSUME NEW j \in Jobs, NEW a \in Attempts, child[<<j, a>>] = "spawned"
               PROVE  ~ dir[j]
    BY DEF RunIdFree
  <2>1. PICK e \in Executors : pc[e] \in {"watch", "stop"} /\ Mine(e) = <<j, a>>
    BY <1>1 DEF ChildWatched, Alive, Running
  <2>2. job[e] = j
    BY <2>1 DEF Mine
  <2> QED BY <1>1, <2>1, <2>2 DEF ReportKept, ReportOf, Judging
<1> QED BY <1>1, WatchInvariant, ReportInvariant, PTL
-----------------------------------------------------------------------------
(* The results.                                                             *)

\* What _end writes to a guarded job: its owner ends it once, as the report
\* and the exit code of the attempt say.
ResultOf(j) ==
  LET r == result[j] IN
    /\ status[j] = "succeeded" => r.verdict = "PASSED"
    /\ r.verdict = "PASSED" => status[j] = "succeeded" /\ r.code = "exit0"
    /\ r.verdict = "BLOCKED" => status[j] = "failed" /\ r.code = "exit1"
    /\ r.verdict # "none" => r.by = attempts[j]
ResultKept ==
  Orderly => \A j \in Jobs : Guarded(j) =>
               /\ status[j] \notin Terminal => result[j] = NoResult
               /\ ResultOf(j)

\* The end of _finalize records what its own report says, or nothing of it.
LEMMA EndRecords ==
  ASSUME OwnInv, ReportKept, ResultKept, Orderly, NEW e \in Executors, End(e),
         NEW j \in Jobs, job[e] = j, Guarded(j), status[j] \notin Terminal
  PROVE  /\ status'[j] \notin Terminal => result'[j] = NoResult
         /\ ResultOf(j)'
<1> DEFINE rep == report[j]
           code == outcome[e]
           judged == code \in {"exit0", "exit1"} /\ rep.verdict \in Verdicts
           verdict == IF rep.verdict = "BLOCKED" THEN "failed" ELSE "succeeded"
           res == [by |-> rep.by, verdict |-> rep.verdict, code |-> code]
           err == [result[j] EXCEPT !.code = code]
<1>1. /\ pc[e] = "end" /\ result[j] = NoResult
      /\ status \in [Jobs -> Statuses] /\ result \in [Jobs -> Results]
      /\ report[j] \in Reports
  BY DEF End, At, OwnInv, ExecInv, Phased, RepoInv, RepoTypeOK, DataTypeOK, DiskTypeOK, ResultKept
<1>2. attempts[j] = att[e] /\ ReportOf(e)
  BY <1>1, OwnerIsSole DEF SoleOwner, Owning, Phases, ReportKept, Judging
<1>3. /\ code = "exit0" => rep = [by |-> att[e], verdict |-> "PASSED"]
      /\ code = "exit1" => rep = [by |-> att[e], verdict |-> "BLOCKED"]
  BY <1>2 DEF ReportOf, Exits
<1>4. \/ code = "cancelled" /\ EndJob(j, "cancelled", result[j])
      \/ code = "timeout"   /\ EndJob(j, "timed_out", result[j])
      \/ judged /\ EndJob(j, verdict, res)
      \/ code \in Exits /\ ~judged /\ EndJob(j, "failed", err)
  BY DEF End
<1> HIDE DEF judged, res, err
<1>5. ASSUME NEW to \in Terminal, NEW r \in Results, EndJob(j, to, r)
      PROVE  /\ UNCHANGED attempts
             /\ \/ status'[j] = status[j] /\ result'[j] = NoResult
                \/ status'[j] = to /\ result'[j] = r
  BY <1>1, <1>5 DEF EndJob, Transition, repoVars
<1>6. CASE EndJob(j, "cancelled", NoResult) \/ EndJob(j, "timed_out", NoResult)
  <2>1. /\ UNCHANGED attempts /\ result'[j] = NoResult
        /\ status'[j] # "succeeded"
    BY <1>1, <1>5, <1>6, RecordTypes DEF Terminal
  <2> QED BY <1>1, <2>1 DEF ResultOf, NoResult
<1>7. CASE judged /\ EndJob(j, verdict, res)
  <2>1. rep.by = attempts[j] /\ res = [by |-> rep.by, verdict |-> rep.verdict, code |-> code]
    BY <1>2, <1>3, <1>7 DEF judged, res
  <2>2. res \in Results /\ verdict \in Terminal
    BY <1>1, <1>7, <2>1 DEF judged, Results, Reports, Exits, Terminal
  <2>3. CASE status'[j] = status[j] /\ result'[j] = NoResult
    BY <1>1, <2>3 DEF ResultOf, NoResult, Terminal
  <2>4. CASE status'[j] = verdict /\ result'[j] = res /\ UNCHANGED attempts
    <3>1. \/ code = "exit0" /\ rep.verdict = "PASSED" /\ verdict = "succeeded"
          \/ code = "exit1" /\ rep.verdict = "BLOCKED" /\ verdict = "failed"
      BY <1>3, <1>7 DEF judged
    <3>2. status'[j] \in Terminal
      BY <2>2, <2>4
    <3> QED BY <1>1, <2>1, <2>4, <3>1, <3>2 DEF ResultOf
  <2> QED BY <1>5, <1>7, <2>2, <2>3, <2>4
<1>8. CASE code \in Exits /\ EndJob(j, "failed", err)
  <2>1. err = [NoResult EXCEPT !.code = code] /\ err \in Results
    BY <1>1, <1>8, RecordTypes DEF err, Results
  <2>2. \/ status'[j] = status[j] /\ result'[j] = NoResult
        \/ status'[j] = "failed" /\ result'[j] = err
    BY <1>5, <1>8, <2>1 DEF Terminal
  <2>3. result'[j].verdict = "none" /\ status'[j] # "succeeded"
    BY <1>1, <2>1, <2>2 DEF NoResult, Terminal
  <2>4. ResultOf(j)'
    BY <1>1, <2>3 DEF ResultOf
  <2> QED BY <1>1, <2>2, <2>4 DEF Terminal
<1> QED BY <1>1, <1>4, <1>6, <1>7, <1>8

\* No other step records a verdict, and none changes what is recorded.
LEMMA ResultStep ==
  ASSUME OwnInv, ReportKept, ResultKept, [Next]_vars
  PROVE  ResultKept'
<1> SUFFICES ASSUME Orderly, NEW j \in Jobs, Guarded(j)
             PROVE  /\ status'[j] \notin Terminal => result'[j] = NoResult
                    /\ ResultOf(j)'
  BY DEF ResultKept, Guarded
<1>a. ExecInv /\ ResultOf(j) /\ (status[j] \notin Terminal => result[j] = NoResult)
  BY DEF OwnInv, ResultKept
<1>1. CASE status[j] \in Terminal
  <2>1. status'[j] = status[j] /\ attempts'[j] = attempts[j]
    BY <1>a, <1>1, EndedStays
  <2>2. ASSUME NEW e \in Executors, End(e), job[e] = j PROVE result'[j] = result[j]
    BY <1>1, <2>2, StatusFacts DEF End, EndJob
  <2>3. result'[j] = result[j]
    BY <1>a, <2>2, WhoWrites
  <2> QED BY <1>a, <1>1, <2>1, <2>3 DEF ResultOf
<1>2. CASE status[j] \notin Terminal /\ \E e \in Executors : End(e) /\ job[e] = j
  <2>1. PICK e \in Executors : End(e) /\ job[e] = j
    BY <1>2
  <2> QED BY <1>2, <2>1, EndRecords
<1>3. CASE status[j] \notin Terminal /\ ~ \E e \in Executors : End(e) /\ job[e] = j
  <2>1. result'[j] = NoResult
    BY <1>a, <1>3, WhoWrites
  <2>2. status'[j] # "succeeded"
    BY <1>a, <1>3, WhoWrites DEF Terminal
  <2> QED BY <2>1, <2>2 DEF ResultOf, NoResult
<1> QED BY <1>1, <1>2, <1>3

\* A job that succeeded passed its gate with exit code 0, a blocked one failed
\* with exit code 1, and the report is that of the attempt that is recorded:
\* unless a child is left alone or two executors are with one job.
THEOREM ResultsAgree ==
  Orderly /\ (\A j \in Jobs : Guarded(j)) => (Spec => []ResultAgrees)
<1> SUFFICES ASSUME Orderly, \A j \in Jobs : Guarded(j) PROVE Spec => []ResultAgrees
  OBVIOUS
<1>1. Init => ResultKept
  BY DEF Init, RepoInit, ResultKept, ResultOf, NoResult
<1>2. OwnInv /\ ReportKept /\ ResultKept /\ [Next]_vars => ResultKept'
  BY ResultStep
<1>3. ResultKept => ResultAgrees
  BY DEF ResultKept, ResultOf, ResultAgrees
<1> QED BY <1>1, <1>2, <1>3, OwnInvariant, ReportInvariant, PTL DEF Spec

\* The log that is stored is of attempt a, and the results of no other.
RowsOf(j, a) == rows[j].log = a /\ rows[j].tasks \subseteq {a}

\* The rows of a guarded job are written before it ends, by whoever ends it, and
\* from what its own child left.
DataKept ==
  Orderly =>
    /\ \A e \in Executors : Owning(e) /\ pc[e] # "close" /\ Guarded(job[e]) =>
         /\ result[job[e]].code = "none" /\ status[job[e]] # "timed_out"
         /\ pc[e] = "end" => RowsOf(job[e], att[e])
         /\ pc[e] = "end" /\ outcome[e] \in {"exit0", "exit1"} => rows[job[e]].tasks = {att[e]}
    /\ \A j \in Jobs : Guarded(j) =>
         /\ status[j] \notin Terminal => result[j].code = "none"
         /\ status[j] = "timed_out" \/ result[j].code # "none" => RowsOf(j, attempts[j])
         /\ result[j].verdict # "none" =>
              result[j].code # "none" /\ rows[j].tasks = {attempts[j]}

\* What the owner of a guarded job stores is what its own child left.
LEMMA StoresItsOwn ==
  ASSUME OwnInv, ReportKept, Orderly, NEW e \in Executors, Store(e), Guarded(job[e])
  PROVE  /\ RowsOf(job[e], att[e])'
         /\ outcome[e] \in {"exit0", "exit1"} => rows'[job[e]].tasks = {att[e]}
<1>1. job[e] \in Jobs /\ rows \in [Jobs -> Stored]
  BY DEF Store, At, OwnInv, ExecInv, Phased, DataTypeOK
<1>2. rows'[job[e]] = [log |-> log[job[e]], tasks |-> files[job[e]]] /\ UNCHANGED <<job, att>>
  BY <1>1 DEF Store
<1>3. ReportOf(e)
  BY DEF ReportKept, Judging, Store, At
<1> QED BY <1>2, <1>3 DEF ReportOf, RowsOf, Exits

\* What _end writes, if anything: its result has a verdict only with the exit
\* code of a gate, and a code only with one of the child.
LEMMA EndWrites ==
  ASSUME ExecInv, NEW e \in Executors, End(e)
  PROVE  /\ UNCHANGED <<rows, attempts>>
         /\ \/ UNCHANGED <<status, result>>
            \/ \E to \in Terminal, r \in Results :
                 /\ status' = [status EXCEPT ![job[e]] = to]
                 /\ result' = [result EXCEPT ![job[e]] = r]
                 /\ \/ r = result[job[e]]
                    \/ /\ r.code = outcome[e] /\ outcome[e] \in Exits
                       /\ \/ r.verdict = result[job[e]].verdict
                          \/ outcome[e] \in {"exit0", "exit1"}
<1> DEFINE j == job[e]
           rep == report[j]
           res == [by |-> rep.by, verdict |-> rep.verdict, code |-> outcome[e]]
           err == [result[j] EXCEPT !.code = outcome[e]]
           Written(to, r) == EndJob(j, to, r) /\ to \in Terminal /\ r \in Results
<1>1. /\ j \in Jobs /\ result \in [Jobs -> Results] /\ rep \in Reports
      /\ outcome[e] \in Exits \cup {"cancelled", "timeout"}
  BY DEF End, At, ExecInv, Phased, DataTypeOK, DiskTypeOK
<1>2. /\ outcome[e] \in Exits => res \in Results /\ err \in Results
      /\ res.code = outcome[e] /\ err.code = outcome[e] /\ err.verdict = result[j].verdict
  BY <1>1 DEF Results, Reports
<1>3. UNCHANGED rows
  BY DEF End
<1> HIDE DEF res, err
<1>4. ASSUME NEW to, NEW r, Written(to, r)
      PROVE  /\ UNCHANGED attempts
             /\ \/ UNCHANGED <<status, result>>
                \/ /\ status' = [status EXCEPT ![j] = to]
                   /\ result' = [result EXCEPT ![j] = r]
  BY <1>4 DEF EndJob, Transition, repoVars
<1>5. \/ \E to : Written(to, result[j])
      \/ outcome[e] \in {"exit0", "exit1"} /\ \E to : Written(to, res)
      \/ outcome[e] \in Exits /\ \E to : Written(to, err)
  BY <1>1, <1>2 DEF End, Terminal, Exits, res, err
<1>6. CASE \E to : Written(to, result[j])
  <2>1. PICK to : Written(to, result[j])
    BY <1>6
  <2> QED BY <1>3, <1>4, <2>1
<1>7. CASE outcome[e] \in {"exit0", "exit1"} /\ \E to : Written(to, res)
  <2>1. PICK to : Written(to, res)
    BY <1>7
  <2> QED BY <1>2, <1>3, <1>4, <1>7, <2>1 DEF Exits
<1>8. CASE outcome[e] \in Exits /\ \E to : Written(to, err)
  <2>1. PICK to : Written(to, err)
    BY <1>8
  <2> QED BY <1>2, <1>3, <1>4, <1>8, <2>1
<1> QED BY <1>5, <1>6, <1>7, <1>8

\* A row is overwritten, and an attempt counted, only before its job has data.
LEMMA DataStep == ASSUME OwnInv, ReportKept, DataKept, [Next]_vars PROVE DataKept'
<1> SUFFICES ASSUME Orderly PROVE DataKept'
  BY DEF DataKept
<1>a. /\ ExecInv /\ pc \in [Executors -> Phases \cup {"free"}]
      /\ rows \in [Jobs -> Stored] /\ result \in [Jobs -> Results]
      /\ job \in [Executors -> Jobs \cup {NoJob}] /\ status \in [Jobs -> Statuses]
      /\ outcome \in [Executors -> Outcomes]
  BY DEF OwnInv, ExecInv, WorkTypeOK, DataTypeOK, RepoInv, RepoTypeOK
<1>b. ASSUME NEW j \in Jobs, Guarded(j), NEW e \in Executors, Store(e) \/ End(e), job[e] = j
      PROVE  /\ attempts[j] = att[e]
             /\ \A f \in Executors : Owning(f) /\ job[f] = j => f = e
  BY <1>b, OwnerIsSole DEF SoleOwner, Store, End, At, Owning, Phases
<1>1. ASSUME NEW j \in Jobs, Guarded(j), status[j] \notin Terminal
      PROVE  /\ result[j].code = "none" /\ status[j] # "timed_out"
             /\ ~ (\E e \in Executors : End(e) /\ job[e] = j) => UNCHANGED result[j]
  BY <1>a, <1>1, WhoWrites DEF DataKept, Terminal
<1>2. ASSUME NEW e \in Executors, (Owning(e) /\ pc[e] # "close")', Guarded(job'[e])
      PROVE  /\ result'[job'[e]].code = "none" /\ status'[job'[e]] # "timed_out"
             /\ pc'[e] = "end" => RowsOf(job[e], att[e])'
             /\ pc'[e] = "end" /\ outcome'[e] \in {"exit0", "exit1"}
                  => rows'[job'[e]].tasks = {att'[e]}
  <2>1. CASE Claim(e)
    <3>1. /\ job'[e] = trying[e] /\ trying[e] \in Jobs /\ status[trying[e]] = "queued"
          /\ pc'[e] = "start" /\ status'[trying[e]] = "running" /\ UNCHANGED result
      BY <1>a, <2>1 DEF Claim, ClaimRow, ExecInv, Phased, dataVars
    <3> QED BY <1>1, <1>2, <3>1, StatusFacts
  <2>2. ASSUME Owning(e), job'[e] = job[e], att'[e] = att[e], ~ Claim(e)
        PROVE  /\ result'[job'[e]].code = "none" /\ status'[job'[e]] # "timed_out"
               /\ pc'[e] = "end" => RowsOf(job[e], att[e])'
               /\ pc'[e] = "end" /\ outcome'[e] \in {"exit0", "exit1"}
                    => rows'[job'[e]].tasks = {att'[e]}
    <3> DEFINE j == job[e]
    <3>1. /\ pc[e] # "close" /\ ~ End(e) /\ (pc'[e] = "end" => pc[e] = "end" \/ Store(e))
          /\ pc'[e] = "end" => outcome'[e] = outcome[e]
      <4> USE <1>a, <1>2, <2>2 DEF Owning, Phases, Goto, At
      <4>1. CASE Still(e)
        BY <4>1 DEF Still, End
      <4>2. CASE Worker(e)
        BY <4>2 DEF Worker, Start, ChildExited, Heartbeat, Deadline, Stop, Store, End, Abort,
                    Close, Notify, Idle
      <4>3. CASE Failure(e)
        BY <4>3 DEF Failure, ScanFails, LeaveServe, StartFails, HeartbeatFails, StoreFails,
                    EndFails, AbortFails, Crash, Restart, Idle, workVars, End
      <4> QED BY <4>1, <4>2, <4>3, WhoMoves
    <3>2. /\ j \in Jobs /\ Guarded(j) /\ result[j].code = "none" /\ status[j] # "timed_out"
          /\ pc[e] = "end" => RowsOf(j, att[e])
          /\ pc[e] = "end" /\ outcome[e] \in {"exit0", "exit1"} => rows[j].tasks = {att[e]}
      BY <1>a, <1>2, <2>2, <3>1 DEF DataKept, ExecInv, Phased, Owning, Phases
    <3>3. /\ \A f \in Executors : End(f) => job[f] # j
          /\ \A f \in Executors : Store(f) /\ job[f] = j => f = e
      BY <1>b, <2>2, <3>1, <3>2
    <3>4. result'[j] = result[j] /\ status'[j] # "timed_out"
      BY <1>a, <3>2, <3>3, WhoWrites
    <3>5. ASSUME pc'[e] = "end"
          PROVE  /\ RowsOf(job[e], att[e])'
                 /\ outcome'[e] \in {"exit0", "exit1"} => rows'[j].tasks = {att[e]}
      <4>1. CASE Store(e)
        BY <2>2, <3>1, <3>2, <3>5, <4>1, StoresItsOwn
      <4>2. CASE ~ Store(e)
        <5>1. rows'[j] = rows[j] /\ pc[e] = "end"
          BY <1>a, <3>1, <3>2, <3>3, <3>5, <4>2, WhoWrites
        <5> QED BY <2>2, <3>1, <3>2, <3>5, <5>1 DEF RowsOf
      <4> QED BY <4>1, <4>2
    <3> QED BY <2>2, <3>2, <3>4, <3>5
  <2> QED BY <1>a, <1>2, <2>1, <2>2, OwningMoves
<1>3. ASSUME NEW j \in Jobs, Guarded(j)
      PROVE  /\ status'[j] \notin Terminal => result'[j].code = "none"
             /\ status'[j] = "timed_out" \/ result'[j].code # "none" => RowsOf(j, attempts[j])'
             /\ result'[j].verdict # "none" =>
                  result'[j].code # "none" /\ rows'[j].tasks = {attempts'[j]}
  <2>1. CASE \E e \in Executors : End(e) /\ job[e] = j
    <3>1. PICK e \in Executors : End(e) /\ job[e] = j
      BY <2>1
    <3>2. /\ result[j].code = "none" /\ status[j] # "timed_out" /\ RowsOf(j, attempts[j])
          /\ outcome[e] \in {"exit0", "exit1"} => rows[j].tasks = {attempts[j]}
          /\ result[j].verdict = "none"
      BY <1>3, <1>b, <3>1 DEF DataKept, End, At, Owning, Phases
    <3>3. UNCHANGED <<rows, attempts>> /\ RowsOf(j, attempts[j])'
      BY <1>a, <3>1, <3>2, EndWrites DEF RowsOf
    <3>4. CASE UNCHANGED <<status, result>>
      BY <3>2, <3>3, <3>4
    <3>5. ASSUME NEW to \in Terminal, NEW r \in Results,
                 status' = [status EXCEPT ![j] = to], result' = [result EXCEPT ![j] = r],
                 \/ r = result[j]
                 \/ /\ r.code = outcome[e] /\ outcome[e] \in Exits
                    /\ r.verdict = result[j].verdict \/ outcome[e] \in {"exit0", "exit1"}
          PROVE  /\ status'[j] \in Terminal
                 /\ result'[j].verdict # "none" =>
                      result'[j].code # "none" /\ rows'[j].tasks = {attempts'[j]}
      <4>1. status'[j] = to /\ result'[j] = r
        BY <1>a, <3>5
      <4> QED BY <3>2, <3>3, <3>5, <4>1 DEF Exits
    <3> QED BY <1>a, <3>1, <3>3, <3>4, <3>5, EndWrites
  <2>2. CASE ~ \E e \in Executors : End(e) /\ job[e] = j
    <3>1. result'[j] = result[j] /\ (status'[j] = "timed_out" => status[j] = "timed_out")
      BY <1>a, <2>2, WhoWrites
    <3>2. status[j] \in Terminal => status'[j] = status[j]
      BY <1>a, EndedStays
    <3>3. status[j] \notin Terminal => result[j].code = "none" /\ status[j] # "timed_out"
      BY <1>1, <1>3
    <3>4. ASSUME status[j] = "timed_out" \/ result[j].code # "none"
          PROVE  rows'[j] = rows[j] /\ attempts'[j] = attempts[j]
      <4>1. status[j] \in Terminal
        BY <1>3, <3>3, <3>4
      <4>2. attempts'[j] = attempts[j]
        BY <1>a, <4>1, EndedStays
      <4>3. ~ \E e \in Executors : Store(e) /\ job[e] = j
        BY <1>3, <3>4 DEF DataKept, Store, At, Owning, Phases
      <4>4. rows'[j] = rows[j]
        BY <1>a, <4>3, WhoWrites
      <4> QED BY <4>2, <4>4
    <3>5. /\ status[j] = "timed_out" \/ result[j].code # "none" => RowsOf(j, attempts[j])
          /\ result[j].verdict # "none" =>
               result[j].code # "none" /\ rows[j].tasks = {attempts[j]}
      BY <1>3 DEF DataKept
    <3> QED BY <3>1, <3>2, <3>3, <3>4, <3>5 DEF RowsOf
  <2> QED BY <2>1, <2>2
<1> QED BY <1>2, <1>3 DEF DataKept, Guarded

\* "terminal => the data is there": whoever reads a job that ended with an
\* outcome of its child finds the log and the results of that attempt and no
\* other, unless a child is left alone or two executors are with one job.
THEOREM DataComesFirst ==
  Orderly /\ (\A j \in Jobs : Guarded(j)) => (Spec => []DataBeforeEnd)
<1> SUFFICES ASSUME Orderly, \A j \in Jobs : Guarded(j) PROVE Spec => []DataBeforeEnd
  OBVIOUS
<1>1. Init => DataKept
  BY DEF Init, RepoInit, DataKept, NoResult, Owning, Phases
<1>2. OwnInv /\ ReportKept /\ DataKept /\ [Next]_vars => DataKept'
  BY DataStep
<1>3. DataKept => DataBeforeEnd
  BY DEF DataKept, DataBeforeEnd, RowsOf
<1> QED BY <1>1, <1>2, <1>3, OwnInvariant, ReportInvariant, PTL DEF Spec
=============================================================================
