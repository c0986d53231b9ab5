------------------------------- MODULE Runner -------------------------------
(* One run of the CLI: core/engine.py _execute and core/runner.py, with the *)
(* plan's layers (Plan) and the verdict (Gate).  The main thread takes the  *)
(* layers one after the other; it runs a task itself, or gives the tasks of *)
(* a layer to a pool of threads.  A thread runs a task by spawning a worker *)
(* process, at most twice.  SIGTERM interrupts the main thread wherever it  *)
(* is (core/cli.py); the executor that sent it kills the process tree when  *)
(* that takes too long (jobs/executor.py _stop).                            *)
EXTENDS Plan, Gate

CONSTANTS Tasks,       \* task ids
          Plans,       \* the plans, with their policy and the workers at hand
          Answers,     \* what a worker's process may answer
          NoTask,      \* the main thread runs no task itself
          Signals      \* bound: SIGTERMs the CLI may get (0 or 1)

\* plan adds to tasks, rank, deps and only: lane, unready (tasks no probed worker can
\* take), exclusive (parallel_safe is false), retry (retry.max > 0), egress (the
\* decision of the policy), maxParallel, and the policy of the gate.
ASSUME RunnerAssumption ==
  /\ NoTask \notin Tasks /\ Signals \in {0, 1}
  /\ \A p \in Plans :
       /\ p.tasks \subseteq Tasks /\ p.only \subseteq Tasks
       /\ p.rank \in [Tasks -> Nat] /\ \A s, t \in Tasks : p.rank[s] = p.rank[t] => s = t
       /\ p.deps \in [Tasks -> SUBSET Tasks]
       /\ p.lane \in [Tasks -> {"gate", "discovery"}]
       /\ p.egress \in [Tasks -> {"allow", "deny", "mask"}]
       /\ p.maxParallel \in Nat \ {0} /\ p.policy.onSkipped \in {"yellow", "fail"}
  /\ \A a \in Answers : a.result.status \in {"pass", "fail", "error", "skipped"}

VARIABLES plan,        \* the plan that is run
          phase,       \* "plan", "specs", "run", "judge", then "refused" or "ended"; or,
                       \*   after SIGTERM, "unwind" and "gone"
          specs,       \* the tasks whose specs/<task>.json is written
          completed,   \* the tasks of the layers begun so far
          queue,       \* those that the pool has still to start
          alone,       \* those that main has still to run itself
          inline,      \* the one it is running
          step,        \* where the thread of each task is
          attempt,     \* the attempt at it
          proc,        \* the worker process of each attempt
          said,        \* its answer
          active,      \* _ACTIVE
          lock,        \* the task whose thread holds _ACTIVE_LOCK, or NoTask
          log,         \* decisions of the egress policy on each task, each a line
                       \*   of egress.jsonl if the disk takes it
          result,      \* results/<task>.json
          gate,        \* the verdict of the report
          sig,         \* SIGTERM: "none", "taking", "killing", "raised"
          victims      \* the processes terminate_active has still to kill

ctlVars  == <<plan, specs, phase, completed, queue, alone, inline>>
taskVars == <<step, attempt, log, result>>
procVars == <<proc, said>>
lockVars == <<active, lock>>
sigVars  == <<sig, victims>>
vars == <<ctlVars, taskVars, procVars, lockVars, sigVars, gate>>

Runs  == Tasks \X {1, 2}
Steps == {"todo", "record", "spawn", "enlist", "enlisted", "wait", "delist", "delisted",
          "settle", "done"}

ErrorResult   == [status |-> "error", gating |-> FALSE, llm |-> FALSE, items |-> {}]
SkippedResult == [ErrorResult EXCEPT !.status = "skipped"]
NoResult      == [ErrorResult EXCEPT !.status = "none"]
Results       == {NoResult, ErrorResult, SkippedResult} \cup {a.result : a \in Answers}
\* A process that crashed, was killed or printed no valid JSON.
NoAnswer      == [valid |-> FALSE, over |-> FALSE, result |-> ErrorResult]

TypeOK ==
  /\ plan \in Plans
  /\ specs \subseteq Tasks
  /\ phase \in {"plan", "specs", "run", "judge", "ended", "refused", "unwind", "gone"}
  /\ completed \subseteq Tasks /\ queue \subseteq Tasks /\ alone \subseteq Tasks
  /\ inline \in Tasks \cup {NoTask}
  /\ step \in [Tasks -> Steps] /\ attempt \in [Tasks -> {1, 2}]
  /\ proc \in [Runs -> {"none", "alive", "exited", "killed"}]
  /\ said \in [Runs -> Answers \cup {NoAnswer}]
  /\ active \subseteq Runs /\ lock \in Tasks \cup {NoTask}
  /\ log \in [Tasks -> 0..2] /\ result \in [Tasks -> Results]
  /\ gate \in Verdicts \cup {"none"}
  /\ sig \in {"none", "taking", "killing", "raised"} /\ victims \subseteq Runs

Init ==
  /\ plan \in Plans
  /\ phase = "plan" /\ specs = {} /\ completed = {} /\ queue = {} /\ alone = {} /\ inline = NoTask
  /\ step = [t \in Tasks |-> "todo"] /\ attempt = [t \in Tasks |-> 1]
  /\ proc = [r \in Runs |-> "none"] /\ said = [r \in Runs |-> NoAnswer]
  /\ active = {} /\ lock = NoTask
  /\ log = [t \in Tasks |-> 0] /\ result = [t \in Tasks |-> NoResult]
  /\ gate = "none" /\ sig = "none" /\ victims = {}
-----------------------------------------------------------------------------
(* The main thread.                                                         *)

\* Between two bytecodes it may find itself in the signal handler instead.
MainRuns == phase = "run" /\ sig \notin {"taking", "killing"}
Pooled   == {t \in Tasks \ {inline} : step[t] \notin {"todo", "done"}}

\* The plan is refused before any worker runs, and the run directory removed.
Refuse ==
  /\ phase = "plan" /\ Refused(plan)
  /\ phase' = "refused"
  /\ UNCHANGED <<plan, specs, completed, queue, alone, inline, taskVars, procVars, lockVars, sigVars, gate>>

\* The tasks are resolved, the workers probed.
Resolve ==
  /\ phase = "plan" /\ ~Refused(plan)
  /\ phase' = "specs"
  /\ UNCHANGED <<plan, specs, completed, queue, alone, inline, taskVars, procVars, lockVars, sigVars, gate>>

\* specs/<task>.json of the selected tasks, one file after the other.
WriteSpec ==
  /\ phase = "specs"
  /\ \E t \in Tasks : FirstSelected(plan, plan.only \ specs, t) /\ specs' = specs \cup {t}
  /\ phase' = IF specs' = plan.only THEN "run" ELSE "specs"
  /\ UNCHANGED <<plan, completed, queue, alone, inline, taskVars, procVars, lockVars, sigVars, gate>>

\* The layer is done: the selected tasks of the next one go to the pool, the
\* exclusive ones to main; or all to main, if it is one task or max_parallel is 1.
NextLayer ==
  LET next    == Layer(plan, completed)
      current == next \cap plan.only
      shared  == plan.maxParallel > 1 /\ Cardinality(current) > 1
  IN
  /\ MainRuns /\ queue = {} /\ Pooled = {} /\ alone = {} /\ inline = NoTask
  /\ completed # plan.tasks
  /\ completed' = completed \cup next
  /\ queue' = IF shared THEN current \ plan.exclusive ELSE {}
  /\ alone' = IF shared THEN current \cap plan.exclusive ELSE current
  /\ UNCHANGED <<plan, specs, phase, inline, taskVars, procVars, lockVars, sigVars, gate>>

LastLayer ==
  /\ MainRuns /\ queue = {} /\ Pooled = {} /\ alone = {} /\ inline = NoTask
  /\ completed = plan.tasks
  /\ phase' = "judge"
  /\ UNCHANGED <<plan, specs, completed, queue, alone, inline, taskVars, procVars, lockVars, sigVars, gate>>

\* The files of the run directory: the results, and the lanes in the specs.
Files == [t \in {t \in Tasks : result[t] # NoResult} |-> result[t]]
Lanes == [t \in specs |-> plan.lane[t]]

\* normalize, judge and report.write.
Judge ==
  /\ phase = "judge"
  /\ gate' = Verdict(Files, Lanes, plan.policy)
  /\ phase' = "ended"
  /\ UNCHANGED <<plan, specs, completed, queue, alone, inline, taskVars, procVars, lockVars, sigVars>>
-----------------------------------------------------------------------------
(* The thread of a task: _run_task, _attempt and _spawn.                    *)

At(t, s)   == step[t] = s /\ IF t = inline THEN MainRuns ELSE phase \in {"run", "unwind"}
Now(t)     == <<t, attempt[t]>>
Goto(t, s) == step' = [step EXCEPT ![t] = s]

\* A worker can take it, and all that it depends on has passed.
Ready(t) == t \notin plan.unready /\ \A d \in plan.deps[t] : result[d].status = "pass"

\* A thread begins with a task: it is skipped, or a worker will be called.
Take(t) == IF Ready(t)
             THEN Goto(t, "record") /\ UNCHANGED result
             ELSE Goto(t, "done") /\ result' = [result EXCEPT ![t] = SkippedResult]

\* A thread of the pool takes the next task.
StartPooled ==
  /\ phase \in {"run", "unwind"}
  /\ Cardinality(Pooled) < plan.maxParallel
  /\ \E t \in queue : IsFirst(plan, queue, t) /\ Take(t) /\ queue' = queue \ {t}
  /\ UNCHANGED <<plan, specs, phase, completed, alone, inline, attempt, log, procVars, lockVars, sigVars, gate>>

\* Mutant: the pool is not shut down first.
StartAloneAtOnce ==
  /\ MainRuns /\ inline = NoTask
  /\ \E t \in alone : /\ IsFirst(plan, alone, t) /\ Take(t) /\ alone' = alone \ {t}
                      /\ inline' = IF Ready(t) THEN t ELSE NoTask
  /\ UNCHANGED <<plan, specs, phase, completed, queue, attempt, log, procVars, lockVars, sigVars, gate>>

\* Main runs a task itself, when the pool (if any) is shut down.
StartAlone ==
  /\ MainRuns /\ inline = NoTask /\ queue = {} /\ Pooled = {}
  /\ \E t \in alone : /\ IsFirst(plan, alone, t) /\ Take(t) /\ alone' = alone \ {t}
                      /\ inline' = IF Ready(t) THEN t ELSE NoTask
  /\ UNCHANGED <<plan, specs, phase, completed, queue, attempt, log, procVars, lockVars, sigVars, gate>>

\* The task is over: its result is written; main goes on to the next one.
Finish(t, res) ==
  /\ Goto(t, "done") /\ result' = [result EXCEPT ![t] = res]
  /\ inline' = IF t = inline THEN NoTask ELSE inline

\* Mutant: only the first attempt is recorded.
RecordFirst(t) ==
  /\ At(t, "record")
  /\ log' = [log EXCEPT ![t] = 1]
  /\ \/ plan.egress[t] = "allow" /\ Goto(t, "spawn")  /\ UNCHANGED <<result, inline>>
     \/ plan.egress[t] = "mask"  /\ Goto(t, "settle") /\ UNCHANGED <<result, inline>>
     \/ plan.egress[t] = "deny"  /\ Finish(t, SkippedResult)
  /\ UNCHANGED <<plan, specs, phase, completed, queue, alone, attempt, procVars, lockVars, sigVars, gate>>

\* egress.record, before each attempt; "mask" cannot be done and is an error.
Record(t) ==
  /\ At(t, "record")
  /\ log' = [log EXCEPT ![t] = @ + 1]
  /\ \/ plan.egress[t] = "allow" /\ Goto(t, "spawn")  /\ UNCHANGED <<result, inline>>
     \/ plan.egress[t] = "mask"  /\ Goto(t, "settle") /\ UNCHANGED <<result, inline>>
     \/ plan.egress[t] = "deny"  /\ Finish(t, SkippedResult)
  /\ UNCHANGED <<plan, specs, phase, completed, queue, alone, attempt, procVars, lockVars, sigVars, gate>>

\* Popen; or OSError.
Spawn(t) ==
  /\ At(t, "spawn")
  /\ \/ Goto(t, "enlist") /\ proc' = [proc EXCEPT ![Now(t)] = "alive"]
     \/ Goto(t, "settle") /\ UNCHANGED proc
  /\ UNCHANGED <<ctlVars, attempt, log, result, said, lockVars, sigVars, gate>>

\* with _ACTIVE_LOCK: _ACTIVE.add(proc)
Enlist(t) ==
  /\ At(t, "enlist") /\ lock = NoTask
  /\ lock' = t /\ active' = active \cup {Now(t)}
  /\ Goto(t, "enlisted")
  /\ UNCHANGED <<ctlVars, attempt, log, result, procVars, sigVars, gate>>

\* with _ACTIVE_LOCK: _ACTIVE.discard(proc)
Delist(t) ==
  /\ At(t, "delist") /\ lock = NoTask
  /\ lock' = t /\ active' = active \ {Now(t)}
  /\ Goto(t, "delisted")
  /\ UNCHANGED <<ctlVars, attempt, log, result, procVars, sigVars, gate>>

\* The end of either with statement.
Unlock(t) ==
  /\ \/ At(t, "enlisted") /\ Goto(t, "wait")
     \/ At(t, "delisted") /\ Goto(t, "settle")
  /\ lock' = NoTask
  /\ UNCHANGED <<ctlVars, attempt, log, result, procVars, active, sigVars, gate>>

\* communicate returns.
Collect(t) ==
  /\ At(t, "wait") /\ proc[Now(t)] # "alive"
  /\ Goto(t, "delist")
  /\ UNCHANGED <<ctlVars, attempt, log, result, procVars, lockVars, sigVars, gate>>

\* Mutant: communicate has no timeout.
NoTimeOut(t) == FALSE /\ UNCHANGED vars

\* Mutant: the worker is left running.
TimeOutUnkilled(t) ==
  /\ At(t, "wait") /\ proc[Now(t)] = "alive"
  /\ Goto(t, "delist")
  /\ UNCHANGED <<ctlVars, attempt, log, result, procVars, lockVars, sigVars, gate>>

\* communicate times out, and the worker is killed with its descendants.
TimeOut(t) ==
  /\ At(t, "wait") /\ proc[Now(t)] = "alive"
  /\ proc' = [proc EXCEPT ![Now(t)] = "killed"]
  /\ Goto(t, "delist")
  /\ UNCHANGED <<ctlVars, attempt, log, result, said, lockVars, sigVars, gate>>

\* validate_result and check_result_against_spec: a worker's answer that breaks
\* the contract is an error.
Outcome(t, a) ==
  LET r == a.result
  IN  IF a.valid /\ r.gating = (plan.lane[t] = "gate" /\ Ran(r)) THEN r ELSE ErrorResult

\* The rest of _run_task: the one retry, and only of an error; then the budget.
Settle(t) ==
  LET a == said[Now(t)]
      r == Outcome(t, a)
  IN
  /\ At(t, "settle")
  /\ IF r.status = "error" /\ t \in plan.retry /\ attempt[t] = 1
       THEN /\ attempt' = [attempt EXCEPT ![t] = 2]
            /\ Goto(t, "record") /\ UNCHANGED <<result, inline>>
       ELSE /\ Finish(t, IF a.over THEN ErrorResult ELSE r)
            /\ UNCHANGED attempt
  /\ UNCHANGED <<plan, specs, phase, completed, queue, alone, log, procVars, lockVars, sigVars, gate>>

\* A worker process ends by itself.
WorkerEnds(r) ==
  /\ proc[r] = "alive"
  /\ proc' = [proc EXCEPT ![r] = "exited"]
  /\ \E a \in Answers \cup {NoAnswer} : said' = [said EXCEPT ![r] = a]
  /\ UNCHANGED <<ctlVars, taskVars, lockVars, sigVars, gate>>
-----------------------------------------------------------------------------
(* SIGTERM: the handler of core/cli.py runs in the main thread.  Before and *)
(* after phase "run" there is no worker for it to kill.                     *)

Sigterm ==
  /\ MainRuns /\ sig = "none" /\ Signals = 1
  /\ sig' = "taking"
  /\ UNCHANGED <<ctlVars, taskVars, procVars, lockVars, victims, gate>>

\* terminate_active copies _ACTIVE under the lock, which is not reentrant: if
\* main itself holds it, the handler waits for ever.
HandlerTakes ==
  /\ phase = "run" /\ sig = "taking" /\ lock = NoTask
  /\ sig' = "killing" /\ victims' = active
  /\ UNCHANGED <<ctlVars, taskVars, procVars, lockVars, gate>>

\* kill_tree of one of them after the other.
HandlerKills ==
  /\ phase = "run" /\ sig = "killing"
  /\ \E r \in victims :
       /\ victims' = victims \ {r}
       /\ proc' = [proc EXCEPT ![r] = IF @ = "alive" THEN "killed" ELSE @]
  /\ UNCHANGED <<ctlVars, taskVars, said, lockVars, sig, gate>>

\* SystemExit: the task main was running is given up (its process leaves
\* _ACTIVE), but the shutdown of the pool waits for what it was given.
HandlerRaises ==
  /\ phase = "run" /\ sig = "killing" /\ victims = {}
  /\ sig' = "raised"
  /\ phase' = IF queue = {} /\ Pooled = {} THEN "gone" ELSE "unwind"
  /\ alone' = {} /\ inline' = NoTask
  /\ step' = [t \in Tasks |-> IF t = inline THEN "done" ELSE step[t]]
  /\ active' = {r \in active : r[1] # inline}
  /\ UNCHANGED <<plan, specs, completed, queue, attempt, log, result, procVars, lock, victims, gate>>

Unwound ==
  /\ phase = "unwind" /\ queue = {} /\ Pooled = {}
  /\ phase' = "gone"
  /\ UNCHANGED <<plan, specs, completed, queue, alone, inline, taskVars, procVars, lockVars, sigVars, gate>>

\* The CLI is not gone after the grace period: kill_tree of all of it.
KillTree ==
  /\ sig # "none" /\ phase \in {"run", "unwind"}
  /\ phase' = "gone"
  /\ proc' = [r \in Runs |-> IF proc[r] = "alive" THEN "killed" ELSE proc[r]]
  /\ UNCHANGED <<plan, specs, completed, queue, alone, inline, taskVars, said, lockVars, sigVars, gate>>
-----------------------------------------------------------------------------
Over == phase \in {"ended", "refused", "gone"}

Main == Refuse \/ Resolve \/ WriteSpec \/ NextLayer \/ LastLayer \/ StartAlone \/ Judge \/ Unwound

Thread(t) == \/ Record(t) \/ Spawn(t) \/ Enlist(t) \/ Delist(t) \/ Unlock(t)
             \/ Collect(t) \/ TimeOut(t) \/ Settle(t)

Handler == HandlerTakes \/ HandlerKills \/ HandlerRaises

Next == \/ Main \/ StartPooled \/ Handler \/ Sigterm \/ KillTree
        \/ \E t \in Tasks : Thread(t)
        \/ \E r \in Runs : WorkerEnds(r)
        \/ Over /\ UNCHANGED vars

Spec == Init /\ [][Next]_vars

\* Threads are scheduled, a lock that is free is got, communicate times out;
\* the executor that sends SIGTERM also kills in the end.  Nothing is assumed of
\* the worker processes.
Fairness == /\ WF_vars(Main) /\ WF_vars(StartPooled) /\ WF_vars(Handler) /\ WF_vars(KillTree)
            /\ \A t \in Tasks : WF_vars(Thread(t))

LiveSpec == Spec /\ Fairness
-----------------------------------------------------------------------------
(* Properties.                                                              *)

Alive(t)    == \E a \in {1, 2} : proc[<<t, a>>] = "alive"
Started(t)  == proc[<<t, 1>>] # "none"
Selected(l) == {t \in plan.only : plan.lane[t] = l}

\* The worker of a task is not started before all that the task depends on has
\* passed, in a layer before.
DepsRespected == \A t \in Tasks : Started(t) => \A d \in plan.deps[t] : result[d].status = "pass"

\* A task that is not parallel_safe has the machine to itself.
ExclusiveAlone ==
  \A t, u \in Tasks : t \in plan.exclusive /\ t # u /\ Alive(t) => ~Alive(u)

\* Nothing leaves the machine undecided: before each process is started, the
\* policy has been asked about this very attempt (egress.record).
EgressFirst == \A t \in Tasks : \A a \in {1, 2} : proc[<<t, a>>] # "none" => a <= log[t]

\* What a task comes to, by the answers of its processes, after others came to res.
InOrder(res, t) ==
  IF \/ t \in plan.unready \/ plan.egress[t] = "deny"
     \/ \E d \in plan.deps[t] : res[d].status # "pass"
  THEN SkippedResult
  ELSE LET first == Outcome(t, said[<<t, 1>>])
           a     == IF first.status = "error" /\ t \in plan.retry THEN 2 ELSE 1
       IN  IF said[<<t, a>>].over THEN ErrorResult ELSE Outcome(t, said[<<t, a>>])

\* Run one after the other in the order of the plan, with the same answers of
\* the workers, the tasks would have had these very results.
Sequential[t \in plan.tasks] == InOrder(Sequential, t)

SameAsSequential == phase = "ended" => \A t \in plan.only : result[t] = Sequential[t]

\* core/cli.py _rerender judges what is on disk, at the end or after a crash, by
\* the policy that the report quotes; a crashed run has no report, and then it
\* is the default.  --on-skipped-gate-task goes before either.
Fallback == [onSkipped |-> "yellow", blockOn |-> {"critical", "medium"}, default |-> "medium",
             overrides |-> <<>>]
RerenderPolicies ==
  LET quoted == IF phase = "ended" THEN plan.policy ELSE Fallback
  IN  {[onSkipped |-> o, blockOn |-> quoted.blockOn, default |-> quoted.default,
        overrides |-> quoted.overrides] : o \in {"yellow", "fail"}}

\* Whenever the files of a run are judged, at the end or after a crash at any
\* point: the gate opens over specs with a gate task only if all the specs are
\* there, each gate task was really judged by a process that ended by itself, or
\* was skipped and may be, and one of them at least was judged.
Judged(t) == \E a \in {1, 2} : LET r == said[<<t, a>>].result IN
               proc[<<t, a>>] = "exited" /\ r.gating /\ Ran(r) /\ result[t] = r
OpenMeansJudged ==
  \A p \in RerenderPolicies :
    GateTasks(Lanes) # {} /\ Verdict(Files, Lanes, p) # "BLOCKED" =>
      /\ specs = plan.only
      /\ \A t \in Selected("gate") :
           Judged(t) \/ (p.onSkipped = "yellow" /\ result[t].status = "skipped")
      /\ \E t \in Selected("gate") : Judged(t)

\* "Neither LLM nor discovery can supply blocking severity": whenever the files
\* of a run are judged, a gate that is closed stays closed without what LLMs and
\* discovery tasks found.
AdviceNeverBlocks ==
  \A p \in RerenderPolicies :
    Verdict(Files, Lanes, p) = "BLOCKED" =>
      Verdict(GateOnly(Files, Lanes), Lanes, p) = "BLOCKED"

\* A run that gets to its report leaves no worker behind.
NothingLeft == phase = "ended" => active = {} /\ \A t \in Tasks : ~Alive(t)

\* Every run ends, whatever its workers do and wherever SIGTERM finds it.
EveryRunEnds == <>Over

\* SIGTERM kills the workers that run, then the CLI exits with 143 (core/cli.py).
SigtermLeavesNone == phase = "gone" => \A t \in Tasks : ~Alive(t)
=============================================================================
