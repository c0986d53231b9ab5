---------------------------- MODULE RunnerProofs ----------------------------
(* Proofs about Gate, for every policy and every set of results, and about  *)
(* Runner, for any tasks, plans and answers of the workers.                 *)
EXTENDS Runner, TLAPS

-----------------------------------------------------------------------------
(* What the gate promises.                                                  *)

\* One finding that blocks is not an LLM's, so it is there without those too.
LEMMA BlockingIsUnadvised ==
  ASSUME NEW r, NEW lane, NEW policy,
         NEW f \in Findings(r, lane, policy), Blocks(f, lane, policy)
  PROVE  f \in Findings(Unadvised(r), lane, policy)
<1> DEFINE u == Unadvised(r)
<1>1. u.status = r.status /\ u.llm = r.llm /\ u.items = {i \in r.items : ~i.llm}
  BY DEF Unadvised
<1>2. ~f.llm /\ f.kind # "skipped"
  BY DEF Blocks
<1> HIDE DEF u
<1>3. CASE f \in {[kind |-> "item", hint |-> i.hint, rule |-> i.rule, llm |-> i.llm] :
                    i \in {i \in r.items : Ran(r)}}
  <2>1. PICK i \in r.items : Ran(r) /\ f = [kind |-> "item", hint |-> i.hint, rule |-> i.rule, llm |-> i.llm]
    BY <1>3
  <2>2. i \in u.items /\ Ran(u)
    BY <1>1, <1>2, <2>1 DEF Ran
  <2>3. f \in Findings(u, lane, policy)
    BY <2>1, <2>2 DEF Findings
  <2> QED
    BY <2>3 DEF u
<1>4. CASE /\ f = [kind |-> "failed", hint |-> "none", rule |-> "none", llm |-> r.llm]
           /\ r.status = "fail" /\ r.items = {}
  <2>1. u.items = {}
    BY <1>1, <1>4
  <2>2. f \in Findings(u, lane, policy)
    BY <1>1, <1>4, <2>1 DEF Findings
  <2> QED
    BY <2>2 DEF u
<1>5. CASE f = [kind |-> "skipped", hint |-> "low", rule |-> "none", llm |-> r.llm]
  BY <1>2, <1>5
<1> QED
  BY <1>3, <1>4, <1>5 DEF Findings

\* findings.py: "Neither LLM nor discovery can supply blocking severity".  What
\* blocks a set of results blocks what is left of it without the discovery tasks
\* and without the findings of LLMs.
THEOREM AdviceCannotBlock ==
  ASSUME NEW results, NEW lane, NEW policy, Blocked(results, lane, policy)
  PROVE  Blocked(GateOnly(results, lane), lane, policy)
<1> DEFINE only == GateOnly(results, lane)
<1>1. /\ DOMAIN only = DOMAIN results \cap GateTasks(lane)
      /\ \A t \in DOMAIN only : /\ only[t] = Unadvised(results[t])
                                /\ only[t].status = results[t].status
                                /\ only[t].gating = results[t].gating
  BY DEF GateOnly, Unadvised
<1> HIDE DEF only
<1>2. CASE InfraBlockers(results, lane, policy) # {}
  <2>1. InfraBlockers(only, lane, policy) = InfraBlockers(results, lane, policy)
    BY <1>1 DEF InfraBlockers
  <2> QED
    BY <1>2, <2>1 DEF Blocked, only
<1>3. CASE Ungated(results, lane)
  <2>1. Ungated(only, lane)
    BY <1>1, <1>3 DEF Ungated, Ran
  <2> QED
    BY <2>1 DEF Blocked, only
<1>4. CASE \E t \in DOMAIN lane \cap DOMAIN results :
             \E f \in Findings(results[t], lane[t], policy) : Blocks(f, lane[t], policy)
  <2>1. PICK t \in DOMAIN lane \cap DOMAIN results :
               \E f \in Findings(results[t], lane[t], policy) : Blocks(f, lane[t], policy)
    BY <1>4
  <2>2. PICK f \in Findings(results[t], lane[t], policy) : Blocks(f, lane[t], policy)
    BY <2>1
  <2>3. t \in DOMAIN only
    BY <1>1, <2>2 DEF Blocks, GateTasks
  <2>4. f \in Findings(only[t], lane[t], policy)
    BY <1>1, <2>2, <2>3, BlockingIsUnadvised
  <2> QED
    BY <2>2, <2>3, <2>4 DEF Blocked, only
<1> QED
  BY <1>2, <1>3, <1>4 DEF Blocked

\* A gate that is not closed has a result for each gate task; none of them is an
\* error, they are skipped only where the policy lets them, and one was judged.
THEOREM OpenGateHasResults ==
  ASSUME NEW results, NEW lane, NEW policy, ~Blocked(results, lane, policy),
         \A t \in DOMAIN results : results[t].status \in {"pass", "fail", "error", "skipped"}
  PROVE  /\ \A t \in GateTasks(lane) :
              /\ t \in DOMAIN results
              /\ Ran(results[t]) \/ (results[t].status = "skipped" /\ policy.onSkipped # "fail")
         /\ GateTasks(lane) # {} =>
              \E t \in GateTasks(lane) : results[t].gating /\ Ran(results[t])
<1>1. InfraBlockers(results, lane, policy) = {} /\ ~Ungated(results, lane)
  BY DEF Blocked
<1> QED
  BY <1>1 DEF InfraBlockers, Ungated, Ran
-----------------------------------------------------------------------------
(* How the runner orders its tasks.                                         *)

Busy(t)   == step[t] \notin {"todo", "done"}
PoolEmpty == \A t \in Tasks : Busy(t) => t = inline

\* Which tasks main and the pool have still to start, and who is running.
Ordered ==
  /\ queue \cup alone \subseteq completed /\ queue \cap alone = {}
  /\ \A t \in Tasks : t \in queue \cup alone \/ t \notin completed => step[t] = "todo"
  /\ queue \cap plan.exclusive = {}
  /\ \A t \in Tasks : Busy(t) /\ t \in plan.exclusive => t = inline
  /\ inline # NoTask => Busy(inline) /\ queue = {} /\ PoolEmpty
  /\ phase \in {"judge", "ended"} => queue = {} /\ PoolEmpty /\ inline = NoTask
  /\ phase = "unwind" => inline = NoTask

\* The decisions of the egress policy and the processes, attempt by attempt.
None(t, a) == proc[<<t, a>>] = "none"

CountedAt(t) ==
  /\ step[t] = "todo" => attempt[t] = 1
  /\ step[t] \in {"todo", "record"} => log[t] + 1 = attempt[t]
  /\ step[t] \notin {"todo", "record", "done"} => log[t] = attempt[t]
  /\ step[t] \in {"todo", "record", "spawn"} =>
       (attempt[t] = 1 => None(t, 1)) /\ (attempt[t] = 2 => None(t, 2))
  /\ attempt[t] = 1 => None(t, 2)
  /\ ~None(t, 1) => 1 <= log[t]
  /\ ~None(t, 2) => 2 <= log[t]

Counted == \A t \in Tasks : CountedAt(t)

Inv == TypeOK /\ Ordered /\ Counted

\* What core/schema.py make_result puts in the results it makes up.
LEMMA ResultFacts ==
  /\ NoResult.status = "none" /\ ErrorResult.status = "error" /\ SkippedResult.status = "skipped"
  /\ NoResult.gating = FALSE /\ ErrorResult.gating = FALSE /\ SkippedResult.gating = FALSE
  /\ NoResult \in Results /\ ErrorResult \in Results /\ SkippedResult \in Results
  /\ NoAnswer.valid = FALSE /\ NoAnswer.result = ErrorResult
BY DEF NoResult, ErrorResult, SkippedResult, Results, NoAnswer

\* The outcome of an attempt is a result.
LEMMA OutcomeType ==
  ASSUME NEW t \in Tasks, NEW a \in Answers \cup {NoAnswer}
  PROVE  Outcome(t, a) \in Results
BY ResultFacts DEF Outcome, Results

\* The gate always comes to one of the three verdicts.
LEMMA VerdictType ==
  ASSUME NEW results, NEW lane, NEW policy
  PROVE  Verdict(results, lane, policy) \in Verdicts
BY DEF Verdict, Verdicts

\* The pool as Runner has it.
LEMMA PooledIsBusy ==
  ASSUME TypeOK
  PROVE  (Pooled = {}) <=> PoolEmpty
BY DEF Pooled, PoolEmpty, Busy

\* A run starts with the invariant in place.
LEMMA InitInv == Init => Inv
<1> SUFFICES ASSUME Init PROVE Inv
  OBVIOUS
<1>1. TypeOK
  BY ResultFacts DEF Init, TypeOK, Steps, Runs, Verdicts
<1>2. Ordered
  BY DEF Init, Ordered, Busy, PoolEmpty
<1>3. Counted
  BY DEF Init, Counted, CountedAt, None, Runs
<1> QED
  BY <1>1, <1>2, <1>3 DEF Inv
-----------------------------------------------------------------------------
(* Types.                                                                   *)

\* The main thread and the pool keep the types.
LEMMA MainTypes == ASSUME Inv, Main \/ StartPooled PROVE TypeOK'
<1> USE RunnerAssumption, ResultFacts
    DEF Inv, TypeOK, ctlVars, taskVars, procVars, lockVars, sigVars
<1>1. ASSUME Refuse \/ Resolve \/ WriteSpec \/ LastLayer \/ Unwound PROVE TypeOK'
  BY <1>1 DEF Refuse, Resolve, WriteSpec, LastLayer, Unwound
<1>2. ASSUME NextLayer PROVE TypeOK'
  BY <1>2 DEF NextLayer, Layer
<1>3. ASSUME Judge PROVE TypeOK'
  BY <1>3, VerdictType DEF Judge
<1>4. ASSUME StartAlone PROVE TypeOK'
  BY <1>4 DEF StartAlone, Take, Goto, Steps
<1>5. ASSUME StartPooled PROVE TypeOK'
  BY <1>5 DEF StartPooled, Take, Goto, Steps
<1> QED
  BY <1>1, <1>2, <1>3, <1>4, <1>5 DEF Main

\* So does the thread of a task.
LEMMA ThreadTypes == ASSUME Inv, NEW t \in Tasks, Thread(t) PROVE TypeOK'
<1> USE RunnerAssumption, ResultFacts
    DEF Inv, TypeOK, At, Goto, Finish, ctlVars, taskVars, procVars, lockVars, sigVars
<1>0. Now(t) \in Runs
  BY DEF Now, Runs
<1>1. ASSUME Record(t) PROVE TypeOK'
  <2>1. step[t] = "record" /\ attempt[t] \in {1, 2} /\ log[t] \in 0..2
    BY <1>1 DEF Record
  <2>2. log[t] + 1 = attempt[t]
    BY <2>1 DEF Counted, CountedAt
  <2>3. log[t] + 1 \in 0..2
    BY <2>1, <2>2
  <2> QED
    BY <1>1, <2>3 DEF Record, Steps
<1>2. ASSUME Spawn(t) PROVE TypeOK'
  <2>1. UNCHANGED <<ctlVars, attempt, log, result, said, lockVars, sigVars, gate>>
    BY <1>2 DEF Spawn
  <2>2. step' \in [Tasks -> Steps]
    BY <1>2 DEF Spawn, Steps
  <2>3. proc' \in [Runs -> {"none", "alive", "exited", "killed"}]
    BY <1>0, <1>2 DEF Spawn
  <2> QED
    BY <2>1, <2>2, <2>3
<1>3. ASSUME Enlist(t) \/ Delist(t) PROVE TypeOK'
  BY <1>0, <1>3 DEF Enlist, Delist, Steps
<1>4. ASSUME Unlock(t) PROVE TypeOK'
  BY <1>4 DEF Unlock, Steps
<1>5. ASSUME Collect(t) \/ TimeOut(t) PROVE TypeOK'
  BY <1>0, <1>5 DEF Collect, TimeOut, Steps
<1>6. ASSUME Settle(t) PROVE TypeOK'
  <2>1. said[Now(t)] \in Answers \cup {NoAnswer}
    BY <1>0
  <2>2. Outcome(t, said[Now(t)]) \in Results
    BY <2>1, OutcomeType
  <2> DEFINE r   == Outcome(t, said[Now(t)])
             res == IF said[Now(t)].over THEN ErrorResult ELSE r
  <2>3. res \in Results
    BY <2>2
  <2>4. CASE attempt' = [attempt EXCEPT ![t] = 2] /\ Goto(t, "record") /\ UNCHANGED <<result, inline>>
    BY <1>6, <2>4 DEF Settle, Steps
  <2>5. CASE Finish(t, res) /\ UNCHANGED attempt
    <3> HIDE DEF res
    <3> QED BY <1>6, <2>3, <2>5 DEF Settle, Steps
  <2> QED
    BY <1>6, <2>4, <2>5 DEF Settle
<1> QED
  BY <1>1, <1>2, <1>3, <1>4, <1>5, <1>6 DEF Thread

\* So does every step.
LEMMA TypesStep == ASSUME Inv, [Next]_vars PROVE TypeOK'
<1> USE DEF Inv, TypeOK, ctlVars, taskVars, procVars, lockVars, sigVars
<1>1. ASSUME HandlerTakes \/ HandlerKills PROVE TypeOK'
  BY <1>1 DEF HandlerTakes, HandlerKills
<1>2. ASSUME HandlerRaises PROVE TypeOK'
  BY <1>2 DEF HandlerRaises, Steps
<1>3. ASSUME Sigterm \/ KillTree PROVE TypeOK'
  BY <1>3 DEF Sigterm, KillTree
<1>4. ASSUME NEW r \in Runs, WorkerEnds(r) PROVE TypeOK'
  BY <1>4 DEF WorkerEnds
<1>5. ASSUME UNCHANGED vars PROVE TypeOK'
  BY <1>5 DEF vars
<1> QED
  BY <1>1, <1>2, <1>3, <1>4, <1>5, MainTypes, ThreadTypes DEF Next, Handler
-----------------------------------------------------------------------------
(* Main and the pool share no task, and an exclusive one has no company.    *)

\* Main and the pool keep the order in which tasks are started.
LEMMA MainOrdered == ASSUME Inv, Main \/ StartPooled PROVE Ordered'
<1> USE RunnerAssumption
    DEF Inv, TypeOK, Ordered, Busy, PoolEmpty, ctlVars, taskVars, procVars, lockVars, sigVars
<1>1. ASSUME Refuse \/ Resolve \/ WriteSpec \/ Unwound PROVE Ordered'
  BY <1>1 DEF Refuse, Resolve, WriteSpec, Unwound
<1>2. ASSUME NextLayer PROVE Ordered'
  <2>1. PoolEmpty
    BY <1>2, PooledIsBusy DEF NextLayer
  <2> QED
    BY <1>2, <2>1 DEF NextLayer, Layer, MainRuns
<1>3. ASSUME LastLayer PROVE Ordered'
  <2>1. PoolEmpty
    BY <1>3, PooledIsBusy DEF LastLayer
  <2> QED
    BY <1>3, <2>1 DEF LastLayer
<1>4. ASSUME Judge PROVE Ordered'
  BY <1>4 DEF Judge
<1>5. ASSUME StartAlone PROVE Ordered'
  <2>1. PoolEmpty /\ inline = NoTask /\ queue = {} /\ phase = "run"
    BY <1>5, PooledIsBusy DEF StartAlone, MainRuns
  <2>2. PICK t \in alone : /\ Take(t) /\ alone' = alone \ {t}
                           /\ inline' = IF Ready(t) THEN t ELSE NoTask
    BY <1>5 DEF StartAlone
  <2>3. UNCHANGED <<plan, phase, completed, queue>>
    BY <1>5 DEF StartAlone
  <2> QED
    BY <2>1, <2>2, <2>3 DEF Take, Goto
<1>6. ASSUME StartPooled PROVE Ordered'
  <2>1. PICK t \in queue : Take(t) /\ queue' = queue \ {t}
    BY <1>6 DEF StartPooled
  <2>2. UNCHANGED <<plan, phase, completed, alone, inline>> /\ phase \in {"run", "unwind"}
    BY <1>6 DEF StartPooled
  <2>3. inline = NoTask
    BY <2>1
  <2> QED
    BY <2>1, <2>2, <2>3 DEF Take, Goto
<1> QED
  BY <1>1, <1>2, <1>3, <1>4, <1>5, <1>6 DEF Main

\* A thread goes on with its task, or is done with it.
LEMMA ThreadMoves ==
  ASSUME TypeOK, NEW t \in Tasks, Thread(t)
  PROVE  /\ Busy(t) /\ phase \in {"run", "unwind"}
         /\ UNCHANGED <<plan, specs, phase, completed, queue, alone>>
         /\ \A u \in Tasks \ {t} : step'[u] = step[u]
         /\ \/ step'[t] # "todo" /\ step'[t] # "done" /\ inline' = inline
            \/ step'[t] = "done" /\ inline' = IF t = inline THEN NoTask ELSE inline
<1> USE DEF TypeOK, At, Goto, Finish, Busy, MainRuns, ctlVars, taskVars
<1>1. CASE Record(t)
  BY <1>1 DEF Record
<1>2. CASE Spawn(t)
  BY <1>2 DEF Spawn
<1>3. CASE Enlist(t) \/ Delist(t)
  BY <1>3 DEF Enlist, Delist
<1>4. CASE Unlock(t)
  BY <1>4 DEF Unlock
<1>5. CASE Collect(t) \/ TimeOut(t)
  BY <1>5 DEF Collect, TimeOut
<1>6. CASE Settle(t)
  BY <1>6 DEF Settle
<1> QED
  BY <1>1, <1>2, <1>3, <1>4, <1>5, <1>6 DEF Thread

\* So does every step.
LEMMA OrderedStep == ASSUME Inv, [Next]_vars PROVE Ordered'
<1> USE RunnerAssumption
    DEF Inv, TypeOK, Ordered, Busy, PoolEmpty, ctlVars, taskVars, procVars, lockVars, sigVars
<1>1. ASSUME NEW t \in Tasks, Thread(t) PROVE Ordered'
  BY <1>1, ThreadMoves
<1>2. ASSUME HandlerTakes \/ HandlerKills \/ Sigterm \/ KillTree PROVE Ordered'
  BY <1>2 DEF HandlerTakes, HandlerKills, Sigterm, KillTree
<1>3. ASSUME HandlerRaises PROVE Ordered'
  BY <1>3 DEF HandlerRaises
<1>4. ASSUME NEW r \in Runs, WorkerEnds(r) PROVE Ordered'
  BY <1>4 DEF WorkerEnds
<1>5. ASSUME UNCHANGED vars PROVE Ordered'
  BY <1>5 DEF vars
<1> QED
  BY <1>1, <1>2, <1>3, <1>4, <1>5, MainOrdered DEF Next, Handler
-----------------------------------------------------------------------------
(* Each process was decided on.                                             *)

\* Steps that start no process, and take no task further than "done".
LEMMA CountedKept ==
  ASSUME TypeOK, Counted, UNCHANGED <<attempt, log>>,
         \A t \in Tasks : step'[t] \in {step[t], "done"},
         \A r \in Runs : proc'[r] = "none" <=> proc[r] = "none"
  PROVE  Counted'
<1>1. \A t \in Tasks : (None(t, 1)' <=> None(t, 1)) /\ (None(t, 2)' <=> None(t, 2))
  BY DEF None, Runs
<1> QED
  BY <1>1 DEF TypeOK, Counted, CountedAt

\* A thread that takes a task keeps its counts right.
LEMMA TakeCounted ==
  ASSUME TypeOK, Ordered, Counted, UNCHANGED <<attempt, log, proc>>,
         NEW t \in queue \cup alone, Take(t)
  PROVE  Counted'
<1>1. t \in Tasks /\ step[t] = "todo"
  BY DEF TypeOK, Ordered
<1>2. \A u \in Tasks : None(u, 1)' = None(u, 1) /\ None(u, 2)' = None(u, 2)
  BY DEF None
<1>3. /\ step'[t] \in {"record", "done"}
      /\ \A u \in Tasks \ {t} : step'[u] = step[u]
  BY <1>1 DEF TypeOK, Take, Goto
<1> QED
  BY <1>1, <1>2, <1>3 DEF Counted, CountedAt

\* The thread of a task changes nothing of the others.
LEMMA ThreadAside ==
  ASSUME TypeOK, NEW t \in Tasks, Thread(t), NEW u \in Tasks \ {t}
  PROVE  /\ step'[u] = step[u] /\ attempt'[u] = attempt[u] /\ log'[u] = log[u]
         /\ result'[u] = result[u] /\ said' = said
         /\ \A a \in {1, 2} : proc'[<<u, a>>] = proc[<<u, a>>]
<1> USE DEF TypeOK, At, Goto, Finish, ctlVars, taskVars, procVars
<1>0. <<u, 1>> \in Runs /\ <<u, 2>> \in Runs /\ <<u, 1>> # Now(t) /\ <<u, 2>> # Now(t)
  BY DEF Now, Runs
<1>1. CASE Record(t)
  BY <1>1 DEF Record
<1>2. CASE Spawn(t)
  BY <1>0, <1>2 DEF Spawn
<1>3. CASE Enlist(t) \/ Delist(t) \/ Unlock(t) \/ Collect(t)
  BY <1>3 DEF Enlist, Delist, Unlock, Collect
<1>4. CASE TimeOut(t)
  BY <1>0, <1>4 DEF TimeOut
<1>5. CASE Settle(t)
  BY <1>5 DEF Settle
<1> QED
  BY <1>1, <1>2, <1>3, <1>4, <1>5 DEF Thread

\* A task whose thread does not move keeps its counts.
LEMMA CountedAside ==
  ASSUME TypeOK, Counted, NEW t \in Tasks, Thread(t), NEW u \in Tasks \ {t}
  PROVE  CountedAt(u)'
<1>1. CountedAt(u)
  BY DEF Counted
<1>2. /\ step'[u] = step[u] /\ attempt'[u] = attempt[u] /\ log'[u] = log[u]
      /\ proc'[<<u, 1>>] = proc[<<u, 1>>] /\ proc'[<<u, 2>>] = proc[<<u, 2>>]
  BY ThreadAside
<1> QED
  BY <1>1, <1>2 DEF CountedAt, None

\* The thread of a task keeps its counts right: one decision for each attempt.
LEMMA ThreadCounted == ASSUME Inv, NEW t \in Tasks, Thread(t) PROVE CountedAt(t)'
<1> USE DEF At, Goto, Finish
<1>0. /\ CountedAt(t) /\ <<t, 1>> \in Runs /\ <<t, 2>> \in Runs /\ attempt[t] \in {1, 2}
      /\ log \in [Tasks -> 0..2] /\ step \in [Tasks -> Steps] /\ attempt \in [Tasks -> {1, 2}]
      /\ proc \in [Runs -> {"none", "alive", "exited", "killed"}]
  BY DEF Inv, TypeOK, Counted, Runs
<1>1. CASE Record(t)
  <2>1. /\ step[t] = "record" /\ log'[t] = log[t] + 1 /\ step'[t] \in {"spawn", "settle", "done"}
        /\ UNCHANGED <<attempt, proc>>
    BY <1>0, <1>1 DEF Record, procVars
  <2> QED
    BY <1>0, <2>1 DEF CountedAt, None
<1>2. CASE Spawn(t)
  <2>1. step[t] = "spawn" /\ step'[t] \in {"enlist", "settle"} /\ UNCHANGED <<attempt, log>>
    BY <1>0, <1>2 DEF Spawn
  <2>2. attempt[t] = 1 => None(t, 2)'
    BY <1>0, <1>2 DEF Spawn, Now, None, CountedAt
  <2> QED
    BY <1>0, <2>1, <2>2 DEF CountedAt
<1>3. CASE Enlist(t) \/ Delist(t) \/ Unlock(t) \/ Collect(t)
  <2>1. UNCHANGED <<attempt, log, proc>> /\ step[t] \notin {"todo", "record", "spawn", "done"}
    BY <1>3 DEF Enlist, Delist, Unlock, Collect, procVars
  <2>2. step'[t] \in {"enlisted", "wait", "delist", "delisted", "settle"}
    BY <1>0, <1>3 DEF Enlist, Delist, Unlock, Collect
  <2> QED
    BY <1>0, <2>1, <2>2 DEF CountedAt, None
<1>4. CASE TimeOut(t)
  <2>1. (None(t, 1)' <=> None(t, 1)) /\ (None(t, 2)' <=> None(t, 2))
    BY <1>0, <1>4 DEF TimeOut, Now, None
  <2>2. step[t] = "wait" /\ step'[t] = "delist" /\ UNCHANGED <<attempt, log>>
    BY <1>0, <1>4 DEF TimeOut
  <2> QED
    BY <1>0, <2>1, <2>2 DEF CountedAt
<1>5. CASE Settle(t)
  <2>1. step[t] = "settle" /\ UNCHANGED <<log, proc>>
    BY <1>5 DEF Settle, procVars
  <2>2. \/ attempt[t] = 1 /\ attempt'[t] = 2 /\ step'[t] = "record"
        \/ attempt'[t] = attempt[t] /\ step'[t] = "done"
    BY <1>0, <1>5 DEF Settle
  <2> QED
    BY <1>0, <2>1, <2>2 DEF CountedAt, None
<1> QED
  BY <1>1, <1>2, <1>3, <1>4, <1>5 DEF Thread

\* So does every step.
LEMMA CountedStep == ASSUME Inv, [Next]_vars PROVE Counted'
<1> USE DEF Inv, TypeOK, ctlVars, taskVars, procVars, lockVars, sigVars
<1>1. CASE StartAlone \/ StartPooled
  BY <1>1, TakeCounted DEF StartAlone, StartPooled
<1>2. CASE Refuse \/ Resolve \/ WriteSpec \/ NextLayer \/ LastLayer \/ Judge \/ Unwound
  BY <1>2, CountedKept DEF Refuse, Resolve, WriteSpec, NextLayer, LastLayer, Judge, Unwound
<1>3. CASE HandlerTakes \/ HandlerKills \/ Sigterm \/ KillTree
  BY <1>3, CountedKept DEF HandlerTakes, HandlerKills, Sigterm, KillTree
<1>4. CASE HandlerRaises
  BY <1>4, CountedKept DEF HandlerRaises
<1>5. ASSUME NEW r \in Runs, WorkerEnds(r) PROVE Counted'
  BY <1>5, CountedKept DEF WorkerEnds
<1>6. CASE UNCHANGED vars
  BY <1>6, CountedKept DEF vars
<1>7. ASSUME NEW t \in Tasks, Thread(t) PROVE Counted'
  BY <1>7, ThreadCounted, CountedAside DEF Counted
<1> QED
  BY <1>1, <1>2, <1>3, <1>4, <1>5, <1>6, <1>7 DEF Next, Main, Handler

\* The inductive invariant of the types and of the two properties after it.
THEOREM RunnerInvariant == Spec => []Inv
<1>1. Inv /\ [Next]_vars => Inv'
  BY TypesStep, OrderedStep, CountedStep DEF Inv
<1> QED
  BY InitInv, <1>1, PTL DEF Spec

\* Every variable of a run stays in its type; no task is attempted three times.
THEOREM Types == Spec => []TypeOK
<1>1. Inv => TypeOK
  BY DEF Inv
<1> QED
  BY RunnerInvariant, <1>1, PTL

\* No process is started, at the first attempt or the retry, before the egress
\* policy was asked about that attempt.
THEOREM NoEgressUndecided == Spec => []EgressFirst
<1>1. Inv => EgressFirst
  BY DEF Inv, Counted, CountedAt, None, EgressFirst
<1> QED
  BY RunnerInvariant, <1>1, PTL

\* What LLMs and discovery tasks found never closes a gate, at any point of a
\* run at which its results are judged.
THEOREM AdviceIsNoBlocker == Spec => []AdviceNeverBlocks
<1>1. AdviceNeverBlocks
  BY AdviceCannotBlock DEF AdviceNeverBlocks, Verdict
<1> QED
  BY <1>1, PTL
-----------------------------------------------------------------------------
(* The processes.  A worker is alive only while its thread is between Popen *)
(* and the end of communicate, and in _ACTIVE a little longer; until the    *)
(* CLI is gone.                                                             *)

Watched ==
  \A t \in Tasks, a \in {1, 2} :
    /\ proc[<<t, a>>] = "alive" =>
         phase = "gone" \/ (a = attempt[t] /\ step[t] \in {"enlist", "enlisted", "wait"})
    /\ <<t, a>> \in active =>
         phase = "gone" \/ (a = attempt[t] /\ step[t] \in {"enlisted", "wait", "delist"})

\* Steps that start no process and move no thread.
LEMMA WatchedKept ==
  ASSUME Watched, UNCHANGED <<step, attempt, active>>, phase = "gone" => phase' = "gone",
         \A r \in Runs : proc'[r] = "alive" => proc[r] = "alive"
  PROVE  Watched'
<1>1. \A t \in Tasks, a \in {1, 2} : <<t, a>> \in Runs
  BY DEF Runs
<1> QED
  BY <1>1 DEF Watched

\* A thread that takes a task neither has a process nor starts one.
LEMMA TakeWatched ==
  ASSUME TypeOK, Ordered, Watched, phase # "gone", UNCHANGED <<phase, attempt, active, proc>>,
         NEW t \in queue \cup alone, Take(t)
  PROVE  Watched'
<1>1. step[t] = "todo" /\ t \in Tasks
  BY DEF TypeOK, Ordered
<1>2. step' \in {[step EXCEPT ![t] = "record"], [step EXCEPT ![t] = "done"]}
  BY DEF Take, Goto
<1>3. step \in [Tasks -> Steps]
  BY DEF TypeOK
<1>4. \A a \in {1, 2} : proc[<<t, a>>] # "alive" /\ <<t, a>> \notin active
  BY <1>1 DEF Watched
<1>5. \A u \in Tasks \ {t} : step'[u] = step[u]
  BY <1>2, <1>3
<1> QED
  BY <1>4, <1>5 DEF Watched

\* The thread of a task keeps its processes enlisted for as long as it waits for them.
LEMMA ThreadWatched == ASSUME Inv, Watched, NEW t \in Tasks, Thread(t) PROVE Watched'
<1> USE DEF At, Goto, Finish
<1>0. /\ <<t, 1>> \in Runs /\ <<t, 2>> \in Runs /\ attempt[t] \in {1, 2} /\ active \subseteq Runs
      /\ step \in [Tasks -> Steps] /\ attempt \in [Tasks -> {1, 2}]
      /\ proc \in [Runs -> {"none", "alive", "exited", "killed"}]
      /\ phase \in {"run", "unwind"} /\ phase' = phase
  BY ThreadMoves DEF Inv, TypeOK, Runs
<1>1. ASSUME NEW u \in Tasks \ {t}, NEW a \in {1, 2}
      PROVE  /\ step'[u] = step[u] /\ attempt'[u] = attempt[u] /\ proc'[<<u, a>>] = proc[<<u, a>>]
             /\ <<u, a>> \in active' <=> <<u, a>> \in active
  <2>1. step'[u] = step[u] /\ attempt'[u] = attempt[u] /\ proc'[<<u, a>>] = proc[<<u, a>>]
    BY ThreadAside DEF Inv
  <2>2. <<u, a>> \in active' <=> <<u, a>> \in active
    BY DEF Thread, Record, Spawn, Enlist, Delist, Unlock, Collect, TimeOut, Settle, lockVars, Now
  <2> QED
    BY <2>1, <2>2
<1>2. ASSUME NEW a \in {1, 2}
      PROVE  /\ proc'[<<t, a>>] = "alive" =>
                  a = attempt'[t] /\ step'[t] \in {"enlist", "enlisted", "wait"}
             /\ <<t, a>> \in active' =>
                  a = attempt'[t] /\ step'[t] \in {"enlisted", "wait", "delist"}
  <2>0. /\ proc[<<t, a>>] = "alive" => a = attempt[t] /\ step[t] \in {"enlist", "enlisted", "wait"}
        /\ <<t, a>> \in active => a = attempt[t] /\ step[t] \in {"enlisted", "wait", "delist"}
        /\ <<t, a>> \in Runs
    BY <1>0 DEF Watched, Runs
  <2>1. CASE Record(t) \/ Settle(t)
    <3>1. UNCHANGED <<proc, active>> /\ step[t] \in {"record", "settle"}
      BY <2>1 DEF Record, Settle, procVars, lockVars
    <3> QED
      BY <2>0, <3>1
  <2>2. CASE Spawn(t)
    <3>1. step[t] = "spawn" /\ step'[t] \in {"enlist", "settle"} /\ UNCHANGED <<attempt, active>>
      BY <1>0, <2>2 DEF Spawn, lockVars
    <3>2. proc'[<<t, a>>] = "alive" => a = attempt[t] /\ step'[t] = "enlist"
      BY <1>0, <2>0, <2>2, <3>1 DEF Spawn, Now
    <3> QED
      BY <2>0, <3>1, <3>2
  <2>3. CASE Enlist(t)
    BY <1>0, <2>0, <2>3 DEF Enlist, Now, procVars
  <2>4. CASE Delist(t)
    BY <1>0, <2>0, <2>4 DEF Delist, Now, procVars
  <2>5. CASE Unlock(t)
    BY <1>0, <2>0, <2>5 DEF Unlock, procVars
  <2>6. CASE Collect(t)
    BY <1>0, <2>0, <2>6 DEF Collect, Now, procVars, lockVars
  <2>7. CASE TimeOut(t)
    BY <1>0, <2>0, <2>7 DEF TimeOut, Now, lockVars
  <2> QED
    BY <2>1, <2>2, <2>3, <2>4, <2>5, <2>6, <2>7 DEF Thread
<1>3. ASSUME NEW v \in Tasks, NEW a \in {1, 2}
      PROVE  /\ proc'[<<v, a>>] = "alive" =>
                  phase' = "gone" \/ (a = attempt'[v] /\ step'[v] \in {"enlist", "enlisted", "wait"})
             /\ <<v, a>> \in active' =>
                  phase' = "gone" \/ (a = attempt'[v] /\ step'[v] \in {"enlisted", "wait", "delist"})
  <2>1. CASE v = t
    BY <1>2, <2>1
  <2>2. CASE v # t
    <3>1. /\ step'[v] = step[v] /\ attempt'[v] = attempt[v] /\ proc'[<<v, a>>] = proc[<<v, a>>]
          /\ <<v, a>> \in active' <=> <<v, a>> \in active
      BY <1>1, <2>2
    <3> QED
      BY <1>0, <3>1 DEF Watched
  <2> QED
    BY <2>1, <2>2
<1> QED
  BY <1>3 DEF Watched

\* So does every step.
LEMMA WatchedStep == ASSUME Inv, Watched, [Next]_vars PROVE Watched'
<1> USE DEF ctlVars, taskVars, procVars, lockVars, sigVars
<1>0. proc \in [Runs -> {"none", "alive", "exited", "killed"}] /\ step \in [Tasks -> Steps]
  BY DEF Inv, TypeOK
<1>1. CASE StartAlone \/ StartPooled
  <2>1. PICK t \in queue \cup alone : Take(t)
    BY <1>1 DEF StartAlone, StartPooled
  <2>2. phase # "gone" /\ UNCHANGED <<phase, attempt, active, proc>>
    BY <1>1 DEF StartAlone, StartPooled, MainRuns
  <2>3. TypeOK /\ Ordered
    BY DEF Inv
  <2> QED
    BY <2>1, <2>2, <2>3, TakeWatched, Zenon
<1>2. CASE Refuse \/ Resolve \/ WriteSpec \/ NextLayer \/ LastLayer \/ Judge \/ Unwound
  BY <1>2, WatchedKept DEF Refuse, Resolve, WriteSpec, NextLayer, LastLayer, Judge, Unwound, MainRuns
<1>3. CASE HandlerTakes \/ HandlerKills \/ Sigterm \/ KillTree
  BY <1>0, <1>3, WatchedKept DEF HandlerTakes, HandlerKills, Sigterm, KillTree
<1>4. CASE HandlerRaises
  <2>1. CASE inline = NoTask
    <3>1. \A t \in Tasks : step'[t] = step[t]
      BY <1>0, <1>4, <2>1, RunnerAssumption DEF HandlerRaises
    <3> QED
      BY <1>4, <3>1 DEF HandlerRaises, Watched
  <2>2. CASE inline # NoTask
    <3>1. queue = {} /\ Pooled = {}
      BY <2>2, PooledIsBusy DEF Inv, Ordered
    <3> QED
      BY <1>4, <3>1 DEF HandlerRaises, Watched
  <2> QED
    BY <2>1, <2>2
<1>5. ASSUME NEW r \in Runs, WorkerEnds(r) PROVE Watched'
  BY <1>0, <1>5, WatchedKept DEF WorkerEnds
<1>6. CASE UNCHANGED vars
  BY <1>6, WatchedKept DEF vars
<1> QED
  BY <1>1, <1>2, <1>3, <1>4, <1>5, <1>6, ThreadWatched DEF Next, Main, Handler

\* Only Popen adds a worker to those that are alive.
LEMMA OnlySpawnStarts ==
  ASSUME TypeOK, [Next]_vars, NEW t \in Tasks, NEW a \in {1, 2},
         proc[<<t, a>>] \in {"none", "exited", "killed"}, proc'[<<t, a>>] = "alive"
  PROVE  Spawn(t)
<1> USE DEF TypeOK, ctlVars, taskVars, procVars, lockVars, sigVars
<1>0. <<t, a>> \in Runs
  BY DEF Runs
<1>1. ASSUME NEW u \in Tasks, Thread(u) PROVE Spawn(t)
  <2>1. u = t
    BY <1>1, ThreadAside
  <2>2. CASE TimeOut(u)
    BY <1>0, <2>2 DEF TimeOut
  <2>3. CASE Record(u) \/ Enlist(u) \/ Delist(u) \/ Unlock(u) \/ Collect(u) \/ Settle(u)
    BY <2>3 DEF Record, Enlist, Delist, Unlock, Collect, Settle
  <2> QED
    BY <1>1, <2>1, <2>2, <2>3 DEF Thread
<1>2. CASE Main \/ StartPooled
  BY <1>2 DEF Main, Refuse, Resolve, WriteSpec, NextLayer, LastLayer, StartAlone, StartPooled, Judge, Unwound
<1>3. CASE Handler \/ Sigterm \/ KillTree
  BY <1>0, <1>3 DEF Handler, HandlerTakes, HandlerKills, HandlerRaises, Sigterm, KillTree
<1>4. ASSUME NEW r \in Runs, WorkerEnds(r) PROVE Spawn(t)
  BY <1>0, <1>4 DEF WorkerEnds
<1>5. CASE UNCHANGED vars
  BY <1>5 DEF vars
<1> QED
  BY <1>1, <1>2, <1>3, <1>4, <1>5 DEF Next

\* Whoever starts a worker runs, and so does whoever's worker is alive; an
\* exclusive task runs only in main, when the pool is empty.
LEMMA ExclusiveStep ==
  ASSUME Inv, Watched, ExclusiveAlone, [Next]_vars
  PROVE  ExclusiveAlone'
<1> SUFFICES ASSUME NEW t \in Tasks, NEW u \in Tasks, t \in plan'.exclusive, t # u,
                    Alive(t)', Alive(u)'
             PROVE  FALSE
  BY DEF ExclusiveAlone
<1>1. plan' = plan
  BY ThreadMoves DEF Inv, Next, Main, Refuse, Resolve, WriteSpec, NextLayer, LastLayer, StartAlone, StartPooled,
     Judge, Unwound, Handler, HandlerTakes, HandlerKills, HandlerRaises, Sigterm, KillTree,
     WorkerEnds, vars, ctlVars
<1>2. ASSUME NEW v \in Tasks, Alive(v)' PROVE Alive(v) \/ Spawn(v)
  <2>1. PICK a \in {1, 2} : proc'[<<v, a>>] = "alive"
    BY <1>2 DEF Alive
  <2>2. proc[<<v, a>>] \in {"none", "alive", "exited", "killed"}
    BY DEF Inv, TypeOK, Runs
  <2> QED
    BY <2>1, <2>2, OnlySpawnStarts DEF Alive, Inv
<1>3. ASSUME NEW v \in Tasks, Spawn(v) PROVE phase # "gone" /\ Busy(v)
  BY <1>3 DEF Spawn, At, MainRuns, Busy
<1>4. ASSUME NEW v \in Tasks, Alive(v), phase # "gone" PROVE Busy(v)
  BY <1>4 DEF Alive, Watched, Busy
<1>5. CASE Alive(t) /\ Alive(u)
  BY <1>1, <1>5 DEF ExclusiveAlone
<1>6. CASE Spawn(t) \/ Spawn(u)
  <2>1. Busy(t) /\ Busy(u)
    BY <1>2, <1>3, <1>4, <1>6
  <2>2. t = inline
    BY <1>1, <2>1 DEF Inv, Ordered
  <2>3. PoolEmpty
    BY <2>2, RunnerAssumption DEF Inv, Ordered
  <2> QED
    BY <2>1, <2>2, <2>3 DEF PoolEmpty
<1> QED
  BY <1>2, <1>5, <1>6

\* A task that is not parallel_safe never has company, whatever the layers, the
\* pool and SIGTERM do.
THEOREM ExclusiveTasksRunAlone == Spec => []ExclusiveAlone
<1>1. Init => Watched /\ ExclusiveAlone
  BY DEF Init, Watched, ExclusiveAlone, Alive, Runs
<1>2. Inv /\ Watched /\ ExclusiveAlone /\ [Next]_vars => Watched' /\ ExclusiveAlone'
  BY WatchedStep, ExclusiveStep
<1> QED
  BY RunnerInvariant, <1>1, <1>2, PTL DEF Spec

\* A run that gets to its report has no worker left, alive or in _ACTIVE.
THEOREM ReportLeavesNothing == Spec => []NothingLeft
<1>1. Init => Watched
  BY DEF Init, Watched, Runs
<1>2. Inv /\ Watched /\ [Next]_vars => Watched'
  BY WatchedStep
<1>3. Inv /\ Watched => NothingLeft
  <2> SUFFICES ASSUME Inv, Watched, phase = "ended" PROVE active = {} /\ \A t \in Tasks : ~Alive(t)
    BY DEF NothingLeft
  <2>1. \A t \in Tasks : ~Busy(t)
    BY RunnerAssumption DEF Inv, Ordered, PoolEmpty
  <2>2. \A t \in Tasks : ~Alive(t)
    BY <2>1 DEF Alive, Watched, Busy
  <2>3. \A t \in Tasks, a \in {1, 2} : <<t, a>> \notin active
    BY <2>1 DEF Watched, Busy
  <2>4. ASSUME NEW r \in active PROVE FALSE
    <3>1. PICK t \in Tasks, a \in {1, 2} : r = <<t, a>>
      BY <2>4 DEF Inv, TypeOK, Runs
    <3> QED
      BY <2>3, <2>4, <3>1
  <2> QED
    BY <2>2, <2>4
<1> QED
  BY RunnerInvariant, <1>1, <1>2, <1>3, PTL DEF Spec
-----------------------------------------------------------------------------
(* The results.  One is written when its task is done, and never again.     *)

Recorded == \A t \in Tasks : result[t] # NoResult => step[t] = "done"

\* What a task depends on passed before it was taken.
Needed == \A t \in Tasks : Busy(t) \/ Started(t) =>
                            \A d \in plan.deps[t] : result[d].status = "pass"

\* An answer comes from a process that ended by itself.
Spoken == \A t \in Tasks, a \in {1, 2} :
            proc[<<t, a>>] = "exited" \/ said[<<t, a>>] = NoAnswer

\* A result is the core's own, or what a process answered and the contract let
\* through.
Reported(t) ==
  \/ result[t] \in {NoResult, ErrorResult, SkippedResult}
  \/ \E a \in {1, 2} :
       /\ proc[<<t, a>>] = "exited" /\ result[t] = said[<<t, a>>].result
       /\ result[t].gating = (plan.lane[t] = "gate" /\ Ran(result[t]))

Answered == Recorded /\ Needed /\ Spoken /\ \A t \in Tasks : Reported(t)

\* Steps that write no result, take no task and start no process.
LEMMA AnsweredKept ==
  ASSUME TypeOK, Answered, UNCHANGED <<plan, result>>,
         \A t \in Tasks : step'[t] = step[t] \/ (Busy(t) /\ step'[t] # "todo"),
         \A t \in Tasks, a \in {1, 2} :
           /\ proc[<<t, a>>] = "exited" => proc'[<<t, a>>] = "exited" /\ said'[<<t, a>>] = said[<<t, a>>]
           /\ proc'[<<t, a>>] = "exited" \/ said'[<<t, a>>] = NoAnswer
           /\ proc'[<<t, a>>] # "none" => proc[<<t, a>>] # "none" \/ Busy(t)
  PROVE  Answered'
<1>1. Recorded'
  BY DEF Answered, Recorded, Busy
<1>2. Needed'
  <2> SUFFICES ASSUME NEW t \in Tasks, Busy(t)' \/ Started(t)', NEW d \in plan.deps[t]
               PROVE  result[d].status = "pass"
    BY DEF Needed
  <2>1. Busy(t) \/ Started(t)
    BY DEF Busy, Started
  <2> QED
    BY <2>1 DEF Answered, Needed
<1>3. Spoken'
  BY DEF Spoken
<1>4. ASSUME NEW t \in Tasks PROVE Reported(t)'
  <2>1. Reported(t)
    BY DEF Answered
  <2> QED
    BY <2>1 DEF Reported, Ran
<1> QED
  BY <1>1, <1>2, <1>3, <1>4 DEF Answered

\* Steps that write the result of one task that had none, and start no process.
LEMMA AnsweredOnce ==
  ASSUME TypeOK, Answered, UNCHANGED <<plan, proc, said>>, NEW t \in Tasks, step[t] # "done",
         step'[t] = "done", \A u \in Tasks \ {t} : step'[u] = step[u] /\ result'[u] = result[u],
         Reported(t)'
  PROVE  Answered'
<1>1. Recorded'
  BY DEF Answered, Recorded
<1>2. result[t].status # "pass"
  BY ResultFacts DEF Answered, Recorded
<1>3. Needed'
  <2> SUFFICES ASSUME NEW u \in Tasks, Busy(u)' \/ Started(u)', NEW d \in plan.deps[u]
               PROVE  result'[d].status = "pass"
    BY DEF Needed
  <2>1. Busy(u) \/ Started(u)
    BY DEF Busy, Started
  <2>2. result[d].status = "pass" /\ d \in Tasks
    BY <2>1, RunnerAssumption DEF Answered, Needed, TypeOK
  <2> QED
    BY <1>2, <2>2
<1>4. Spoken'
  BY DEF Answered, Spoken
<1>5. ASSUME NEW u \in Tasks PROVE Reported(u)'
  <2>1. Reported(u)
    BY DEF Answered
  <2>2. CASE u # t
    BY <2>1, <2>2 DEF Reported, Ran
  <2> QED
    BY <2>2
<1> QED
  BY <1>1, <1>3, <1>4, <1>5 DEF Answered

\* A thread that takes a task skips it, or has everything passed that it depends on.
LEMMA TakeAnswered ==
  ASSUME TypeOK, Ordered, Counted, Answered, UNCHANGED <<plan, proc, said>>,
         NEW t \in queue \cup alone, Take(t)
  PROVE  Answered'
<1>0. t \in Tasks /\ step[t] = "todo" /\ step \in [Tasks -> Steps] /\ result \in [Tasks -> Results]
  BY DEF TypeOK, Ordered
<1>1. CASE Ready(t)
  <2>1. step' = [step EXCEPT ![t] = "record"] /\ result' = result
    BY <1>1 DEF Take, Goto
  <2>2. Recorded'
    BY <1>0, <2>1 DEF Answered, Recorded
  <2>3. Needed'
    BY <1>0, <1>1, <2>1 DEF Answered, Needed, Ready, Busy, Started
  <2>4. Spoken'
    BY DEF Answered, Spoken
  <2>5. ASSUME NEW u \in Tasks PROVE Reported(u)'
    <3>1. Reported(u)
      BY DEF Answered
    <3> QED
      BY <2>1, <3>1 DEF Reported, Ran
  <2> QED
    BY <2>2, <2>3, <2>4, <2>5 DEF Answered
<1>2. CASE ~Ready(t)
  <2>1. step' = [step EXCEPT ![t] = "done"] /\ result' = [result EXCEPT ![t] = SkippedResult]
    BY <1>2 DEF Take, Goto
  <2>2. Reported(t)'
    BY <1>0, <2>1 DEF Reported
  <2>3. step'[t] = "done" /\ \A u \in Tasks \ {t} : step'[u] = step[u] /\ result'[u] = result[u]
    BY <1>0, <2>1
  <2> QED
    BY <1>0, <2>2, <2>3, AnsweredOnce
<1> QED
  BY <1>1, <1>2

\* The thread of a task only writes results its processes gave or the core made up.
LEMMA ThreadAnswered == ASSUME Inv, Answered, NEW t \in Tasks, Thread(t) PROVE Answered'
<1> USE DEF At, Goto, Finish, ctlVars, procVars
<1>0. /\ TypeOK /\ Busy(t) /\ plan' = plan /\ attempt[t] \in {1, 2}
      /\ said' = said /\ Now(t) = <<t, attempt[t]>>
      /\ \A u \in Tasks \ {t} : /\ step'[u] = step[u] /\ result'[u] = result[u]
                                 /\ \A a \in {1, 2} : proc'[<<u, a>>] = proc[<<u, a>>]
  <2>1. said' = said
    BY DEF Thread, Record, Spawn, Enlist, Delist, Unlock, Collect, TimeOut, Settle
  <2> QED
    BY <2>1, ThreadMoves, ThreadAside DEF Inv, TypeOK, Now
<1>1. /\ <<t, 1>> \in Runs /\ <<t, 2>> \in Runs /\ step \in [Tasks -> Steps] /\ result \in [Tasks -> Results]
      /\ proc \in [Runs -> {"none", "alive", "exited", "killed"}]
  BY <1>0 DEF TypeOK, Runs
<1>2. ASSUME UNCHANGED result, step'[t] # "todo",
             \A a \in {1, 2} : proc[<<t, a>>] = "exited" <=> proc'[<<t, a>>] = "exited"
      PROVE  Answered'
  <2>1. \A u \in Tasks : step'[u] = step[u] \/ (Busy(u) /\ step'[u] # "todo")
    BY <1>0, <1>2
  <2>2. \A u \in Tasks, a \in {1, 2} :
          /\ proc[<<u, a>>] = "exited" => proc'[<<u, a>>] = "exited" /\ said'[<<u, a>>] = said[<<u, a>>]
          /\ proc'[<<u, a>>] = "exited" \/ said'[<<u, a>>] = NoAnswer
          /\ proc'[<<u, a>>] # "none" => proc[<<u, a>>] # "none" \/ Busy(u)
    <3> SUFFICES ASSUME NEW u \in Tasks, NEW a \in {1, 2}
                 PROVE  /\ proc[<<u, a>>] = "exited" <=> proc'[<<u, a>>] = "exited"
                        /\ proc[<<u, a>>] = "exited" \/ said[<<u, a>>] = NoAnswer
                        /\ proc'[<<u, a>>] # "none" => proc[<<u, a>>] # "none" \/ Busy(u)
      BY <1>0
    <3>1. proc[<<u, a>>] = "exited" \/ said[<<u, a>>] = NoAnswer
      BY DEF Answered, Spoken
    <3>2. CASE u = t
      BY <1>0, <1>2, <3>1, <3>2
    <3>3. CASE u # t
      BY <1>0, <3>1, <3>3
    <3> QED
      BY <3>2, <3>3
  <2> QED
    BY <1>0, <1>2, <2>1, <2>2, AnsweredKept
<1>3. ASSUME NEW res, result' = [result EXCEPT ![t] = res], step'[t] = "done", proc' = proc,
             \/ res \in {ErrorResult, SkippedResult}
             \/ res = Outcome(t, said[Now(t)])
      PROVE  Answered'
  <2>1. step[t] # "done" /\ result'[t] = res
    BY <1>0, <1>1, <1>3 DEF Busy
  <2>2. CASE res \in {ErrorResult, SkippedResult}
    <3>1. Reported(t)'
      BY <2>1, <2>2 DEF Reported
    <3> QED
      BY <1>0, <1>3, <2>1, <3>1, AnsweredOnce
  <2>3. CASE res = Outcome(t, said[Now(t)]) /\ res # ErrorResult
    <3>1. /\ said[Now(t)].valid /\ res = said[Now(t)].result
          /\ res.gating = (plan.lane[t] = "gate" /\ Ran(res))
      BY <2>3 DEF Outcome
    <3>2. proc[Now(t)] = "exited"
      BY <1>0, <3>1, ResultFacts DEF Answered, Spoken
    <3>3. Reported(t)'
      BY <1>0, <1>3, <2>1, <3>1, <3>2 DEF Reported, Ran
    <3> QED
      BY <1>0, <1>3, <2>1, <3>3, AnsweredOnce
  <2> QED
    BY <1>3, <2>2, <2>3
<1>4. CASE Record(t)
  <2>1. CASE plan.egress[t] = "deny" /\ Finish(t, SkippedResult)
    BY <1>1, <1>3, <1>4, <2>1 DEF Record
  <2>2. CASE UNCHANGED result /\ step'[t] \in {"spawn", "settle"}
    BY <1>2, <1>4, <2>2 DEF Record
  <2> QED
    BY <1>1, <1>4, <2>1, <2>2 DEF Record
<1>5. CASE Spawn(t)
  <2>0. CountedAt(t) /\ step[t] = "spawn"
    BY <1>5 DEF Spawn, Inv, Counted
  <2>1. proc[Now(t)] = "none"
    BY <1>0, <2>0 DEF CountedAt, None
  <2>2. \A a \in {1, 2} : proc[<<t, a>>] = "exited" <=> proc'[<<t, a>>] = "exited"
    BY <1>0, <1>1, <1>5, <2>1 DEF Spawn
  <2> QED
    BY <1>1, <1>2, <1>5, <2>2 DEF Spawn
<1>6. CASE Enlist(t) \/ Delist(t) \/ Unlock(t) \/ Collect(t)
  BY <1>1, <1>2, <1>6 DEF Enlist, Delist, Unlock, Collect
<1>7. CASE TimeOut(t)
  <2>1. \A a \in {1, 2} : proc[<<t, a>>] = "exited" <=> proc'[<<t, a>>] = "exited"
    BY <1>0, <1>1, <1>7 DEF TimeOut
  <2> QED
    BY <1>1, <1>2, <1>7, <2>1 DEF TimeOut
<1>8. CASE Settle(t)
  <2>1. CASE UNCHANGED result /\ step'[t] = "record"
    BY <1>2, <1>8, <2>1 DEF Settle
  <2>2. CASE Finish(t, IF said[Now(t)].over THEN ErrorResult ELSE Outcome(t, said[Now(t)]))
    BY <1>1, <1>3, <1>8, <2>2 DEF Settle
  <2> QED
    BY <1>1, <1>8, <2>1, <2>2 DEF Settle
<1> QED
  BY <1>4, <1>5, <1>6, <1>7, <1>8 DEF Thread

\* So does every step.
LEMMA AnsweredStep == ASSUME Inv, Answered, [Next]_vars PROVE Answered'
<1> USE DEF ctlVars, taskVars, procVars
<1>0. /\ TypeOK /\ Ordered /\ Counted /\ step \in [Tasks -> Steps]
      /\ proc \in [Runs -> {"none", "alive", "exited", "killed"}] /\ said \in [Runs -> Answers \cup {NoAnswer}]
      /\ \A t \in Tasks, a \in {1, 2} : <<t, a>> \in Runs
  BY DEF Inv, TypeOK, Runs
<1>1. CASE StartAlone \/ StartPooled
  <2>1. PICK t \in queue \cup alone : Take(t)
    BY <1>1 DEF StartAlone, StartPooled
  <2>2. UNCHANGED <<plan, proc, said>>
    BY <1>1 DEF StartAlone, StartPooled
  <2> QED
    BY <1>0, <2>1, <2>2, TakeAnswered
<1>2. ASSUME UNCHANGED <<plan, result, step, proc, said>> PROVE Answered'
  BY <1>0, <1>2, AnsweredKept DEF Answered, Spoken
<1>3. CASE Refuse \/ Resolve \/ WriteSpec \/ NextLayer \/ LastLayer \/ Judge \/ Unwound \/ HandlerTakes \/ Sigterm
  BY <1>2, <1>3 DEF Refuse, Resolve, WriteSpec, NextLayer, LastLayer, Judge, Unwound, HandlerTakes, Sigterm
<1>4. CASE HandlerKills \/ KillTree
  <2>1. UNCHANGED <<plan, result, step, said>>
    BY <1>4 DEF HandlerKills, KillTree
  <2>2. \A r \in Runs : proc'[r] = proc[r] \/ (proc[r] = "alive" /\ proc'[r] = "killed")
    BY <1>0, <1>4 DEF HandlerKills, KillTree
  <2> QED
    BY <1>0, <2>1, <2>2, AnsweredKept DEF Answered, Spoken
<1>5. CASE HandlerRaises
  <2>1. UNCHANGED <<plan, result, proc, said>>
    BY <1>5 DEF HandlerRaises
  <2>2. \A t \in Tasks : step'[t] = step[t] \/ (Busy(t) /\ step'[t] # "todo")
    BY <1>0, <1>5, RunnerAssumption DEF HandlerRaises, Ordered
  <2> QED
    BY <1>0, <2>1, <2>2, AnsweredKept DEF Answered, Spoken
<1>6. ASSUME NEW r \in Runs, WorkerEnds(r) PROVE Answered'
  <2>1. UNCHANGED <<plan, result, step>>
    BY <1>6 DEF WorkerEnds
  <2>2. proc[r] = "alive" /\ proc'[r] = "exited"
    BY <1>0, <1>6 DEF WorkerEnds
  <2>3. \A q \in Runs \ {r} : proc'[q] = proc[q] /\ said'[q] = said[q]
    BY <1>0, <1>6 DEF WorkerEnds
  <2> QED
    BY <1>0, <2>1, <2>2, <2>3, AnsweredKept DEF Answered, Spoken
<1>7. CASE UNCHANGED vars
  BY <1>2, <1>7 DEF vars
<1> QED
  BY <1>1, <1>3, <1>4, <1>5, <1>6, <1>7, ThreadAnswered DEF Next, Main, Handler

\* What is on disk at any time: results of processes that ended by themselves, errors,
\* and skipped tasks (core/runner.py _run_task), one for each task that is over.
THEOREM ResultsInvariant == Spec => [](Inv /\ Answered)
<1>1. Init => Answered
  BY ResultFacts DEF Init, Answered, Recorded, Needed, Busy, Started, Spoken, Reported, Runs
<1>2. Inv /\ Answered /\ [Next]_vars => Answered'
  BY AnsweredStep
<1> QED
  BY RunnerInvariant, <1>1, <1>2, PTL DEF Spec

\* No worker is started before everything its task depends on has passed.
THEOREM DependenciesFirst == Spec => []DepsRespected
<1>1. Inv /\ Answered => DepsRespected
  BY DEF Answered, Needed, DepsRespected
<1> QED
  BY ResultsInvariant, <1>1, PTL

\* The status of a result on disk is one of the four that the contract knows.
LEMMA FileStatus ==
  ASSUME TypeOK, Answered, NEW t \in DOMAIN Files
  PROVE  Files[t].status \in {"pass", "fail", "error", "skipped"}
<1>1. t \in Tasks /\ Files[t] = result[t] /\ result[t] # NoResult
  BY DEF Files
<1>2. CASE result[t] \in {ErrorResult, SkippedResult}
  BY <1>1, <1>2, ResultFacts
<1>3. CASE \E a \in {1, 2} : result[t] = said[<<t, a>>].result
  <2>1. PICK a \in {1, 2} : result[t] = said[<<t, a>>].result
    BY <1>3
  <2>2. said[<<t, a>>] \in Answers \cup {NoAnswer}
    BY <1>1 DEF TypeOK, Runs
  <2> QED
    BY <1>1, <2>1, <2>2, RunnerAssumption, ResultFacts
<1> QED
  BY <1>1, <1>2, <1>3 DEF Answered, Reported

\* No task is taken before all the specs are on disk.
SpecsFirst ==
  /\ phase \in {"plan", "refused"} => specs = {}
  /\ phase \in {"plan", "specs"} => completed = {}
  /\ phase \notin {"plan", "specs", "refused"} => specs = plan.only

\* The specs are written before the first layer, and never after.
LEMMA SpecsStep == ASSUME Inv, SpecsFirst, [Next]_vars PROVE SpecsFirst'
<1> USE DEF SpecsFirst, ctlVars
<1>1. CASE Refuse \/ Resolve \/ NextLayer \/ LastLayer
  BY <1>1 DEF Refuse, Resolve, NextLayer, LastLayer, MainRuns
<1>6. CASE WriteSpec
  BY <1>6 DEF WriteSpec
<1>7. CASE StartAlone \/ StartPooled \/ Judge \/ Unwound
  BY <1>7 DEF StartAlone, StartPooled, Judge, Unwound
<1>2. ASSUME NEW t \in Tasks, Thread(t) PROVE SpecsFirst'
  BY <1>2, ThreadMoves DEF Inv
<1>3. CASE Handler \/ Sigterm \/ KillTree
  BY <1>3 DEF Handler, HandlerTakes, HandlerKills, HandlerRaises, Sigterm, KillTree
<1>4. ASSUME NEW r \in Runs, WorkerEnds(r) PROVE SpecsFirst'
  BY <1>4 DEF WorkerEnds
<1>5. CASE UNCHANGED vars
  BY <1>5 DEF vars
<1> QED
  BY <1>1, <1>2, <1>3, <1>4, <1>5, <1>6, <1>7 DEF Next, Main

\* Whatever the workers do and wherever the run ends, with the policy of its plan
\* or the one that --rerender falls back to: a gate that opens over some gate task
\* has all the specs, and was judged, by processes that ended by themselves and
\* kept the contract, one of them at least.
THEOREM OpenGateIsJudged == Spec => []OpenMeansJudged
<1>1. Inv /\ Answered /\ SpecsFirst => OpenMeansJudged
  <2> SUFFICES ASSUME Inv, Answered, SpecsFirst, NEW p \in RerenderPolicies,
                      GateTasks(Lanes) # {}, Verdict(Files, Lanes, p) # "BLOCKED"
               PROVE  /\ specs = plan.only
                      /\ \A t \in Selected("gate") :
                           Judged(t) \/ (p.onSkipped = "yellow" /\ result[t].status = "skipped")
                      /\ \E t \in Selected("gate") : Judged(t)
    BY DEF OpenMeansJudged
  <2>1. ~Blocked(Files, Lanes, p)
    BY DEF Verdict
  <2>2. \A t \in DOMAIN Files : Files[t].status \in {"pass", "fail", "error", "skipped"}
    BY FileStatus DEF Inv
  <2>3. /\ \A t \in GateTasks(Lanes) :
             /\ t \in DOMAIN Files
             /\ Ran(Files[t]) \/ (Files[t].status = "skipped" /\ p.onSkipped # "fail")
        /\ \E t \in GateTasks(Lanes) : Files[t].gating /\ Ran(Files[t])
    BY <2>1, <2>2, OpenGateHasResults
  <2>4. \A t \in DOMAIN Files : t \in Tasks /\ Files[t] = result[t] /\ result[t] # NoResult
    BY DEF Files
  <2>5. specs = plan.only
    <3>1. PICK t \in GateTasks(Lanes) : t \in specs /\ t \in DOMAIN Files
      BY <2>3 DEF GateTasks, Lanes
    <3>2. t \in completed
      BY <2>4, <3>1 DEF Inv, Ordered, Answered, Recorded
    <3> QED
      BY <3>1, <3>2 DEF SpecsFirst
  <2>6. GateTasks(Lanes) = Selected("gate") /\ Selected("gate") \subseteq Tasks
    BY <2>5, RunnerAssumption DEF GateTasks, Lanes, Selected, Inv, TypeOK
  <2>7. p.onSkipped \in {"yellow", "fail"}
    BY DEF RerenderPolicies
  <2>8. ASSUME NEW t \in Selected("gate"), Ran(result[t]) PROVE Judged(t)
    <3>1. result[t] \notin {NoResult, ErrorResult, SkippedResult}
      BY <2>8, ResultFacts DEF Ran
    <3>2. PICK a \in {1, 2} : /\ proc[<<t, a>>] = "exited" /\ result[t] = said[<<t, a>>].result
                             /\ result[t].gating = (plan.lane[t] = "gate" /\ Ran(result[t]))
      BY <2>6, <3>1 DEF Answered, Reported
    <3>3. plan.lane[t] = "gate"
      BY DEF Selected
    <3> QED
      BY <2>8, <3>2, <3>3 DEF Judged
  <2> QED
    BY <2>3, <2>4, <2>5, <2>6, <2>7, <2>8
<1>2. Init => SpecsFirst
  BY DEF Init, SpecsFirst
<1>3. Inv /\ SpecsFirst /\ [Next]_vars => SpecsFirst'
  BY SpecsStep
<1> QED
  BY RunnerInvariant, ResultsInvariant, <1>1, <1>2, <1>3, PTL DEF Spec
-----------------------------------------------------------------------------
(* The order in which the pool runs the tasks does not matter.              *)

\* What a task comes to is a result, and depends on no others than those it waits for.
LEMMA InOrderType == ASSUME TypeOK, NEW t \in Tasks, NEW res PROVE InOrder(res, t) \in Results
<1>1. \A a \in {1, 2} : Outcome(t, said[<<t, a>>]) \in Results
  BY OutcomeType DEF TypeOK, Runs
<1> QED
  BY <1>1, ResultFacts DEF InOrder

\* It is the same if they come to the same.
LEMMA InOrderSame ==
  ASSUME NEW t, NEW f, NEW g, \A d \in plan.deps[t] : f[d] = g[d]
  PROVE  InOrder(f, t) = InOrder(g, t)
<1>1. (\E d \in plan.deps[t] : f[d].status # "pass") <=> (\E d \in plan.deps[t] : g[d].status # "pass")
  OBVIOUS
<1> QED
  BY <1>1 DEF InOrder

\* f is how some tasks would end, with all that they wait for.
Solves(f, some) ==
  /\ some \subseteq plan.tasks
  /\ \A t \in some : plan.deps[t] \subseteq some /\ f[t] = InOrder(f, t)

\* They could not end otherwise: a first task of those that did would have been given
\* the same by those it waits for.
LEMMA OneSolution ==
  ASSUME ~Refused(plan), NEW f, NEW g, NEW some, Solves(f, some), Solves(g, some)
  PROVE  \A t \in some : f[t] = g[t]
<1> DEFINE differ == {t \in some : f[t] # g[t]}
<1>1. ASSUME differ # {} PROVE FALSE
  <2>1. PICK t \in differ : plan.deps[t] \cap differ = {}
    BY <1>1 DEF Refused, Cyclic, Solves
  <2>2. \A d \in plan.deps[t] : f[d] = g[d]
    BY <2>1 DEF Solves
  <2> QED
    BY <2>1, <2>2, InOrderSame DEF Solves
<1> QED
  BY <1>1

\* A plan that is not refused can be run in its order.
LEMMA SolutionExists ==
  ASSUME TypeOK, ~Refused(plan)
  PROVE  \E f : f = [t \in plan.tasks |-> InOrder(f, t)]
<1> DEFINE Some    == [plan.tasks -> Results]
           Shared(t, f, some) == f \in Some /\ t \in some /\ Solves(f, some)
           solved  == {t \in plan.tasks : \E f, some : Shared(t, f, some)}
           Ends(t) == CHOOSE f : \E some : Shared(t, f, some)
           all     == [t \in plan.tasks |-> IF t \in solved THEN Ends(t)[t] ELSE ErrorResult]
<1>0. plan.tasks \subseteq Tasks
  BY RunnerAssumption DEF TypeOK
<1>1. ASSUME NEW f, NEW some, Solves(f, some), f \in Some, NEW t \in some
      PROVE  t \in solved /\ all[t] = f[t]
  <2>1. t \in solved /\ t \in plan.tasks
    BY <1>1 DEF Solves
  <2>2. PICK more : Shared(t, Ends(t), more)
    BY <2>1
  <2>3. Solves(f, some \cap more) /\ Solves(Ends(t), some \cap more)
    BY <1>1, <2>2 DEF Solves
  <2>4. f[t] = Ends(t)[t]
    BY <1>1, <2>2, <2>3, OneSolution
  <2> QED
    BY <2>1, <2>4
<1>2. all \in Some
  <2>1. ASSUME NEW t \in solved PROVE Ends(t)[t] \in Results
    <3>1. PICK some : Shared(t, Ends(t), some)
      BY <2>1
    <3> QED
      BY <3>1
  <2> QED
    BY <2>1, ResultFacts
<1>3. Solves(all, solved)
  <2> SUFFICES ASSUME NEW t \in solved PROVE plan.deps[t] \subseteq solved /\ all[t] = InOrder(all, t)
    BY DEF Solves
  <2>1. PICK f, some : Shared(t, f, some)
    OBVIOUS
  <2>2. plan.deps[t] \subseteq some /\ f[t] = InOrder(f, t)
    BY <2>1 DEF Solves
  <2>3. \A u \in some : u \in solved /\ all[u] = f[u]
    BY <1>1, <2>1
  <2>4. InOrder(all, t) = InOrder(f, t)
    BY <2>2, <2>3, InOrderSame
  <2> QED
    BY <2>1, <2>2, <2>3, <2>4
<1>4. ASSUME NEW t \in plan.tasks \ solved, plan.deps[t] \cap (plan.tasks \ solved) = {} PROVE FALSE
  <2> DEFINE more == [all EXCEPT ![t] = InOrder(all, t)]
  <2>1. plan.deps[t] \subseteq solved
    BY <1>4 DEF Refused
  <2>2. more \in Some
    BY <1>0, <1>2, InOrderType
  <2>3. more[t] = InOrder(all, t) /\ \A u \in solved : more[u] = all[u]
    BY <1>2, <1>4
  <2> HIDE DEF more, all, solved
  <2>4. InOrder(more, t) = InOrder(all, t)
    BY <2>1, <2>3, InOrderSame
  <2>5. ASSUME NEW u \in solved PROVE plan.deps[u] \subseteq solved /\ more[u] = InOrder(more, u)
    <3>1. plan.deps[u] \subseteq solved /\ all[u] = InOrder(all, u)
      BY <1>3 DEF Solves
    <3>2. InOrder(more, u) = InOrder(all, u)
      BY <2>3, <3>1, InOrderSame
    <3> QED
      BY <2>3, <3>1, <3>2
  <2>6. Solves(more, solved \cup {t})
    BY <1>3, <1>4, <2>1, <2>3, <2>4, <2>5 DEF Solves
  <2> QED
    BY <1>4, <2>2, <2>6 DEF solved
<1>5. plan.tasks \ solved = {}
  BY <1>4 DEF Refused, Cyclic
<1>6. all = [t \in plan.tasks |-> InOrder(all, t)]
  <2>1. \A t \in plan.tasks : all[t] = InOrder(all, t)
    BY <1>3, <1>5 DEF Solves
  <2>2. all = [t \in plan.tasks |-> all[t]]
    OBVIOUS
  <2> HIDE DEF all
  <2> QED
    BY <2>1, <2>2
<1> QED
  BY <1>6

\* So Sequential is what its definition says.
LEMMA SequentialRuns ==
  ASSUME TypeOK, ~Refused(plan)
  PROVE  \A t \in plan.tasks : Sequential[t] = InOrder(Sequential, t)
BY SolutionExists DEF Sequential

\* Which tasks have a result: those that others in a layer begun wait for, and, as long as
\* main goes on, all of a layer begun that nobody is at.
Written(t) == result[t] # NoResult

Placed ==
  /\ phase \notin {"plan", "refused"} => ~Refused(plan)
  /\ completed \subseteq plan.tasks /\ queue \cup alone \subseteq plan.only
  /\ \A t \in Tasks : step[t] # "todo" => t \in plan.only
  /\ \A t \in completed \cap plan.only : \A d \in plan.deps[t] : Written(d)
  /\ phase \in {"plan", "specs", "run", "judge", "ended"} =>
       \A t \in completed \cap plan.only : t \in queue \cup alone \/ Busy(t) \/ Written(t)
  /\ phase \in {"judge", "ended"} => completed = plan.tasks /\ alone = {}

\* What a thread has found out of its task; a result is that of the plan's order.
Agreed(t) ==
  /\ Busy(t) => t \notin plan.unready /\ \A d \in plan.deps[t] : result[d].status = "pass"
  /\ Busy(t) /\ step[t] # "record" => plan.egress[t] # "deny"
  /\ Busy(t) /\ attempt[t] = 2 =>
       /\ plan.egress[t] # "deny"
       /\ t \in plan.retry /\ Outcome(t, said[<<t, 1>>]).status = "error"
  /\ \A a \in {1, 2} : proc[<<t, a>>] = "alive" => ~Written(t) /\ a = attempt[t]
  /\ Written(t) => result[t] = InOrder(result, t)

SameInv == Placed /\ \A t \in Tasks : Agreed(t)

\* The outcome of an attempt is not the lack of a result.
LEMMA OutcomeWritten ==
  ASSUME NEW t \in Tasks, NEW a \in Answers \cup {NoAnswer}
  PROVE  Outcome(t, a) # NoResult
<1>1. a.result.status \in {"pass", "fail", "error", "skipped"}
  BY RunnerAssumption, ResultFacts
<1> QED
  BY <1>1, ResultFacts DEF Outcome

\* A thread writes the result of its task when it is done with it, and only then.
LEMMA ThreadWrites ==
  ASSUME TypeOK, NEW t \in Tasks, Thread(t)
  PROVE  /\ step'[t] = "done" => Written(t)'
         /\ step'[t] # "done" => result' = result
<1> USE DEF At, Goto, ctlVars, procVars
<1>0. /\ step \in [Tasks -> Steps] /\ result \in [Tasks -> Results] /\ attempt[t] \in {1, 2}
      /\ said[Now(t)] \in Answers \cup {NoAnswer}
  BY DEF TypeOK, Runs, Now
<1>1. CASE Record(t)
  BY <1>0, <1>1, ResultFacts DEF Record, Finish, Written, NoResult, SkippedResult
<1>2. CASE Spawn(t) \/ Enlist(t) \/ Delist(t) \/ Unlock(t) \/ Collect(t) \/ TimeOut(t)
  BY <1>0, <1>2 DEF Spawn, Enlist, Delist, Unlock, Collect, TimeOut
<1>3. CASE Settle(t)
  <2> DEFINE res == IF said[Now(t)].over THEN ErrorResult ELSE Outcome(t, said[Now(t)])
  <2>1. res # NoResult
    BY <1>0, OutcomeWritten, ResultFacts
  <2>2. \/ step'[t] = "record" /\ result' = result
        \/ Finish(t, res)
    BY <1>0, <1>3 DEF Settle
  <2> HIDE DEF res
  <2> QED
    BY <1>0, <2>1, <2>2 DEF Finish, Written
<1> QED
  BY <1>1, <1>2, <1>3 DEF Thread

\* Steps that begin no layer.
LEMMA PlacedKept ==
  ASSUME TypeOK, Ordered, Placed, UNCHANGED <<plan, completed>>,
         phase' \notin {"plan", "refused"} => ~Refused(plan),
         queue' \subseteq queue, alone' \subseteq alone,
         \A t \in Tasks : step'[t] # "todo" => step[t] # "todo" \/ t \in queue \cup alone,
         \A t \in Tasks : Written(t) => Written(t)',
         phase' \in {"plan", "specs", "run", "judge", "ended"} =>
           /\ phase \in {"plan", "specs", "run", "judge", "ended"}
           /\ \A t \in Tasks : t \in queue \cup alone \/ Busy(t) \/ Written(t) =>
                t \in queue' \cup alone' \/ Busy(t)' \/ Written(t)',
         phase' \in {"judge", "ended"} => completed = plan.tasks /\ alone' = {}
  PROVE  Placed'
<1>1. completed \subseteq Tasks /\ \A t \in Tasks : plan.deps[t] \subseteq Tasks
  BY RunnerAssumption DEF TypeOK
<1>2. (\A t \in completed \cap plan.only : \A d \in plan.deps[t] : Written(d))'
  BY <1>1 DEF Placed
<1>3. (phase \in {"plan", "specs", "run", "judge", "ended"} =>
         \A t \in completed \cap plan.only : t \in queue \cup alone \/ Busy(t) \/ Written(t))'
  BY <1>1 DEF Placed
<1> QED
  BY <1>2, <1>3 DEF Placed

\* A task that is taken is being run, or has its result.
LEMMA TakePlaced ==
  ASSUME TypeOK, Ordered, Placed, UNCHANGED <<plan, phase, completed>>, phase \in {"run", "unwind"},
         queue' \subseteq queue, alone' \subseteq alone,
         NEW t \in queue \cup alone, Take(t), queue \cup alone \subseteq queue' \cup alone' \cup {t}
  PROVE  Placed'
<1>1. t \in Tasks /\ step[t] = "todo" /\ step \in [Tasks -> Steps] /\ result \in [Tasks -> Results]
  BY DEF TypeOK, Ordered
<1>2. /\ step'[t] = "record" \/ (step'[t] = "done" /\ Written(t)')
      /\ \A u \in Tasks \ {t} : step'[u] = step[u] /\ result'[u] = result[u]
      /\ Written(t) => Written(t)'
  BY <1>1 DEF Take, Goto, Written, NoResult, SkippedResult, ErrorResult
<1>3. \A u \in Tasks \ {t} : (Busy(u)' <=> Busy(u)) /\ (Written(u)' <=> Written(u))
  BY <1>2 DEF Busy, Written
<1>4. Busy(t)' \/ Written(t)'
  BY <1>2 DEF Busy
<1> QED
  BY <1>1, <1>2, <1>3, <1>4, PlacedKept DEF Placed

\* When main begins a layer, all of the layers before have their results.
LEMMA LayerPlaced == ASSUME Inv, Placed, NextLayer PROVE Placed'
<1> DEFINE next == Layer(plan, completed)
<1>1. /\ phase = "run" /\ queue = {} /\ alone = {} /\ UNCHANGED <<plan, phase, inline, step, result>>
      /\ completed' = completed \cup next /\ queue' \cup alone' = next \cap plan.only
  BY DEF NextLayer, MainRuns, taskVars
<1>2. \A t \in Tasks : ~Busy(t)
  <2>1. PoolEmpty /\ inline = NoTask
    BY PooledIsBusy DEF NextLayer, Inv
  <2> QED
    BY <2>1, RunnerAssumption DEF PoolEmpty
<1>3. completed \subseteq Tasks /\ plan.tasks \subseteq Tasks /\ ~Refused(plan)
  BY <1>1, RunnerAssumption DEF Inv, TypeOK, Placed
<1>4. \A t \in completed \cap plan.only : Written(t)
  BY <1>1, <1>2, <1>3 DEF Placed
<1>5. \A t \in next \cap plan.only : \A d \in plan.deps[t] : Written(d)
  BY <1>3, <1>4 DEF Layer, Refused
<1>6. next \subseteq plan.tasks
  BY DEF Layer
<1> HIDE DEF next
<1>7. \A t \in Tasks : (Written(t)' <=> Written(t)) /\ (Busy(t)' <=> Busy(t))
  BY <1>1 DEF Written, Busy
<1>8. (\A t \in completed \cap plan.only : \A d \in plan.deps[t] : Written(d))'
  BY <1>1, <1>5 DEF Placed, Written
<1>9. (\A t \in completed \cap plan.only : t \in queue \cup alone \/ Busy(t) \/ Written(t))'
  BY <1>1, <1>3, <1>4, <1>7
<1> QED
  BY <1>1, <1>3, <1>6, <1>8, <1>9 DEF Placed

\* Every step keeps it.
LEMMA PlacedStep == ASSUME Inv, Answered, Placed, [Next]_vars PROVE Placed'
<1> USE DEF ctlVars, taskVars, procVars, lockVars, sigVars
<1>0. TypeOK /\ Ordered /\ step \in [Tasks -> Steps] /\ result \in [Tasks -> Results]
  BY DEF Inv, TypeOK
<1>1. CASE StartAlone
  <2>1. PICK t \in alone : Take(t) /\ alone' = alone \ {t}
    BY <1>1 DEF StartAlone
  <2>2. UNCHANGED <<plan, phase, completed, queue>> /\ phase = "run"
    BY <1>1 DEF StartAlone, MainRuns
  <2> QED
    BY <1>0, <2>1, <2>2, TakePlaced
<1>2. CASE StartPooled
  <2>1. PICK t \in queue : Take(t) /\ queue' = queue \ {t}
    BY <1>2 DEF StartPooled
  <2>2. UNCHANGED <<plan, phase, completed, alone>> /\ phase \in {"run", "unwind"}
    BY <1>2 DEF StartPooled
  <2> QED
    BY <1>0, <2>1, <2>2, TakePlaced
<1>3. CASE NextLayer
  BY <1>3, LayerPlaced
<1>4. CASE LastLayer
  BY <1>0, <1>4, PlacedKept DEF LastLayer, MainRuns, Placed, Written, Busy
<1>5. CASE Refuse \/ Resolve \/ WriteSpec \/ Judge \/ Unwound \/ HandlerTakes \/ HandlerKills \/ Sigterm \/ KillTree
  <2>1. UNCHANGED <<plan, completed, queue, alone, step, result>>
    BY <1>5 DEF Refuse, Resolve, WriteSpec, Judge, Unwound, HandlerTakes, HandlerKills, Sigterm, KillTree
  <2>2. /\ phase' \notin {"plan", "refused"} => phase \notin {"plan", "refused"} \/ ~Refused(plan)
        /\ phase' \in {"plan", "specs", "run", "judge", "ended"} => phase \in {"plan", "specs", "run", "judge", "ended"}
        /\ phase' \in {"judge", "ended"} => phase \in {"judge", "ended"}
    BY <1>5 DEF Refuse, Resolve, WriteSpec, Judge, Unwound, HandlerTakes, HandlerKills, Sigterm, KillTree
  <2> QED
    BY <1>0, <2>1, <2>2, PlacedKept DEF Placed, Written, Busy
<1>6. CASE HandlerRaises
  <2>1. /\ UNCHANGED <<plan, completed, queue, result>> /\ alone' = {} /\ phase = "run"
        /\ phase' \in {"gone", "unwind"}
        /\ \A t \in Tasks : step'[t] = step[t] \/ (t = inline /\ step'[t] = "done")
    BY <1>0, <1>6 DEF HandlerRaises
  <2>2. inline \in Tasks => step[inline] # "todo"
    BY <1>0, RunnerAssumption DEF Ordered, Busy
  <2> QED
    BY <1>0, <2>1, <2>2, PlacedKept DEF Placed, Written
<1>7. ASSUME NEW r \in Runs, WorkerEnds(r) PROVE Placed'
  BY <1>0, <1>7, PlacedKept DEF WorkerEnds, Placed, Written, Busy
<1>8. CASE UNCHANGED vars
  BY <1>0, <1>8, PlacedKept DEF vars, Placed, Written, Busy
<1>9. ASSUME NEW t \in Tasks, Thread(t) PROVE Placed'
  <2>1. /\ Busy(t) /\ phase \in {"run", "unwind"} /\ UNCHANGED <<plan, phase, completed, queue, alone>>
        /\ \A u \in Tasks \ {t} : step'[u] = step[u] /\ result'[u] = result[u]
        /\ step'[t] # "todo"
        /\ step'[t] = "done" => Written(t)'
        /\ step'[t] # "done" => result' = result
    BY <1>0, <1>9, ThreadMoves, ThreadAside, ThreadWrites
  <2>2. \A u \in Tasks \ {t} : (Busy(u)' <=> Busy(u)) /\ (Written(u)' <=> Written(u))
    BY <2>1 DEF Busy, Written
  <2>3. (Busy(t)' \/ Written(t)') /\ (Written(t) => Written(t)') /\ step[t] # "todo"
    BY <2>1 DEF Busy, Written
  <2> QED
    BY <1>0, <2>1, <2>2, <2>3, PlacedKept DEF Placed
<1> QED
  BY <1>1, <1>2, <1>3, <1>4, <1>5, <1>6, <1>7, <1>8, <1>9 DEF Next, Main, Handler

\* What a task comes to does not change with the results of others, nor with other answers.
LEMMA InOrderKept ==
  ASSUME NEW t, plan' = plan, \A a \in {1, 2} : said'[<<t, a>>] = said[<<t, a>>],
         \A d \in plan.deps[t] : result'[d] = result[d]
  PROVE  InOrder(result, t)' = InOrder(result, t)
<1>1. \A a \in {1, 2} : Outcome(t, said[<<t, a>>])' = Outcome(t, said[<<t, a>>])
  BY DEF Outcome, Ran
<1>2. (\E d \in plan.deps[t] : result[d].status # "pass")' <=> (\E d \in plan.deps[t] : result[d].status # "pass")
  OBVIOUS
<1> DEFINE again == Outcome(t, said[<<t, 1>>]).status = "error" /\ t \in plan.retry
<1>3. again' <=> again
  BY <1>1
<1> HIDE DEF again
<1>4. InOrder(result, t) =
        IF \/ t \in plan.unready \/ plan.egress[t] = "deny"
           \/ \E d \in plan.deps[t] : result[d].status # "pass"
        THEN SkippedResult
        ELSE IF again THEN (IF said[<<t, 2>>].over THEN ErrorResult ELSE Outcome(t, said[<<t, 2>>]))
        ELSE (IF said[<<t, 1>>].over THEN ErrorResult ELSE Outcome(t, said[<<t, 1>>]))
  BY DEF InOrder, again
<1>5. InOrder(result, t)' =
        IF \/ t \in plan.unready \/ plan.egress[t] = "deny"
           \/ \E d \in plan.deps[t] : result'[d].status # "pass"
        THEN SkippedResult'
        ELSE IF again' THEN (IF said'[<<t, 2>>].over THEN ErrorResult' ELSE Outcome(t, said[<<t, 2>>])')
        ELSE (IF said'[<<t, 1>>].over THEN ErrorResult' ELSE Outcome(t, said[<<t, 1>>])')
  BY DEF InOrder, again
<1> QED
  BY <1>1, <1>2, <1>3, <1>4, <1>5 DEF SkippedResult, ErrorResult

\* What a task waits for is written before anybody is at the task, and not the task itself.
LEMMA NeedsAreWritten ==
  ASSUME TypeOK, Ordered, Answered, Placed, NEW t \in Tasks, t \in queue \cup alone \/ step[t] # "todo"
  PROVE  /\ plan.deps[t] \subseteq Tasks
         /\ \A d \in plan.deps[t] : Written(d)
         /\ step[t] # "done" => ~Written(t) /\ t \notin plan.deps[t]
<1>1. t \in completed /\ t \in plan.only
  BY DEF Ordered, Placed
<1>2. plan.deps[t] \subseteq Tasks
  BY RunnerAssumption DEF TypeOK
<1>3. \A d \in plan.deps[t] : Written(d)
  BY <1>1 DEF Placed
<1>4. step[t] # "done" => ~Written(t)
  BY DEF Answered, Recorded, Written
<1> QED
  BY <1>2, <1>3, <1>4

\* A task whose thread does not move, or is given up.
LEMMA AgreedKept ==
  ASSUME TypeOK, Ordered, Answered, Placed, NEW t \in Tasks, Agreed(t),
         plan' = plan, attempt'[t] = attempt[t], result'[t] = result[t],
         step'[t] = step[t] \/ step'[t] = "done",
         \A u \in Tasks : Written(u) => result'[u] = result[u],
         \A a \in {1, 2} : /\ proc'[<<t, a>>] = "alive" => proc[<<t, a>>] = "alive"
                           /\ said'[<<t, a>>] = said[<<t, a>>]
  PROVE  Agreed(t)'
<1>1. (Busy(t)' => Busy(t) /\ step'[t] = step[t]) /\ (Written(t)' <=> Written(t))
  BY DEF Busy, Written
<1>2. ASSUME Busy(t) \/ Written(t)
      PROVE  \A d \in plan.deps[t] : result'[d] = result[d]
  <2>1. step[t] # "todo"
    BY <1>2 DEF Busy, Written, Answered, Recorded
  <2> QED
    BY <2>1, NeedsAreWritten
<1>3. (Written(t) => result[t] = InOrder(result, t))'
  <2> SUFFICES ASSUME Written(t) PROVE result'[t] = InOrder(result, t)'
    BY <1>1
  <2>1. result[t] = InOrder(result, t)
    BY DEF Agreed
  <2> QED
    BY <1>2, <2>1, InOrderKept
<1>4. Outcome(t, said[<<t, 1>>])' = Outcome(t, said[<<t, 1>>])
  BY DEF Outcome, Ran
<1>5. (\A a \in {1, 2} : proc[<<t, a>>] = "alive" => ~Written(t) /\ a = attempt[t])'
  BY <1>1 DEF Agreed
<1> QED
  BY <1>1, <1>2, <1>3, <1>4, <1>5 DEF Agreed

\* A task that is taken is ready, or would be skipped in any order.
LEMMA TakeAgreed ==
  ASSUME Inv, Watched, Answered, SameInv, UNCHANGED <<plan, attempt, proc, said>>, phase # "gone",
         NEW t \in queue \cup alone, Take(t)
  PROVE  \A u \in Tasks : Agreed(u)'
<1>0. /\ t \in Tasks /\ step[t] = "todo" /\ step \in [Tasks -> Steps] /\ result \in [Tasks -> Results]
      /\ TypeOK /\ Ordered /\ attempt[t] = 1
  BY DEF Inv, TypeOK, Ordered, Counted, CountedAt
<1>1. /\ \A u \in Tasks \ {t} : step'[u] = step[u] /\ result'[u] = result[u]
      /\ step'[t] \in {"record", "done"} /\ (step'[t] = "record" => result' = result)
  BY <1>0 DEF Take, Goto
<1>2. plan.deps[t] \subseteq Tasks /\ ~Written(t) /\ t \notin plan.deps[t]
  BY <1>0, NeedsAreWritten DEF SameInv
<1>3. \A u \in Tasks : Written(u) => result'[u] = result[u]
  BY <1>1, <1>2
<1>4. \A a \in {1, 2} : proc'[<<t, a>>] # "alive"
  BY <1>0 DEF Watched
<1>5. CASE Ready(t)
  <2>1. step'[t] = "record" /\ result' = result
    BY <1>0, <1>5 DEF Take, Goto
  <2>2. ~Written(t)'
    BY <1>2, <2>1 DEF Written
  <2> QED
    <3>1. Agreed(t)'
      BY <1>0, <1>4, <1>5, <2>1, <2>2 DEF Agreed, Ready
    <3>2. ASSUME NEW u \in Tasks \ {t} PROVE Agreed(u)'
      BY <1>0, <1>1, <1>3, AgreedKept DEF SameInv
    <3> QED
      BY <3>1, <3>2
<1>6. CASE ~Ready(t)
  <2>1. step'[t] = "done" /\ result'[t] = SkippedResult
    BY <1>0, <1>6 DEF Take, Goto
  <2>2. InOrder(result, t) = SkippedResult
    BY <1>6 DEF Ready, InOrder
  <2>3. InOrder(result, t)' = InOrder(result, t)
    BY <1>1, <1>2, InOrderKept
  <2>4. Agreed(t)'
    BY <1>4, <2>1, <2>2, <2>3 DEF Agreed, Busy, SkippedResult, ErrorResult
  <2> QED
    BY <1>0, <1>1, <1>3, <2>4, AgreedKept DEF SameInv
<1> QED
  BY <1>5, <1>6

\* The thread of a task settles what the plan's order would have come to.
LEMMA ThreadAgreed ==
  ASSUME Inv, Watched, Answered, SameInv, NEW t \in Tasks, Thread(t)
  PROVE  Agreed(t)'
<1> USE DEF At, Goto, Finish, ctlVars, procVars
<1>0. /\ TypeOK /\ Ordered /\ Busy(t) /\ plan' = plan /\ said' = said /\ phase # "gone"
      /\ step \in [Tasks -> Steps] /\ result \in [Tasks -> Results] /\ attempt \in [Tasks -> {1, 2}]
      /\ proc \in [Runs -> {"none", "alive", "exited", "killed"}]
      /\ \A u \in Tasks \ {t} : result'[u] = result[u]
  <2>1. said' = said
    BY DEF Thread, Record, Spawn, Enlist, Delist, Unlock, Collect, TimeOut, Settle
  <2> QED
    BY <2>1, ThreadMoves, ThreadAside DEF Inv, TypeOK
<1>1. /\ plan.deps[t] \subseteq Tasks /\ ~Written(t) /\ t \notin plan.deps[t] /\ step[t] # "done"
  BY <1>0, NeedsAreWritten DEF Busy, SameInv
<1>2. /\ t \notin plan.unready /\ \A d \in plan.deps[t] : result'[d] = result[d] /\ result'[d].status = "pass"
      /\ step[t] # "record" => plan.egress[t] # "deny"
      /\ attempt[t] = 2 =>
           plan.egress[t] # "deny" /\ t \in plan.retry /\ Outcome(t, said[<<t, 1>>]).status = "error"
  <2>1. Agreed(t)
    BY DEF SameInv
  <2>2. \A d \in plan.deps[t] : result'[d] = result[d]
    BY <1>0, <1>1
  <2> QED
    BY <1>0, <2>1, <2>2 DEF Agreed
<1>3. InOrder(result, t)' = InOrder(result, t)
  BY <1>0, <1>2, InOrderKept
<1>4. Outcome(t, said[<<t, 1>>])' = Outcome(t, said[<<t, 1>>])
  BY <1>0 DEF Outcome, Ran
<1>5. \A a \in {1, 2} : proc[<<t, a>>] = "alive" => a = attempt[t] /\ step[t] \in {"enlist", "enlisted", "wait"}
  BY <1>0 DEF Watched
<1>6. CASE Record(t)
  <2>1. step[t] = "record" /\ UNCHANGED <<attempt, proc>>
    BY <1>6 DEF Record
  <2>2. CASE plan.egress[t] = "deny"
    <3>1. step'[t] = "done" /\ result'[t] = SkippedResult
      BY <1>0, <1>6, <2>2 DEF Record
    <3>2. InOrder(result, t) = SkippedResult
      BY <2>2 DEF InOrder
    <3> QED
      BY <1>3, <1>5, <2>1, <3>1, <3>2 DEF Agreed, Busy
  <2>3. CASE plan.egress[t] # "deny"
    <3>1. step'[t] \in {"spawn", "settle"} /\ result' = result
      BY <1>0, <1>6, <2>3 DEF Record
    <3> QED
      BY <1>0, <1>1, <1>2, <1>4, <1>5, <2>1, <2>3, <3>1 DEF Agreed, Written
  <2> QED
    BY <2>2, <2>3
<1>7. CASE Spawn(t) \/ Enlist(t) \/ Delist(t) \/ Unlock(t) \/ Collect(t) \/ TimeOut(t)
  <2>1. /\ step[t] # "record" /\ step'[t] # "record" /\ step'[t] # "done" /\ UNCHANGED <<attempt, result>>
    BY <1>0, <1>7 DEF Spawn, Enlist, Delist, Unlock, Collect, TimeOut
  <2>2. \A a \in {1, 2} : proc'[<<t, a>>] = "alive" => a = attempt[t]
    <3>1. CASE Spawn(t) \/ TimeOut(t)
      BY <1>0, <1>5, <3>1 DEF Spawn, TimeOut, Now, Runs
    <3>2. CASE Enlist(t) \/ Delist(t) \/ Unlock(t) \/ Collect(t)
      BY <1>0, <1>5, <3>2 DEF Enlist, Delist, Unlock, Collect
    <3> QED
      BY <1>7, <3>1, <3>2
  <2>3. ~Written(t)'
    BY <1>1, <2>1 DEF Written
  <2> QED
    BY <1>0, <1>2, <1>4, <2>1, <2>2, <2>3 DEF Agreed
<1>8. CASE Settle(t)
  <2> DEFINE answer == said[Now(t)]
             res    == IF answer.over THEN ErrorResult ELSE Outcome(t, answer)
             again  == Outcome(t, answer).status = "error" /\ t \in plan.retry /\ attempt[t] = 1
  <2>1. step[t] = "settle" /\ proc' = proc /\ \A a \in {1, 2} : proc'[<<t, a>>] # "alive"
    BY <1>5, <1>8 DEF Settle
  <2>2. answer = said[<<t, attempt[t]>>] /\ attempt[t] \in {1, 2}
    BY <1>0 DEF Now
  <2>3. \/ again /\ attempt'[t] = 2 /\ step'[t] = "record" /\ result' = result
        \/ ~again /\ step'[t] = "done" /\ result'[t] = res
    BY <1>0, <1>8 DEF Settle
  <2>4. CASE again
    BY <1>0, <1>1, <1>2, <1>4, <2>1, <2>2, <2>3, <2>4 DEF Agreed, Written
  <2>5. CASE ~again
    <3>1. InOrder(result, t) = res
      <4>1. ~(t \in plan.unready \/ plan.egress[t] = "deny" \/ \E d \in plan.deps[t] : result[d].status # "pass")
        BY <1>2, <2>1
      <4>2. CASE attempt[t] = 1
        <5>1. answer = said[<<t, 1>>] /\ ~(Outcome(t, said[<<t, 1>>]).status = "error" /\ t \in plan.retry)
          BY <2>2, <2>5, <4>2
        <5> QED
          BY <4>1, <5>1 DEF InOrder
      <4>3. CASE attempt[t] = 2
        <5>1. answer = said[<<t, 2>>] /\ Outcome(t, said[<<t, 1>>]).status = "error" /\ t \in plan.retry
          BY <1>2, <2>2, <4>3
        <5> QED
          BY <4>1, <5>1 DEF InOrder
      <4> QED
        BY <2>2, <4>2, <4>3
    <3> HIDE DEF answer, res, again
    <3> QED
      BY <1>3, <2>1, <2>3, <2>5, <3>1 DEF Agreed, Busy
  <2> QED
    BY <2>4, <2>5
<1> QED
  BY <1>6, <1>7, <1>8 DEF Thread

\* So does every step.
LEMMA SameStep == ASSUME Inv, Watched, Answered, SameInv, [Next]_vars PROVE SameInv'
<1> USE DEF ctlVars, taskVars, procVars, lockVars, sigVars
<1>0. /\ TypeOK /\ Ordered /\ Placed /\ \A t \in Tasks : Agreed(t)
      /\ proc \in [Runs -> {"none", "alive", "exited", "killed"}] /\ said \in [Runs -> Answers \cup {NoAnswer}]
      /\ step \in [Tasks -> Steps] /\ \A t \in Tasks, a \in {1, 2} : <<t, a>> \in Runs
  BY DEF Inv, TypeOK, SameInv, Runs
<1>1. ASSUME NEW t \in Tasks, Thread(t), NEW u \in Tasks PROVE Agreed(u)'
  <2>1. CASE u = t
    BY <1>1, <2>1, ThreadAgreed
  <2>2. CASE u # t
    <3>1. /\ step'[u] = step[u] /\ attempt'[u] = attempt[u] /\ result'[u] = result[u]
          /\ \A a \in {1, 2} : proc'[<<u, a>>] = proc[<<u, a>>] /\ said'[<<u, a>>] = said[<<u, a>>]
      BY <1>0, <1>1, <2>2, ThreadAside
    <3>2. plan' = plan /\ \A v \in Tasks \ {t} : result'[v] = result[v]
      BY <1>0, <1>1, ThreadMoves, ThreadAside
    <3>3. ~Written(t)
      BY <1>0, <1>1, ThreadMoves, NeedsAreWritten DEF Busy
    <3> QED
      BY <1>0, <3>1, <3>2, <3>3, AgreedKept
  <2> QED
    BY <2>1, <2>2
<1>2. CASE StartAlone \/ StartPooled
  <2>1. PICK t \in queue \cup alone : Take(t)
    BY <1>2 DEF StartAlone, StartPooled
  <2>2. UNCHANGED <<plan, attempt, proc, said>> /\ phase # "gone"
    BY <1>2 DEF StartAlone, StartPooled, MainRuns
  <2> QED
    BY <2>1, <2>2, TakeAgreed, PlacedStep DEF SameInv
<1>3. ASSUME UNCHANGED <<plan, attempt, result, said>>,
             \A t \in Tasks : step'[t] = step[t] \/ step'[t] = "done",
             \A r \in Runs : proc'[r] = "alive" => proc[r] = "alive"
      PROVE  \A t \in Tasks : Agreed(t)'
  BY <1>0, <1>3, AgreedKept
<1>4. CASE Refuse \/ Resolve \/ WriteSpec \/ NextLayer \/ LastLayer \/ Judge \/ Unwound \/ HandlerTakes \/ Sigterm
  BY <1>3, <1>4, PlacedStep DEF SameInv, Refuse, Resolve, WriteSpec, NextLayer, LastLayer, Judge, Unwound, HandlerTakes, Sigterm
<1>5. CASE HandlerKills \/ KillTree
  BY <1>0, <1>3, <1>5, PlacedStep DEF SameInv, HandlerKills, KillTree
<1>6. CASE HandlerRaises
  BY <1>0, <1>3, <1>6, PlacedStep DEF SameInv, HandlerRaises
<1>7. CASE UNCHANGED vars
  BY <1>3, <1>7, PlacedStep DEF SameInv, vars
<1>8. ASSUME NEW r \in Runs, WorkerEnds(r), NEW t \in Tasks PROVE Agreed(t)'
  <2>1. /\ UNCHANGED <<plan, step, attempt, result>> /\ proc[r] = "alive"
        /\ \A q \in Runs : proc'[q] = "alive" => proc[q] = "alive"
        /\ \A q \in Runs \ {r} : said'[q] = said[q]
    BY <1>0, <1>8 DEF WorkerEnds
  <2>2. CASE r \notin {<<t, 1>>, <<t, 2>>}
    BY <1>0, <2>1, <2>2, AgreedKept
  <2>3. CASE r \in {<<t, 1>>, <<t, 2>>}
    <3>1. ~Written(t) /\ r = <<t, attempt[t]>> /\ attempt[t] \in {1, 2}
      BY <1>0, <2>1, <2>3 DEF Agreed, TypeOK
    <3>2. attempt[t] = 2 => Outcome(t, said[<<t, 1>>])' = Outcome(t, said[<<t, 1>>])
      BY <1>0, <2>1, <3>1 DEF Outcome, Ran
    <3> QED
      BY <1>0, <2>1, <3>1, <3>2 DEF Agreed, Written, Busy
  <2> QED
    BY <2>2, <2>3
<1> QED
  BY <1>1, <1>2, <1>4, <1>5, <1>6, <1>7, <1>8, PlacedStep DEF SameInv, Next, Main, Handler

\* However the pool interleaves the tasks and whatever their workers answer, a run that gets
\* to its report has the results it would have had one task at a time (core/runner.py run).
THEOREM OrderDoesNotMatter == Spec => []SameAsSequential
<1>1. Init => Watched /\ Answered /\ SameInv
  <2> SUFFICES ASSUME Init PROVE Watched /\ Answered /\ SameInv
    OBVIOUS
  <2>1. Watched /\ Answered
    BY ResultFacts DEF Init, Watched, Answered, Recorded, Needed, Busy, Started, Spoken, Reported, Runs
  <2>2. Placed /\ \A t \in Tasks : Agreed(t)
    BY DEF Init, Placed, Agreed, Busy, Written, Runs
  <2> QED
    BY <2>1, <2>2 DEF SameInv
<1>2. Inv /\ Watched /\ Answered /\ SameInv /\ [Next]_vars => Watched' /\ Answered' /\ SameInv'
  BY WatchedStep, AnsweredStep, SameStep
<1>3. ASSUME Inv, SameInv, phase = "ended" PROVE \A t \in plan.only : result[t] = Sequential[t]
  <2>1. /\ TypeOK /\ ~Refused(plan) /\ plan.only \subseteq plan.tasks /\ plan.tasks \subseteq Tasks
        /\ \A t \in plan.only : plan.deps[t] \subseteq plan.only
    BY <1>3, RunnerAssumption DEF Inv, TypeOK, SameInv, Placed, Refused
  <2>2. \A t \in plan.only : Written(t)
    <3>1. \A t \in Tasks : ~Busy(t)
      BY <1>3, RunnerAssumption DEF Inv, Ordered, PoolEmpty
    <3> QED
      BY <1>3, <2>1, <3>1 DEF SameInv, Placed, Inv, Ordered
  <2>3. Solves(result, plan.only)
    BY <1>3, <2>1, <2>2 DEF SameInv, Agreed, Solves
  <2>4. Solves(Sequential, plan.only)
    BY <2>1, SequentialRuns DEF Solves
  <2> QED
    BY <2>1, <2>3, <2>4, OneSolution
<1>4. Inv /\ SameInv => SameAsSequential
  BY <1>3 DEF SameAsSequential
<1> QED
  BY RunnerInvariant, <1>1, <1>2, <1>4, PTL DEF Spec
=============================================================================
