# A TLA+ verification of QC-Agent

QC-Agent runs quality-control suites against web projects. A service takes
jobs over HTTP into a PostgreSQL table; executors claim jobs, run each as a
process of the `qc-agent` CLI, and store what it reports; the CLI plans a run
from the policy of the project, starts worker processes (adapters of tools) for
its tasks and judges their results at a gate. In CI the same CLI judges a pull
request, with suites that an LLM may narrow, and publishes what it found. The
cases that are tested come from a catalogue that an LLM proposes and QA reviews.

This directory holds the TLA+ model of the parts where the order of events, or
what several hands do to the same data, matters; the TLC runs that check it on
small instances; and the proofs that TLAPS checks for every instance. Paths below
are relative to `src/qc_agent/` of the repository. `PROJECT.json` names, for every
definition, the lines it models.

    tlc -config Executor.cfg MCJobExecutor.tla        # and so on, see "Runs"
    tlapm JobRepositoryProofs.tla                     # and the other *Proofs

## 1. Inventory

### Components, their state and operations

| component | code | state | operations | modelled in |
|---|---|---|---|---|
| jobs table | `jobs/repository.py`, `jobs/models.py`, `jobs/db.py` | a row per job: status, attempts, `cancel_requested`, `heartbeat_at`, results | `create_job`, `claim_next`, `heartbeat`, `transition`, `requeue_stale`, `request_cancel`, `replace_job_results`, `create_finished_job` | JobRepository, JobExecutor, JobIntake |
| executor | `jobs/executor.py` | main loop, pool of worker threads, advisory locks, child processes | `serve`, `_claim`, `reap`, `_run_job_logged`, `_supervise`, `_stop`, `_store_results`, `_finalize`, `_notify_finished` | JobExecutor |
| job intake | `api/routes/jobs.py`, `api/routes/ingest.py`, `api/deps.py` | the table and run directories | `create_job`, `cancel_job`, `ingest_run` | JobIntake, JobExecutor |
| accounts | `auth/`, `api/routes/auth.py` | password, failed logins, lock, sessions | login, change, reset, deactivate, logout | Accounts |
| engine, runner | `core/engine.py`, `core/runner.py`, `core/egress.py`, `core/proctree.py` | run directory, layers, thread pool, `_ACTIVE` | `_execute`, `_run_task`, `_spawn`, `terminate_active` | Runner |
| plan | `core/plan.py` | none | `toposort`, `--only` | Plan |
| gate | `core/findings.py`, `core/verdict.py` | none | `normalize`, `gate_verdict` | Gate |
| CLI | `core/cli.py` | none | exit codes, SIGTERM, `--rerender`, `run` | Runner, JobExecutor, LlmUse |
| project policy | `core/project.py`, `run_project` | none | `resolve_project`, `deep_merge`, `load_suites`, `build_plan` | Policy |
| selector | `selector/` | `selection.json`, its cache | rules, hints, Diff Agent, floor, fallback to the full set | Policy, LlmUse |
| registry, contract | `core/registry.py`, `core/schema.py` | workers that answered a probe | `pick`, `check_result_against_spec` | Runner |
| adapters | `adapters/` | reports in the directory of a task | `_base.run`, one `build` and `parse` per tool | Adapters |
| test debt | `adapters/coverage_debt_worker.py` | none | the scan of a pull request, or of a tree | DebtScan |
| oracle | `oracle/` | none | `evaluate` | Oracle |
| LLM client, agent loop | `llm/` | egress log, what was spent | `call_tool`, `run_agent` | LlmCall, AgentLoop |
| generation | `groundtruth/generate.py`, `groundtruth/agent.py`, `core/costing.py` | cache, `llm_usage.json` | `generate`, `generate_agent`, the tools of the agent | LlmUse, AgentLoop |
| catalogue | `groundtruth/cli.py`, `merge.py`, `xlsx.py`, `check.py` | `test-cases.yaml`, the spreadsheet, generated tests | `generate`, `regen`, `import-xlsx`, `export-xlsx`, `validate` | Catalogue |
| integrations, CI | `integrations/`, `.github/workflows/qc-gate.reusable.yml` | what GitHub and Jira hold | reviews, tickets, Check Run, comment, webhook | CiReport |

The remaining parts (rendering of reports, settings, read-only routes, migrations,
scaffolding, evaluation tools, the web page) keep no state that several actors
share; `PROJECT.json` lists them with the reason they are left out.

### Interactions

* API, executors and reapers share only the table. PostgreSQL at READ COMMITTED
  makes each UPDATE atomic on a row, and nothing more: an operation of two
  statements can meet anything in between. The same holds of an account's row.
* An executor and its child share the run directory and `report.json`. The child
  runs in a session of its own and learns of a stop only by SIGTERM.
* Executors exclude each other from an environment (`concurrency_key`) by
  PostgreSQL advisory locks, which live as long as their database session.
* In the CLI the main thread, the threads of the pool and a signal handler share
  `_ACTIVE` and a lock that is not reentrant.
* Two attempts of a task share a directory, and the tools leave their reports there.
* The gate is a pure function of the results on disk, called at the end of a run
  or later, by `--rerender`, on what an interrupted run left.
* `select` writes `selection.json`, which the gate of a pull request reads; the suites
  both read lie in the tree that the pull request may have changed.
* QA edits YAML and spreadsheet at any time, also while a command waits for an LLM.
* The jobs of CI for one pull request see each other only through what GitHub and
  Jira answer; a request can take effect without its answer arriving.

### What is hard here

Statements of several sessions that interleave (cancel, requeue, claim; login and
reset); owners that come back late; crashes with children that survive; locks taken
for candidates that are then not claimed; results and status written in separate
transactions; limits checked before an insert; pushes and posts that are sent again;
parallel tasks whose outcome must not depend on the schedule; a retry after a
timeout over the reports of the first attempt; SIGTERM at any point of a run; costs
of requests whose answer never came; a selection that errors must not narrow; a
catalogue edited in two places. `PROJECT.json` "hazards" lists each with its line.

## 2. Modules

    JobStates      the statuses and transitions of jobs/models.py
    JobLifecycle   abstract: what the table promises about each row
    JobRepository  the SQL statements of jobs/repository.py      implements JobLifecycle
    JobExecutor    EXTENDS JobRepository: executors, children, faults
    JobIntake      creation of jobs, pushes of finished runs
    Accounts       one account and the transactions that use it
    Plan           layers and --only
    Gate           findings and verdict
    Runner         EXTENDS Plan, Gate: one run of the CLI
    Oracle         from figures and signals to a verdict
    Adapters       EXTENDS Oracle: one task's tool, attempt after attempt
    DebtScan       the scan for surfaces without a test
    LlmCall        one call with its retries and fallbacks
    AgentLoop      EXTENDS LlmCall: the agent and its tools
    Policy         project policy, suites, selection, plan (operators only)
    RequestBudget  abstract: what every use of an LLM promises
    LlmUse         EXTENDS AgentLoop, Policy: generate, agent, select, the gate's plan
                                                                 implements RequestBudget
    Catalogue      YAML, spreadsheet and tests of the ground truth
    CiReport       what a job of the workflow publishes
    *Proofs        theorems; MC* model values for TLC

`JobExecutor` and `JobIntake` meet only in the rows of the table: intake makes
rows in status queued, with which `JobExecutor` starts. The exit codes of the
child in `JobExecutor` are those that follow from the verdict in `Runner`, and the
arbitrary answer of a worker process in `Runner` includes those of `Adapters`.
`CiReport!Push` sends what `JobIntake` receives.

### JobRepository

One action per UPDATE. `ClaimRow` is `claim_next` from the locked re-read
of the row on; `CancelQueued` and `CancelRunning` are the two statements of
`request_cancel`; `ReapCancelled`, `ReapFailed` and `ReapRequeued` are the three
of `requeue_stale`, between which anything may happen. Time is the three values
of `beat` (`none`, `fresh`, `stale`): `Age` is the passing of `stale_after_s`.
`cutoff` is what the `now()` of a reaper's transaction fixes: the jobs that were
stale then. The callers are arbitrary, so what holds here holds of every caller of these
operations. One form of `transition` that nothing in `src/` calls, `to="running"` (a claim
is `claim_next`), is left out.

### JobExecutor

| code | state and actions |
|---|---|
| `serve`, `_claim`, `claim_next` | `main`, `cands`, `trying`: `StartScan` (unlocked SELECT of the first `ScanLimit`), `CanRun` (advisory lock), `Claim`, `PassOver`, `EndScan`, `ScanFails` |
| `reap` | `Reap`: the statements of JobRepository, between two claims |
| `serve` ends, restart | `LeaveServe`, `Exit`, `Restart` |
| `_run_job_logged`, `_supervise` | `pc`, `job`, `att`, `outcome`: `Start` (with `Archive`), `Heartbeat`, `ChildExited`, `Deadline`, `Stop` |
| `_store_results`, `_finalize`, `_end` | `rows`, `result`: `Store`, `End`, `Abort` |
| `finally`, `_notify_finished` | `Close`, `Notify` |
| the CLI process | `child`, `dir`, `report`, `files`, `log`: `ChildReserve`, `ChildWrites`, `ChildReports`, `ChildExits` |
| failures | `StartFails`, `HeartbeatFails`, `StoreFails`, `EndFails`, `AbortFails`, `Crash`, `LockLost`, `GrowStale` of an owned job ("late") |

The kinds of fault: `crash` (the host dies, children too), `orphan` (the executor
dies, its child lives on), `db` (a statement fails), `spawn` (Popen or the project's
configuration fails), `lock` (the database drops a session), `late` (nobody beats for
`stale_after_s`), `stop` (SIGTERM to the executor). A run says which may happen and
how many. One worker thread per executor is the default `max_concurrent`; several
executors give the concurrency that the code is exposed to. A report is the attempt
that wrote it and its verdict. `files` are the attempts whose results of tasks lie in
`results/` of the run directory, `log` the attempt whose output the log of the job has.
`Store` takes what is there at that moment, whoever wrote it, as `_store_results` globs the
directory: an orphan that still writes into the directory of the next attempt has its
results in that attempt's rows.

### JobIntake

`Count` and `Insert` are the two steps of `create_job`, which no lock joins.
`Send`, `InsertRun`, `StoreRun`, `CommitRun` and `FailRun` are `ingest_run` with
`create_finished_job`: a SELECT of what is committed, an INSERT that waits for an
uncommitted row of the same external id, the files, the commit, the answer. A CI
job may send again at any time. `ingest_run` does not await once it has its body,
so pushes interleave only when several processes serve the API.

### Accounts

A request is one transaction: `BeginLogin`, `BeginChange` and `BeginAdmin` read the
row (`task[h].row` is that snapshot), hashing takes its time, and a second action
writes: `WrongPassword`, `Login`, `ChangePassword`, `ResetPassword`, `Deactivate`,
`Activate`. `Assign` is what SQLAlchemy does: only columns that differ from what was
read are written, and the counter of failures is an UPDATE that increments. `streak`
is a ghost: wrong passwords compared since the last success or lock.

### Plan, Gate, Runner

`Layer`, `Cyclic` and `Refused` are `toposort` and the checks of `engine._select`.
`Verdict` is `normalize` followed by `gate_verdict`, with severities, overrides, the
cap for LLMs and discovery, skipped and missing tasks.

`Runner` is one run: `Resolve`, `WriteSpec` (one file after the other, in the order of the
layers), `NextLayer` and `StartAlone` are the main thread;
`StartPooled`, `Record`, `Spawn`, `Enlist`, `Unlock`, `Collect`, `TimeOut`, `Delist`
and `Settle` are `_run_task`, `_attempt` and `_spawn` in the order of their effects;
`WorkerEnds` is any end of a worker process, with any answer; `Sigterm` and
`Handler*` are the signal handler, which suspends the main thread wherever it is;
`HandlerRaises` and `Unwound` are SystemExit on its way through the pool; `KillTree`
is the executor that loses patience. `EgressFirst` is about the decision of the
policy, which is always taken; that its line in `egress.jsonl` may be lost when the
disk fails is the code's choice (`core/egress.py` swallows the error). What lies in the run
directory is `Files` (results) and `Lanes` (of the specs that are written). `--rerender`
judges these at any time by `RerenderPolicies`: what the report quotes of the policy, or,
as a crashed run has no report, the defaults of `normalize` and "yellow", and in either case
`--on-skipped-gate-task`, if it is given. A file that is cut off is a PlanError in
`_rerender`, so such a crash opens no gate.

### Oracle, Adapters

`Build` is the `build` of one of the ten adapters: what it refuses (`Refuses`), which
old report it deletes (`Cleared`). The tools are external and may look at any of
their units in any order (`Look`, `AskSut`), stumble, write a whole, cut-off or partial
report (`WriteReport`), exit with any code they have or be killed at the wall clock.
`Parse` is the `parse` of each adapter (`Pytest`, `Playwright`, ... `Deepeval`) followed
by `Oracle!Evaluate` and the rules of `_base.run`. `Retry` is the second attempt of
the runner, in the same directory. A `defect` is what may be wrong with the inputs, or, for
Trivy, that the task allows no dependencies and declares its lockfiles (which may be gone).

### DebtScan

A repository is a function from files to what they declare and name. `EditFile` and
`MergeRequest` are developers; `Scan` is the worker on the diff (`DiffSurfaces`) or on
the whole tree. A request is merged once it was scanned with a result, which is an
assumption about the process around the code; `told` and `tested` are ghosts.

### LlmCall, AgentLoop, Policy, LlmUse

`LlmCall` has one action, `Exchange`, per fate of a request (answered, answered badly,
rate limit, server error, timeout before or after the request left, refused, ...),
and decides with `_retryable` and the chain of models whether another follows. `lines`
are the lines of `egress.jsonl`; `unknown` and `usage` is what the error or the answer
tells of costs; `truth` is the ghost of what was really spent: answers that told their
usage (`told`), accepted ones without a usage (`bare`), which the clients count as zeros,
and requests of which nobody knows (`untold`). `AgentLoop` adds turns, the
tool calls of one answer one after the other, the submit and finish tools, and the
three budgets. `LlmUse` is the three users with their caches and their rows of costs, and
the plan the gate makes of a selection (`Gated`), for the policy and tree of a `scene`.
`Policy` has no state: `Resolves`, `DeepMerge`, `Selectable`, `Decision`, `Hints`, `MergeFloor`,
`BuildPlan` and `Enforced` are the functions of `core/project.py`, `selector/rules.py`,
`selector/payload.py` and `run_project`.

### Catalogue

State: `yaml`, `xlsx` (what it shows, `theirs`; what it was rendered from, `base`;
whether it has its `_meta` and can be read), `copy` (a copy of the spreadsheet that QA took
away, for `import-xlsx --xlsx FILE`), `tests` (of each story: absent, rendered, edited, or
edited so that the mark at its head is gone) and the command that runs (`pc`, `job`).
Commands are cut where they write: `StartRegen` reads YAML and sheet and absorbs edits of
the sheet, `StartImport` reads the spreadsheet or the copy, then `LlmAnswers`, `WriteYaml`,
`WriteTests`, `WriteSheet`; QA edits when no command runs and while one waits for the LLM
(`EditYaml`, `EditSheet`, `EditCopy`, `TakeCopy`, `EditTests`); `Abort` ends a command
anywhere. `MergeValue`, `MergedRow`, `MergedItem`, `ImportInto` are the three-way merge,
`Merge` is `merge.py`; `XlsxSync` and `Drifted` are what `gt validate` looks at.

### CiReport

One action per step of a job and per request it sends, in the order of the workflow:
`SearchRefine`, `PostRefine`, `Gate`, `SearchReview`, `PostReview`, `SearchIssues`,
`CreateIssue`, `Push`, `CreateCheckRun`, `ListComments`, `EditComment` or `NewComment`,
`Webhook`, `Enforce`. Each request is answered, lost, or takes effect without an answer.
A lane is a concurrency group of the workflow: its attempts follow each other (a new one
cancels the old, `Lost`), different lanes run side by side. `near` says whether a post is
among those the code reads back (it stops after a number of pages).

## 3. Runs

| run | instance | what it shows |
|---|---|---|
| `executor` | 2 executors, 2 jobs of one key, 2 attempts, one `late` or `crash` | `KeyExclusive`, `OneRunPerKey`, `RunIdFree`, `ResultAgrees`, `DataBeforeEnd` |
| `executor_faults` | 2 executors, 1 job, cancellable, 2 faults of six kinds | `NoLeakedLock`, `OwnerIsCurrent`, `NotifiedOnce`, `EndedIsFrozen` |
| `executor_live` | 2 executors, 1 job, cancellable, 1 fault of any kind | `EveryJobEnds`, `LocksReleased`, and `ImplementsLifecycle`: executors, users and reapers, late owners too, take each row through steps of JobLifecycle only |
| `intake` | JobIntake: 3 requests, limit 1, 2 handlers; 3 pushes of 2 runs, each sent up to twice. Accounts: 2 callers, lock at 2 failures. CiReport: 2 lanes, 2 findings, 2 troubles | `OneRunPerExternalId`, `OverrunIsBounded`; `TriesAreBounded`, `SessionsAreCurrent`; `PostsAreFew`, `GreenMeansPassed` |
| `runner` | Runner: 7 plans of up to 3 tasks, 5 kinds of answer and none, one SIGTERM. Adapters: ten tools, 2 units, two attempts | `ExclusiveAlone`, `EgressFirst`, `SameAsSequential`, `OpenMeansJudged`, `AdviceNeverBlocks`, `NothingLeft`, `EveryRunEnds`; `PassIsEarned`, `FailIsReal` |
| `llm` | 2 models, 1 retry, 3 turns of 2 tool calls, 18 policies, trees and diffs, 2 commands | `NothingSpentUnseen`, `NarrowedByAnswerOnly`, `FloorKept`, `CompletedCovers`, `BudgetKept` |
| `catalogue` | Catalogue: 2 stories, 2 proposed cases and one by hand, 2 edits, 3 commands. DebtScan: 7 files, 4 surfaces, 2 edits, 2 requests | `NoTwins`, `ReimportIsIdle`, `EditsLand`, `DecisionsStand`, `NothingApprovesItself`, `RegenRepairs`; `DebtIsTold`, `DebtIsReal` |
| `repository_refuse`, `executor_late_owner`, `executor_orphan`, `runner_sigterm`, `catalogue_wait` | small instances, or those of the passing runs | a disagreement between the code and what it says of itself, section 6 |

Three runs check machines that share nothing: the initial state chooses which one a
behaviour is (`machine` in MCJobIntake and MCCatalogue, `tool` in MCRunner), and the others
stand still. The state spaces add, they do not multiply.

Why the bounds are enough to be interesting. Two jobs of one key with two
executors make every conflict on a lock or a row; a third executor would repeat the
second. Two attempts give a first, a last, and the requeue between them. One late
heartbeat is what it takes to have two owners of one job, whose attempts share its
directory; two faults let the second strike the recovery from the first (a database error and then another one in
the handler of it). `ScanLimit` 2 is as many as there are jobs; the hazard that a
job waits behind the limit is left to the argument that those before it end. Three
requests with a limit of one and two handlers pass the limit and are stopped by the
next bound. Two callers with a lock at two failures compare a third password; a reset
can fall between any two steps of a login. Two lanes post the same finding side by side;
two troubles in a re-run lose an answer and then a search. The plans have two layers, an
exclusive task, a refused plan of either kind, a task without worker, each egress
decision, one thread and two. Answers contain a pass, a fail, advice of an LLM, a critical
finding in discovery, a budget overrun and a broken one; a fail in discovery breaks the
contract and is an error. Two units in two attempts are one seen and one missed, and an
old report of either.

Two models with one retry have a retry, a fallback and a last failure; a price of two
with a budget of three is over after two answers, before the three turns are; prices of
zero leave the turns as the only bound. The scenes are: what the rules decide (code, a
mapped module, documents, nothing, a full-set path), suites that a pull request has emptied,
deleted, moved, doubled or broken, and project files that drop the floor, name no blocking
suite, contradict the schema, stand alone or lack the mode. Two commands let an answer be
kept by the first and used by the second. Two cases with edits of YAML and sheet between
the writes of three commands are a regen over an unimported edit and what repairs it, or an
export, an import that is cut off, and the import again.
Bounds that only the model has: `OwnEntries` and "a selection by hand is a command of its
own" in LlmUse, `MaxTyped`, `MaxEdits` and `MaxCommands` in Catalogue, `MaxWrong`,
`MaxChanges` and `MaxSessions` in Accounts, `MaxTouches` and `MaxRequests` in DebtScan,
`attempts` and `trouble` in CiReport.

Executors are symmetric in the safety runs of `JobExecutor`; the liveness runs use no
symmetry. Deadlock is not checked
where the system may really stop, or where a bound of the model is used up: `intake`,
`llm`, `catalogue`. Every property of a passing run is also run against a mutant of the
code (`PROJECT.json` "mutants": a dropped guard, a skipped release, a number off by one,
...) which it catches; the mutants stand beside the definition they change.

### Fairness

`JobExecutor!Fairness`. `serve` is one sequential loop that reaps every
`stale_after_s / 2` seconds and claims whenever the pool has room: weak fairness
of the loop as a whole, and strong fairness of `Reap` and `StartScan`, since each
is disabled while the other is under way but neither is put off for ever. A worker
that watches a child gets out of it by the exit or by the deadline (`Deadline`):
weak fairness of the steps that change its phase, so that heartbeats alone are no
progress. A heartbeat nobody renews grows old. Nothing is assumed of the child, of
users, or of a restart: the repository configures no restart policy, so with one
fault the other executor must do.

`Runner!Fairness`. Threads are scheduled, `communicate` has a timeout, and the
executor that sent SIGTERM kills the tree after its grace period. Nothing is
assumed of the worker processes: they may hang.

`LlmUse!Spec`. Weak fairness of `Work`: every request has a timeout and the tools of the
agent return, so a command that runs goes on. Which fate a request meets is left open:
that the command ends (`BudgetKept`) is due to the counting of retries, models and turns.

## 4. Proofs

TLAPS checks these for every number of jobs, executors, keys, attempts, faults,
plans, answers, callers, lanes, policies, workers, test cases and repositories, from
the assumptions the modules state about their constants.  Every safety property and
every action property of a passing run is a theorem now; TLC checked the inductive
invariants on the runs' instances before they were proved.

* **JobRepositoryProofs.** `RepoInv` is the types with `WaitingHasAttempt`: the
  bound on `attempts` needs that a queued job has one left, since `claim_next` does
  not look. It is inductive over every statement. From it: `EndedJobsStay`, and
  `RepositoryImplementsLifecycle`, by the lemma that in each statement each row makes
  a step the abstract job allows, or none (`EveryRowMoves`). TLC checks the refinement
  of the executors (`executor_live`); this proof is for callers that do anything.
* **JobExecutorProofs.**
  - `ExecInv` adds the types and `Phased`: an executor that tries a candidate or is in a
    phase of a job has one. `ExecutorUsesRepository`: the executors are callers of
    JobRepository and nothing else, so all of the above holds of the whole.
  - `LockInv` is `LockHeld` with the same for candidates being tried; from it
    `OneOwnerPerKey`, even with late heartbeats, and `LocksDoNotLeak`, on each path out of a
    scan and of a job. `OwnedAlone` says that with no late heartbeat an owner's attempt is
    the row's and no other executor has it; it needs that requeue takes only stale jobs
    and that an owned job is not stale, and gives `OwnersAreCurrent`.
  - `UsersAreToldOnce` and `EndedJobsAreFrozen`, without late heartbeats: a job whose user
    was told has ended, and nobody is with it any more (`ToldOnce`).
  - The rest is about *guarded* jobs, which one executor at a time may write to: no
    heartbeat is late, or the lock of the job's key is not lost (`Guarded`, `OwnInv`:
    `LockKeepsAttempt` says that the key keeps a requeued job from being claimed under
    its first owner). `ChildWatched`: unless the database fails under a heartbeat or an
    executor dies without its child (`Orderly`), a child that is alive is in the hands of an
    executor that watches or stops it; with the locks, `OneRunAtATime`. `ReportKept`: what an
    owner is about to judge was written by its own child. From it `RunIdsAreFree` and, with
    what `_finalize` has recorded so far (`ResultKept`), `ResultsAgree`. `DataComesFirst` needs
    all of this too: `ReportKept` says as well that log and results of tasks are that child's
    own, as the directory was empty when it started and no other child is alive; they are
    stored (`StoresItsOwn`) before anything is recorded, on every path (`DataKept`).
  - These hypotheses are no convenience: with an orphan, a database error or a late owner
    the properties fail, which `executor_orphan` and `executor_late_owner` show (section 6).
* **ServiceProofs.** *JobIntake:* `IntakeInv` joins the types with `SentOnce` (a push that is
  under way was sent), `OneWriter` (no two transactions hold an uncommitted row of one external
  id) and `WriterIsNew` (nor is that id committed): `OneRunEach`. For the limit, the
  open jobs and the requests that have counted but not inserted are together fewer than
  `MaxOpen + Handlers`, which counting preserves and inserting leaves alone:
  `OpenJobsAreBounded`. *Accounts:* `LoginInv`: while the account is not locked, the streak
  is at most the counter; once it is, the streak and the comparisons still under way are
  fewer than `MaxFailures` and the callers. `TriesBounded` follows for any number of callers;
  `SessionsCurrent` needs that a login carries the password it has compared.
* **CiReportProofs.** `Inv`: where a lane is about to post, nothing of that key is by this
  lane (`PostIsNew`, `TodoIsNew`, `NewIsFirst`), posts of a lane are unique, and numbers of
  attempts grow. From it `FewPosts` (an injection from the posts of a content into the
  lanes), `WhatIsToldIsThere` and `GreenIsPassed`, whatever requests fail.
* **LlmUseProofs.**
  - *The floor.* A worker that can be selected has a suite (`SelectableTask`), a plan that is
    accepted has a task for each worker whose suites were asked for (`PlanHasTask`), in the
    gate lane if these block; `Enforced` asks for the whole floor (`EnforcedAsks`):
    `FloorIsEnforced`. `SelectInv` says that a selection, and an answer in the cache, names
    workers that have suites; an answer found again still fits since the key of the cache
    holds the suites of each worker (`HitFits`). Together: `FloorKeptAlways`.
  - *Costs.* `CostInv` ties what a command will record to what was really spent, at every
    point of it: the rows so far with `unknown` and `usage` for a call, `unknown` and `tokens`
    for an agent, whose only row is written when it is over. `EverySpendingIsTold`.
  - *Coverage.* An accepted `finish` has no gaps and is the last thing an agent does
    (`CoverInv`): `CompleteIsCovered`.
  - *Narrowing.* `GroundInv` is where a selection came from: the rules, an answer that was
    paid for, the cache, or everything. Everything gives the plan of the whole policy
    (`AllIsWhole`), so another plan has one of the other origins, and what the module map
    hints at is in it (`HintsStay`): `OnlyAnswersNarrow`.
  - *The budget.* `RequestsAreBudgeted`: `LlmUse!Safe` implements the safety part of
    RequestBudget, step by step. `BudgetInv` counts: the requests of a call are as many as
    the models and retries before the one that asks (`Sent`, `Spent`), those of an agent are
    at most its turns. What a call that ends has left of its allowance is given up.
* **RunnerProofs.** First the gate: what LLMs and discovery report does not change whether
  it is closed, for any results, lanes and policy. Then `Inv` is the types, `Ordered` (main
  and the pool share no task; an exclusive one runs with the pool empty) and `Counted` (each
  process was decided on). `Watched`: a process that is alive is being waited for.
  `Answered`: results on disk come from a process that ended by itself or were made up by
  the core, one for each task that is over. `SpecsFirst`: no task is taken before all specs
  are on disk. From these: types, `EgressFirst`,
  `AdviceNeverBlocks`, `ExclusiveAlone`, `NothingLeft`, `DepsRespected`, and, for every policy
  by which a run may be judged again, `OpenMeansJudged`.
  `OrderDoesNotMatter` is `SameAsSequential`. `Placed` says which tasks have a result at
  any point, `Agreed` that each result is the one `InOrder` gives for the results it depends
  on. `Sequential` is a recursive function over the plan, and that such a function exists,
  and is the only one, is shown without induction: of the tasks for which it would not be
  (`SolutionExists`) or would differ (`OneSolution`), one waits for none of the others, as
  the plan has no cycle; and for that one it is.
* **WorkerProofs.** *Adapters:* `AttemptInv` says of any point of an attempt that no file
  of the first attempt is left where `parse` looks (`FreshReport`, `FreshSide`), what a report
  that is there says of each unit, and what an exit code stands for (`FreshCode`). From it,
  tool by tool, that a pass of the oracle means that every unit was seen and fine, and a fail
  that something is wrong (`PytestSound` to `DeepevalSound`), with the two exceptions that
  section 5 names: `PassesAreEarned`,
  `FailsAreReal`, for any finite set of units that is not empty (`AdapterAssumption`: on no
  units at all a tool that looks at each of them has seen nothing wrong).
  *DebtScan:* what was scanned is what is merged (`ScanIsFresh`), so a surface that is new
  without a test was told (`NewDebtIsTold`), and what is told is so (`FoundDebtIsReal`).
* **CatalogueProofs.** `CatInv` has three parts. `CatTypes`: rows without an id are only in
  spreadsheets, and only in what these show, never in the base they were rendered from.
  `FewTyped`: of the ids that QA's rows get, no more are used than rows were typed, so that
  a new row always finds a free one, also when YAML and sheet each have used some
  (`AlwaysNumbered`). `CatalogueAssumption` asks for that many ids; the code counts upwards
  without end. `Planned`: between two writes of a command what it will write is what its
  kind makes of what it read. From the facts about the three-way merge (`MergeFacts`,
  `ImportFacts`) and these: `NoTwinsEver`, `EditsAreNotLost`, `DecisionsAreKept`,
  `OnlyQaApproves`, `RegenRepairsTests`, whatever QA does meanwhile and wherever a command is
  cut. For `ReimportsAreIdle`: what an import makes of YAML and sheet, the same sheet makes of
  again, field by field and entry by entry, as far as it is accepted.

`LockHeld`, the type invariants, `WaitingHasAttempt`, `TerminalIsFinal`, `DepsRespected` and
`ToldIsThere` (`WhatIsToldIsThere`) are proved and no longer
run: TLC agreed with them before they were.

## 5. Only model-checked

`EveryJobEnds`, `LocksReleased`, `EveryRunEnds` and, of `BudgetKept`, that every use of an LLM
ends: liveness rests on fairness and ENABLED, which are beyond the prover. For the same
reason the fairness conjunct of RequestBudget is not proved of LlmUse, only its `Safe`.
The five runs that expect a violation are counterexamples and need no proof.

What the properties do not say:

* `OneRunPerKey`, `RunIdFree` and `DataBeforeEnd` hold with late heartbeats and host crashes
  and not with orphans or database errors: nothing tells a child that its executor is gone, and
  what it goes on writing is stored with the next attempt. `RunIdFree`, `ResultAgrees` and
  `DataBeforeEnd` need the key too: with late heartbeats nothing keeps the second owner of a
  job without one off the run directory of the first. `DataBeforeEnd` is about a job whose end
  records an outcome of its child; "failed" after an error of the executor promises no rows. `LockHeld`
  and `KeyExclusive` do not
  speak of behaviours in which the database drops a session (`"lock" \notin Faults`), nor
  `OwnerIsCurrent` of late heartbeats: the code notices neither. `NotifiedOnce` is for
  behaviours without late heartbeats; a crash between the end of a job and its notification
  loses it.
* `PostsAreFew` counts at most one post per lane and content: two lanes that search before
  either posts do not see each other. It speaks of posts that the code reads back; on a
  crowded pull request the bot's own may be beyond the last page, and it posts again. Jira
  is taken to find an issue once it is created. `GreenMeansPassed` allows a green Check Run
  of a gate that was cut after its report and before its exit code.
* `SessionsAreCurrent` leaves out the session of a login that was under way while the
  password was set.
* `FloorKept` is about plans that are not refused. With `--trigger pr` the engine overwrites
  `--suites` by the selection; a `select` that was refused makes the gate run the full set;
  a selection by hand is not held to the floor, and a narrowed plan is not refused for a
  blocking suite that is missing and was not selected.
* `OpenMeansJudged` is about specs with a gate task: of a run that was cut off before the first
  is written, say one whose only specs are those of discovery, `--rerender` finds nothing to
  judge and shows an open gate. The policy of a crashed run is lost, so its severities are
  judged by the defaults; what must have been judged does not depend on them.
* `NothingSpentUnseen` leaves out an agent whose test cases are none or violate the schema, and
  an accepted answer without a usage, which its row tells as zeros (section 6).
  The selector keeps even a fallback model's answer under the model that was asked for,
  generation does not.
* `PassIsEarned`: skipped tests of pytest count as tests, Playwright's exit code is
  ignored by design, and Trivy passes a task that allows no dependencies having scanned
  nothing, if the lockfiles it declares are there: `docs/worker.md` says that this proves only
  that they exist.
* `DebtIsReal`: a surface that an unchanged file declares already counts as new when a
  second file declares it; a syntax error in an unchanged file can fail the whole scan.
* `EditsLand` is about what a command has read: not about rows that the reader cannot read, a
  file that does not open, edits made while the command runs, the spreadsheet of the project
  when a copy is imported (`import-xlsx --xlsx FILE` writes it anew, over edits that were
  never imported), nor a sheet without its snapshot. `DecisionsStand` is about the YAML that a
  command has read, and `catalogue_wait` shows what it leaves out.
  `NothingApprovesItself` takes the base of a sheet without a snapshot as empty, and compares
  with the YAML that was read: an approval withdrawn while `regen` waits comes back.
* `RegenRepairs` leaves alone a file of a story that is no more once its mark was edited
  away; `gt validate` reports it.
* Hazards without a property of their own, in `PROJECT.json` with the reason: jobs behind the
  first 20 of one busy key (the scan limit is beyond the bounds), a dropped lock session, and
  the lock of `_ACTIVE` for which the handler waits: `EveryRunEnds` counts on the executor to
  kill what is stuck.

## 6. Where the code disagrees with what it says

Each of the first five has a run that shows it.

1. `RefusedOnlyIfEnded` (`jobs/repository.py` `request_cancel`): a job requeued between
   the two UPDATEs is refused as "already ended", though it waits to run again.
2. `LateOwnerKeepsOff` (`jobs/executor.py` `_end`): an owner whose job was requeued and
   claimed by another is meant to stop without overwriting; the compare-and-set is on
   the status, and so it ends the attempt of the other.
3. `OneRunPerKey` with a `db` fault: a database error under a heartbeat leaves
   `_supervise` without stopping the child, and the environment is released under it.
4. `SigtermLeavesNone` (`core/runner.py` `_spawn`): SIGTERM between Popen and
   `_ACTIVE.add` misses the new worker, which outlives the CLI.
5. `DecisionsSurvive` (`groundtruth/cli.py:335-343`): what QA decides in the YAML while
   `regen` waits for the LLM is written over, against `merge.py:3` and
   `docs/groundtruth.md:50`.

The following were met while modelling. The model behaves as the code does, and where a
property touches them it names them as exceptions; they have no run of their own.

6. `llm/client.py:212` (`_usage`; `:313` for Gemini, `llm/agent_loop.py:243` for a turn): an
   accepted answer without a usage is recorded with zeros and no unknown call;
   `core/costing.py:8` says that what is not known is never 0.
7. `groundtruth/agent.py:341-345`: an agent whose test cases are none, or violate the schema
   when assembled, raises a GTError without its calls, so nothing is recorded of what it
   spent; `groundtruth/cli.py:158` says that every cost is.
8. `groundtruth/cli.py:291` (`_absorb_xlsx`): `regen` ignores a syntax error in the sheet when
   what it can read brings nothing new, and writes the sheet anew over it; its docstring and
   `docs/groundtruth.md:252` say that it stops. `export-xlsx` does the same.
9. `groundtruth/cli.py`: `regen` with a sheet that lost its `_meta` merges two ways, so that a
   stale "draft" overrides an approval and the case is then replaced; `import-xlsx --xlsx
   FILE` overwrites unimported edits in the sheet of the project.
10. `groundtruth/xlsx.py` `import_into`: a case that only the YAML has is refused as a
    conflict although no cell was edited on both sides, unlike the three-way merge that
    `docs/groundtruth.md` describes; an edit against a deletion is settled silently, against
    `xlsx.py:10`.
11. `adapters/gitleaks_adapter.py:57` says that no partial report must remain; after a
    timeout one does (the next attempt deletes it).
12. `llm/client.py:590` says that the Diff Agent passes `max_retries=0`; `select` does not.

## 7. Not modelled, and why

Contents: titles, fingerprints, counts, the text of reports and messages, the parsing of
YAML and of tool output, prompts and schemas, globs and the pruning of diffs. Clock skew
between executor and database, which acts as a late or a long-lived heartbeat. The process
tree below a worker, which is one process here: `kill_tree` is taken to do what it says. A
transaction whose commit fails after its answer was built (`api/deps.py`). The canary,
signatures, evidence. Waiting times and the pace of the LLM client. In the catalogue: the
module map, suites, coverage thresholds, `auth.yaml` and `--dry-run`. In CI:
Docker, caches and the start of the system under test. Creation of accounts and API tokens.
Scaffolding, migrations, read-only routes, evaluation scripts and the web page: text in and
text out, or nothing that is shared. `PROJECT.json` names each.

## 8. Plan

1. *(done)* the life of a job, intake, a run and its gate; their types, locks and owners proved.
2. *(done)* accounts, publishing from CI, the LLM client and its users, policy and selection,
   adapters and oracles, the catalogue, test debt; intake, accounts, publishing and the floor
   proved.
3. *(done)* what executors leave of a job, one run at a time, costs, coverage and the budget of
   LLM use, the order of the pool, adapters, test debt and the catalogue proved: no safety or
   action property of a run is without its theorem.
4. Lemmas about operators that the runs only use: `deep_merge` (what is not overridden stays, a
   list replaces a list) and `resolve_project` in Policy; that the layers of `Layer` are all
   of an acyclic plan. Abstract specifications of the catalogue (an edit is a fact that ends
   in the YAML or in a refusal) and of publishing, with refinements proved as those of the
   table and of the budget are.
