------------------------------- MODULE LlmUse -------------------------------
(* The three uses of an LLM, one after the other: `ground-truth generate`   *)
(* (groundtruth/generate.py, or groundtruth/agent.py with --agent) and the  *)
(* Diff Agent of `select` (selector/agent.py), with their caches, the rows  *)
(* of llm_usage.json and selection.json, and the plan the gate makes of a   *)
(* selection, or of one that was asked for by hand.                         *)
EXTENDS AgentLoop, Policy

CONSTANTS Scenes,        \* what can be asked to be judged, by name: [default, own, mode,
                         \*   tree, changed], the policies, the suites and the diff
          MaxRuns        \* commands run (a bound of the model)

ASSUME UseAssumption == MaxRuns \in Nat \ {0}

VARIABLES user,       \* "none", "generate", "agent", "select" or "manual"
          scene,      \* which of Scenes, for the last two
          runs,       \* commands begun
          outcome,    \* "running"; "error", "catalog", "partial", "unfit", "refused",
                      \*   "selection"
          attempts,   \* calls of call_tool in this run
          rows,       \* what the rows of this run tell: requests of unknown cost, and
                      \*   costs that are no zeros
          cached,     \* the entries of the two caches: use, scene, workers of the answer
          selection   \* selection.json

useVars == <<user, scene, runs, outcome, attempts, rows, cached, selection>>
vars == <<callVars, agentVars, useVars>>

over == outcome # "running"
NothingSelected == Selection(FALSE, "none", {}, {})

ModesOf(s) == Modes(Scenes[s].default, Scenes[s].own)
PolicyOf   == [s \in {t \in DOMAIN Scenes : Scenes[t].mode \in DOMAIN ModesOf(t)} |->
                 ModesOf(s)[Scenes[s].mode]]
Tree(s)    == Scenes[s].tree

Init ==
  /\ CallInit /\ AgentInit
  /\ user = "none" /\ scene = "none" /\ runs = 0 /\ outcome = "none" /\ attempts = 0
  /\ rows = [untold |-> 0, told |-> 0] /\ cached = {}
  /\ selection = NothingSelected

\* Every command starts with nothing sent and nothing recorded.
BeginRun(u, s) ==
  /\ over /\ runs < MaxRuns
  /\ user' = u /\ scene' = s /\ runs' = runs + 1
  /\ rows' = [untold |-> 0, told |-> 0]
  /\ lines' = 0 /\ truth' = NothingSent

\* The call of call_tool begins, fails at once, or there is none in this run.
FirstCall ==
  /\ StartCall
  /\ attempts' = 1 /\ outcome' = "running"
NoCall ==
  /\ model' = 1 /\ retry' = 0 /\ unknown' = 0 /\ usage' = FALSE
  /\ callPc' = "idle" /\ errKind' = "none" /\ attempts' = 0

--------------------------------------------------------------------------------
(* What the uses share                                                       *)

\* selector/cli.py main refuses a policy or suites it cannot use, and a floor that has no
\* suite.
Askable == {s \in DOMAIN Scenes :
              /\ Resolves(Scenes[s].default, Scenes[s].own)
              /\ s \in DOMAIN PolicyOf
              /\ SuitesLoad(Tree(s))}
CanSelect == {s \in Askable : Floor(PolicyOf[s]) \subseteq Selectable(PolicyOf[s], Tree(s))}

\* select_cache.make_key: the diff, the policy, the suites of the workers.
Question == [s \in DOMAIN Scenes |->
               IF s \notin Askable THEN <<>>
               ELSE <<Scenes[s].changed, ModesOf(s),
                      SuitesByWorker(PolicyOf[s], Tree(s))>>]
Hit(use, s) == {e \in cached : e.use = use /\ (use = "select" => Question[e.scene] = Question[s])}

\* filecache: one entry for a question.
Kept(entry) == (cached \ Hit(entry.use, entry.scene)) \cup {entry}

\* A bound of the model: what a command does not look at is not there when it begins.
OwnEntries(use) == \A e \in cached : e.use = use

\* costing.row, _failed_llm: a row is written for a call that was answered, told its usage
\* or left a request without an answer; it holds both numbers, zeros for an accepted
\* answer without a usage.
Record == rows' = [untold |-> rows.untold + unknown,
                   told   |-> rows.told + IF usage THEN 1 ELSE 0]

--------------------------------------------------------------------------------
(* groundtruth/generate.py generate                                          *)

\* A hit of the cache (the entry may be gone), the token cap, or a first call.
BeginGenerate ==
  /\ OwnEntries("generate")
  /\ BeginRun("generate", "none")
  /\ \/ Hit("generate", "none") # {} /\ NoCall /\ outcome' = "catalog"
     \/ NoCall /\ outcome' = "error"
     \/ FirstCall
  /\ NoAgent /\ selection' = NothingSelected
  /\ UNCHANGED <<provider, cached>>

\* The catalogue is assembled and validated; the answer of the model that was asked
\* for is kept, when the cache is on and can be written.
GenerateAnswered ==
  /\ user = "generate" /\ ~over /\ callPc = "returned"
  /\ Record
  /\ callPc' = "idle"
  /\ \/ outcome' = "catalog" /\ UNCHANGED cached
     \/ outcome' = "catalog" /\ model = 1
        /\ cached' = Kept([use |-> "generate", scene |-> "none", workers |-> {}])
     \/ outcome' = "error" /\ UNCHANGED cached
  /\ UNCHANGED <<provider, model, retry, unknown, usage, errKind, lines, truth, agentVars,
                 user, scene, runs, attempts, selection>>

\* One repair, and only of an answer that could not be used.
GenerateFailed ==
  /\ user = "generate" /\ ~over /\ callPc = "raised"
  /\ Record
  /\ \/ /\ errKind = "bad_output" /\ attempts = 1
        /\ StartCall /\ attempts' = 2
        /\ UNCHANGED outcome
     \/ /\ ~(errKind = "bad_output" /\ attempts = 1)
        /\ outcome' = "error" /\ callPc' = "idle"
        /\ UNCHANGED <<model, retry, unknown, usage, errKind, attempts>>
  /\ UNCHANGED <<provider, lines, truth, agentVars, user, scene, runs, cached, selection>>

--------------------------------------------------------------------------------
(* groundtruth/agent.py generate_agent                                       *)

BeginAgent ==
  /\ OwnEntries("agent")
  /\ BeginRun("agent", "none")
  /\ model' = 1 /\ retry' = 0 /\ unknown' = 0 /\ usage' = FALSE /\ callPc' = "idle"
  /\ attempts' = 0
  /\ \/ provider = "claude" /\ StartAgent /\ outcome' = "running"
     \/ provider # "claude" /\ NoAgent /\ outcome' = "error" /\ errKind' = "bad_request"
  /\ selection' = NothingSelected
  /\ UNCHANGED <<provider, cached>>

\* One row for the whole run, if it knows that anything was or may have been spent.
RecordAgent == rows' = [untold |-> unknown, told |-> tokens]

\* What was submitted becomes the catalogue.  Without a test case there is none, and
\* the error carries the costs if the loop raised it.  It does not if the loop returned,
\* nor if what was assembled of the test cases violates the schema or is empty.
AgentOver ==
  /\ user = "agent" /\ ~over /\ agentPc \in {"ended", "raised"}
  /\ agentPc' = "idle"
  /\ \/ /\ covered # {} /\ RecordAgent
        /\ outcome' = IF agentPc = "ended" /\ completed THEN "catalog" ELSE "partial"
     \/ covered = {} /\ agentPc = "raised" /\ RecordAgent /\ outcome' = "error"
     \/ (covered # {} \/ agentPc = "ended") /\ outcome' = "unfit" /\ UNCHANGED rows
  /\ UNCHANGED <<callVars, stop, tokens, price, nudges, left, stateVars,
                 user, scene, runs, attempts, cached, selection>>

--------------------------------------------------------------------------------
(* selector/agent.py select, selector/payload.py merge_floor                 *)

HintsOf == [s \in CanSelect |->
              Hints(PolicyOf[s], Tree(s), Scenes[s].changed)]
Selected(s, source, ws) == Narrow(PolicyOf[s], Tree(s), source, HintsOf[s] \cup ws)
AllOf == [s \in CanSelect |->
            [source \in {"rules", "fallback"} |-> Full(PolicyOf[s], Tree(s), source)]]

\* The rules ask for everything, for the floor, or for an analysis: then a hit of the
\* cache (the entry may be gone), the token cap, or a call.
BeginSelect == \E s \in DOMAIN Scenes :
  /\ OwnEntries("select")
  /\ BeginRun("select", s)
  /\ \/ s \notin CanSelect /\ NoCall /\ outcome' = "refused" /\ selection' = NothingSelected
     \/ /\ s \in CanSelect /\ Decision(Scenes[s].changed) # "analysis"
        /\ NoCall /\ outcome' = "selection"
        /\ selection' = IF Decision(Scenes[s].changed) = "full" THEN AllOf[s]["rules"]
                        ELSE Selected(s, "rules", {})
     \/ /\ s \in CanSelect /\ Decision(Scenes[s].changed) = "analysis"
        /\ \/ /\ NoCall /\ outcome' = "selection"
              /\ \E e \in Hit("select", s) : selection' = Selected(s, "cache", e.workers)
           \/ NoCall /\ outcome' = "selection" /\ selection' = AllOf[s]["fallback"]
           \/ FirstCall /\ selection' = NothingSelected
  /\ NoAgent
  /\ UNCHANGED <<provider, cached>>

\* --trigger manual --workers.
BeginManual == \E s \in DOMAIN Scenes, ws \in SUBSET DOMAIN Manifests :
  /\ runs = 0 \* a bound of the model: it shares nothing with other commands
  /\ BeginRun("manual", s) /\ NoCall /\ NoAgent
  /\ IF s \in Askable /\ ws # {} /\ ws \subseteq Selectable(PolicyOf[s], Tree(s))
     THEN outcome' = "selection" /\ selection' = Manual(PolicyOf[s], Tree(s), ws)
     ELSE outcome' = "refused" /\ selection' = NothingSelected
  /\ UNCHANGED <<provider, cached>>

\* The answer names workers of the list (the schema of the tool), whichever model gave
\* it, and is kept for the same question.
SelectAnswered ==
  /\ user = "select" /\ ~over /\ callPc = "returned"
  /\ Record
  /\ callPc' = "idle" /\ outcome' = "selection"
  /\ \E ws \in SUBSET Selectable(PolicyOf[scene], Tree(scene)) :
       /\ selection' = Selected(scene, "llm", ws)
       /\ cached' \in {cached, Kept([use |-> "select", scene |-> scene, workers |-> ws])}
  /\ UNCHANGED <<provider, model, retry, unknown, usage, errKind, lines, truth, agentVars,
                 user, scene, runs, attempts>>

\* Mutant: a call that timed out leaves what the rules found.
SelectFailedNarrow ==
  /\ user = "select" /\ ~over /\ callPc = "raised"
  /\ Record
  /\ callPc' = "idle" /\ outcome' = "selection"
  /\ selection' = IF errKind = "timeout" THEN Selected(scene, "fallback", {}) ELSE AllOf[scene]["fallback"]
  /\ UNCHANGED <<provider, model, retry, unknown, usage, errKind, lines, truth, agentVars,
                 user, scene, runs, attempts, cached>>

\* Every error selects everything; _failed_llm tells what it cost.
SelectFailed ==
  /\ user = "select" /\ ~over /\ callPc = "raised"
  /\ Record
  /\ callPc' = "idle" /\ outcome' = "selection"
  /\ selection' = AllOf[scene]["fallback"]
  /\ UNCHANGED <<provider, model, retry, unknown, usage, errKind, lines, truth, agentVars,
                 user, scene, runs, attempts, cached>>

\* The gate of the same tree; a select that was refused leaves no selection, and workers
\* that were refused no gate.
PlanFor(s, trigger, chosen) ==
  GatePlan(Scenes[s].default, Scenes[s].own, Scenes[s].mode, trigger, Tree(s), chosen)
Whole == [s \in DOMAIN Scenes |-> PlanFor(s, "pr", Unavailable)]
Gated == IF outcome = "selection"
         THEN PlanFor(scene, IF user = "manual" THEN "manual" ELSE "pr", selection)
         ELSE IF user = "manual" THEN Refused ELSE Whole[scene]

--------------------------------------------------------------------------------
CallOfUser  == ~over /\ user \in {"generate", "select"} /\ CallStep
               /\ UNCHANGED <<agentVars, useVars>>
TurnOfAgent == ~over /\ user = "agent" /\ AgentStep /\ UNCHANGED useVars

Begin == BeginGenerate \/ BeginAgent \/ BeginSelect \/ BeginManual
Work  == \/ CallOfUser \/ TurnOfAgent
         \/ GenerateAnswered \/ GenerateFailed \/ AgentOver \/ SelectAnswered \/ SelectFailed

Next == Begin \/ Work

\* A request has a timeout and a tool returns: a command that runs goes on.
Safe == Init /\ [][Next]_vars
Spec == Safe /\ WF_vars(Work)

--------------------------------------------------------------------------------
(* Properties                                                                *)

\* A command that has ended has rows for everything it sent: as many requests of unknown
\* cost as were refused or not answered, and every cost it was told (costing.py).  The
\* exceptions are an accepted answer without a usage, which a row tells as zeros, and an
\* agent whose test cases are none or violate the schema: its GTError carries no calls.
NothingSpentUnseen ==
  over /\ outcome # "unfit" => rows.untold = truth.untold /\ rows.told = truth.told

\* A gate runs something else than the whole policy only because the rules saw nothing
\* but documents or because a model answered that question, now or when the entry was
\* kept; no error, refusal or missing answer narrows it, and what the module map hints at
\* stays in (selector/agent.py, run_project).
NarrowedByAnswerOnly ==
  user = "select" /\ over /\ Gated.ok /\ Gated # Whole[scene] =>
    /\ Suites(PolicyOf[scene], Tree(scene), HintsOf[scene]) \subseteq Gated.suites
    /\ \/ selection.source = "rules" /\ Decision(Scenes[scene].changed) = "floor"
       \/ selection.source = "llm" /\ truth.told + truth.bare = 1
       \/ selection.source = "cache" /\ lines = 0

\* Whatever a pull request does to the suites it is judged by, and whatever was selected,
\* each worker of the floor has a task in the gate lane and each selected one some task,
\* or there is no run at all (run_project: floor_enforced_by_core).
FloorKept ==
  user \in {"select", "manual"} /\ over /\ Gated.ok =>
    /\ user = "select" =>
         \A w \in Floor(PolicyOf[scene]) :
           \E t \in Gated.tasks : t.lane = "gate" /\ w \in WorkersFor(t)
    /\ outcome = "selection" =>
         \A w \in selection.workers : \E t \in Gated.tasks : w \in WorkersFor(t)

\* A catalogue that the agent calls complete leaves no AC without a test case or an
\* excuse and no cell without a test case or a waiver (_State.finish_tool).
CompletedCovers ==
  user = "agent" /\ outcome = "catalog" => Gaps(covered, excused, waived) = {}

\* No use sends more requests than its own bound allows, whatever fails and whatever
\* is answered; an agent that knows to have spent its money sends no other; every
\* command ends.
PerCall == IF provider = "gemini" THEN NModels * (MaxRetries + 1) ELSE 1
Allowance == CASE user = "generate" -> 2 * PerCall
               [] user = "select" -> PerCall
               [] user = "agent" -> MaxTurns
               [] OTHER -> 0
MostLines == 2 * NModels * (MaxRetries + 1) + MaxTurns

Budget == INSTANCE RequestBudget WITH
            MaxLines  <- MostLines,
            Amounts   <- {p * t : p \in Prices, t \in 0..MaxTurns},
            allowance <- IF over THEN 0 ELSE Allowance - lines,
            spent     <- IF over \/ user # "agent" THEN 0 ELSE cost
BudgetKept == Budget!Spec
=============================================================================
