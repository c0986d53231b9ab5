------------------------------- MODULE Adapters -----------------------------
(* The worker processes: an adapter (src/qc_agent/adapters) deletes the     *)
(* report of an earlier attempt, runs a tool on the units of a task (tests, *)
(* operations, files, cases, ...) until it ends or the wall clock of the    *)
(* budget kills it, parses what the tool left behind and lets an oracle     *)
(* judge it.  The runner repeats an attempt that is an error, once, in the  *)
(* same directory.  The tools are external: a tool may look at any of its   *)
(* units in any order, stumble, die, be killed, and leave behind a report   *)
(* that is missing, cut off or incomplete, in its own way.                  *)
EXTENDS Oracle, FiniteSets

CONSTANTS Units,      \* what a tool has to look at
          Tools       \* those used, of ToolNames

VARIABLES tool,       \* the tool of the task
          lane,       \* "gate" (a verdict is expected) or "discovery"
          defect,     \* what is wrong with the inputs of the task, or "none"
          round,      \* the attempt
          at,         \* "build", "exec", "parse", "answered" or "over"; "away" if no
                      \*   adapter runs
          seen,       \* ghost: what the tool really saw of each unit in this attempt
          strayed,    \* ghost: it did something it must not (another host, an HTTP error)
          trouble,    \* it has met an internal error
          code,       \* its exit code, or a reason that there is none
          disk,       \* its report and its second file, in the directory of the task
          answer      \* the result of the attempt

adapterVars == <<tool, lane, defect, round, at, seen, strayed, trouble, code, disk, answer>>

ToolNames == {"pytest", "k6", "playwright", "schemathesis", "midscene", "semgrep", "trivy",
              "gitleaks", "coverage_debt", "deepeval"}

\* A task has something to look at; an empty one is a defect of its inputs.
ASSUME AdapterAssumption ==
  /\ IsFiniteSet(Units) /\ Units # {} /\ "no_external_requests" \notin Units
  /\ Tools \subseteq ToolNames

Running == 1000    \* no exit code yet
Dead    == 137     \* by a signal of someone else
Killed  == 1001    \* by the adapter, when the wall clock of the budget was over

NoFile   == [round |-> 0]
NoAnswer2 == [status |-> "none", gating |-> FALSE, findings |-> {}]
Error     == [NoAnswer2 EXCEPT !.status = "error"]

\* What deepeval_metrics, deepeval_collect and the adapter's look at the judge object to.
MetricsRefused == {"bad_metrics"}
CollectRefused == {"bad_collect"}
JudgeRefused   == {"judge_is_sut"}

\* A task for Trivy that allows no dependencies declares its lockfiles: Trivy finds
\* nothing in them, or one is gone, and it finds nothing, or only others.
DeclaredLockfiles == {"declared_empty", "declared_gone", "declared_gone_others_left"}

\* What can be wrong with the inputs.  "inputs" stands for all that is malformed.
Defects ==
  [ pytest        |-> {"inputs", "no_ini_file", "nothing_approved"},
    k6            |-> {"inputs"},
    playwright    |-> {"inputs", "guard_bypassed", "no_npx"},
    schemathesis  |-> {"inputs", "checks_differ"},
    midscene      |-> {"inputs", "telemetry_not_reset", "no_npx"},
    semgrep       |-> {"inputs", "no_rules"},
    trivy         |-> {"inputs", "db_unknown", "db_old", "no_lockfile"} \cup DeclaredLockfiles,
    gitleaks      |-> {"inputs"},
    coverage_debt |-> {"inputs", "base_unknown"},
    deepeval      |-> {"inputs", "no_golden_file"} \cup MetricsRefused \cup CollectRefused \cup JudgeRefused ]

\* With these a tool overlooks units and has nothing to say about it.
Blinding == {"no_ini_file", "nothing_approved", "checks_differ", "no_rules", "db_unknown",
             "no_lockfile", "declared_empty", "declared_gone", "base_unknown"}

AdapterInit ==
  /\ tool \in Tools /\ lane \in {"gate", "discovery"} /\ defect \in Defects[tool] \cup {"none"}
  /\ round = 1 /\ at = "build"
  /\ seen = [u \in Units |-> "todo"] /\ strayed = FALSE /\ trouble = FALSE
  /\ code = Running /\ disk = [report |-> NoFile, side |-> NoFile]
  /\ answer = NoAnswer2
-----------------------------------------------------------------------------
(* build_cmd of each adapter: the defects that it refuses.                  *)

\* Mutant: a pytest.ini beside the tests is not asked for.
PytestRefusesLess == {"inputs"}

PytestRefuses       == {"inputs", "no_ini_file"}
K6Refuses           == {"inputs"}
PlaywrightRefuses   == {"inputs", "guard_bypassed", "no_npx"}
SchemathesisRefuses == {"inputs", "checks_differ"}
MidsceneRefuses     == {"inputs", "telemetry_not_reset", "no_npx"}
SemgrepRefuses      == {"inputs", "no_rules"}
TrivyRefuses        == {"inputs"}
GitleaksRefuses     == {"inputs"}
DebtRefuses         == {"inputs"}
DeepevalRefuses     == {"inputs", "no_golden_file"} \cup MetricsRefused \cup CollectRefused \cup JudgeRefused

Refuses ==
  CASE tool = "pytest"       -> PytestRefuses       [] tool = "k6"            -> K6Refuses
    [] tool = "playwright"   -> PlaywrightRefuses   [] tool = "schemathesis"  -> SchemathesisRefuses
    [] tool = "midscene"     -> MidsceneRefuses     [] tool = "semgrep"       -> SemgrepRefuses
    [] tool = "trivy"        -> TrivyRefuses        [] tool = "gitleaks"      -> GitleaksRefuses
    [] tool = "coverage_debt" -> DebtRefuses        [] tool = "deepeval"      -> DeepevalRefuses

\* Of two files only Playwright's second one is deleted; DeepEval's collected
\* outputs stay until they are collected again.
Cleared == [report |-> NoFile, side |-> IF tool = "playwright" THEN NoFile ELSE disk.side]

\* Mutant: the report of the attempt before is left in place.
BuildOverOld ==
  /\ at = "build"
  /\ IF defect \in Refuses
       THEN at' = "answered" /\ answer' = Error
       ELSE at' = "exec" /\ UNCHANGED answer
  /\ UNCHANGED <<tool, lane, defect, round, seen, strayed, trouble, code, disk>>

\* build_cmd: the inputs are validated, then old reports deleted, then npx is looked for.
Build ==
  /\ at = "build"
  /\ IF defect \in Refuses
       THEN /\ at' = "answered" /\ answer' = Error
            /\ disk' = IF defect = "no_npx" THEN Cleared ELSE disk
       ELSE at' = "exec" /\ disk' = Cleared /\ UNCHANGED answer
  /\ UNCHANGED <<tool, lane, defect, round, seen, strayed, trouble, code>>
-----------------------------------------------------------------------------
(* The tools.                                                               *)

ToolRuns == at = "exec" /\ code = Running

\* DeepEval's worker asks the SUT for the outputs to be judged; a reply that is
\* no 2xx is recorded, a transport error ends it (exit code 3).
AskSut ==
  /\ ToolRuns /\ tool = "deepeval" /\ disk.side.round # round
  /\ \/ \E stray \in BOOLEAN : /\ strayed' = stray
                               /\ disk' = [disk EXCEPT !.side = [round |-> round, strayed |-> stray]]
                               /\ UNCHANGED code
     \/ code' = 3 /\ UNCHANGED <<strayed, disk>>
  /\ UNCHANGED <<tool, lane, defect, round, at, seen, trouble, answer>>

\* What the tool may see of a unit.  A blinded one overlooks it.
Sights == IF defect \in Blinding THEN {"overlooked"}
          ELSE {"ok", "bad"} \cup IF tool \in {"pytest", "playwright", "schemathesis", "semgrep", "deepeval"}
                                    THEN {"skipped"} ELSE {}

\* One unit.  The guard of Playwright's tests adds what it blocked to its file after
\* each of them, if the tests go through it; the page that Midscene looks at tells its
\* SUT about errors.
Look(u) ==
  /\ ToolRuns /\ ~trouble /\ seen[u] = "todo" /\ disk.report.round # round
  /\ tool = "deepeval" => disk.side.round = round
  /\ \E s \in Sights : seen' = [seen EXCEPT ![u] = s]
  /\ IF tool = "playwright"
       THEN \E stray \in BOOLEAN :
              /\ strayed' = (strayed \/ stray)
              /\ disk' = [disk EXCEPT !.side =
                   [round |-> round, strayed |-> defect # "guard_bypassed" /\ strayed']]
       ELSE IF tool = "midscene"
         THEN strayed' \in {strayed, TRUE} /\ UNCHANGED disk
         ELSE UNCHANGED <<strayed, disk>>
  /\ UNCHANGED <<tool, lane, defect, round, at, trouble, code, answer>>

\* An internal error.
Stumble ==
  /\ ToolRuns /\ ~trouble /\ trouble' = TRUE
  /\ UNCHANGED <<tool, lane, defect, round, at, seen, strayed, code, disk, answer>>

\* How an overlooked unit is reported: deselected tests and absent lockfiles not at
\* all, a file without rules or an operation without checks as good.
Shown(s) == IF s = "overlooked" THEN "ok" ELSE s
Reported == {u \in Units : \/ seen[u] \in {"ok", "bad", "skipped"}
                           \/ seen[u] = "overlooked" /\ tool \in {"schemathesis", "semgrep"}}

\* The report: of all units, or of those seen before the trouble; cut off if the
\* tool dies while it writes.
WriteReport ==
  /\ ToolRuns /\ disk.report.round # round
  /\ trouble \/ \A u \in Units : seen[u] # "todo"
  /\ \E whole \in BOOLEAN :
       /\ disk' = [disk EXCEPT !.report =
            [round |-> round, whole |-> whole, trouble |-> trouble,
             cases |-> [u \in Reported |-> Shown(seen[u])]]]
       /\ code' = IF whole THEN code ELSE Dead
  /\ UNCHANGED <<tool, lane, defect, round, at, seen, strayed, trouble, answer>>

Bad == {u \in Units : seen[u] = "bad"}

\* The exit code of a tool that has done its work.
DoneCode ==
  IF tool = "pytest" /\ \A u \in Units : seen[u] = "overlooked" THEN 5
  ELSE IF tool = "coverage_debt" /\ defect = "base_unknown" THEN 3
  ELSE IF tool \in {"pytest", "playwright", "schemathesis", "midscene", "deepeval"} /\ Bad # {}
         THEN 1 ELSE 0

\* That of a tool in trouble.
TroubleCode == IF tool \in {"playwright", "schemathesis", "midscene", "trivy", "gitleaks"} THEN 1
               ELSE IF tool = "coverage_debt" THEN 3 ELSE 2

\* It ends by itself.  gitleaks need not write a report when there is nothing in it.
Exit ==
  /\ ToolRuns
  /\ \/ trouble \/ disk.report.round = round
     \/ tool = "gitleaks" /\ \A u \in Units : seen[u] = "ok"
  /\ code' = IF trouble THEN TroubleCode ELSE DoneCode
  /\ UNCHANGED <<tool, lane, defect, round, at, seen, strayed, trouble, disk, answer>>

Die ==
  /\ ToolRuns /\ code' = Dead
  /\ UNCHANGED <<tool, lane, defect, round, at, seen, strayed, trouble, disk, answer>>
-----------------------------------------------------------------------------
(* parse_output of each adapter.                                            *)

Nothing == [fits |-> TRUE, metrics |-> <<>>, checks |-> <<>>, detected |-> {}, findings |-> {},
            flowFailed |-> FALSE, raw |-> TRUE]
ParseError == [Nothing EXCEPT !.fits = FALSE]

Measured(metrics) == [Nothing EXCEPT !.metrics = metrics]
Checked(checks)   == [Nothing EXCEPT !.checks = checks]

Readable == disk.report # NoFile /\ disk.report.whole
Listed   == DOMAIN disk.report.cases
Which(s) == {u \in Listed : disk.report.cases[u] = s}
Count(s) == <<Cardinality(Which(s))>>

\* No test collected is measured as such; any other code is no result of tests.
Pytest ==
  IF code = 5 THEN [Measured([tests |-> <<0>>, failures |-> <<0>>]) EXCEPT !.raw = disk.report # NoFile]
  ELSE IF code \notin {0, 1} \/ ~Readable THEN ParseError
  ELSE IF Listed = {} \/ (code = 1) # (Which("bad") # {}) THEN ParseError
  ELSE Measured([tests |-> <<Cardinality(Listed)>>, failures |-> Count("bad")])

\* The summary holds a figure of the requests only if some were made.
K6 ==
  IF ~Readable \/ code # 0 THEN ParseError
  ELSE IF Listed = {} THEN ParseError
  ELSE Measured([failed |-> Count("bad")])

Egress == "no_external_requests"

\* Tests that ran are checks, whatever the exit code; so is what the guard blocked.
Playwright ==
  IF ~Readable \/ disk.side = NoFile THEN ParseError
  ELSE Checked([n \in (Listed \ Which("skipped")) \cup {Egress} |->
                  IF n = Egress THEN ~disk.side.strayed ELSE disk.report.cases[n] = "ok"])

\* Each operation that the tool says it selected must be in the report, and none
\* skipped; every required check holds unless a failure names it.
Schemathesis ==
  IF ~Readable THEN ParseError
  ELSE IF disk.report.trouble \/ Listed # Units \/ Which("skipped") # {} THEN ParseError
  ELSE IF (code # 0) # (Which("bad") # {}) THEN ParseError
  ELSE [Checked([n \in {"not_a_server_error"} |-> Which("bad") = {}]) EXCEPT
          !.findings = {Found(u) : u \in Which("bad")}]

\* What the telemetry of the SUT tells.
TelemetrySignals == IF strayed THEN {"console_error"} ELSE {}

\* A flow that failed by the fault of the infrastructure says nothing of the SUT.
Midscene ==
  IF ~Readable THEN ParseError
  ELSE IF Listed = {} \/ disk.report.trouble THEN ParseError
  ELSE IF (code # 0) # (Which("bad") # {}) THEN ParseError
  ELSE [Nothing EXCEPT !.flowFailed = Which("bad") # {},
                       !.detected = TelemetrySignals \cup
                         IF Which("bad") # {} THEN {"element_not_found"} ELSE {}]

\* One finding for each thing that the report names.
Alerts == {Found(u) : u \in Which("bad")}

\* A file that could not be scanned stands in errors[].
Semgrep ==
  IF code # 0 \/ ~Readable THEN ParseError
  ELSE IF disk.report.trouble \/ Which("skipped") # {} THEN ParseError
  ELSE [Measured([high |-> Count("bad"), scanned |-> <<Cardinality(Listed)>>]) EXCEPT
          !.findings = Alerts]

DatabaseKnown  == defect # "db_unknown"
ManifestsThere == defect \notin {"declared_gone", "declared_gone_others_left"}

\* Lockfiles that are declared must be there, whatever was scanned.  Nothing to scan
\* is no result unless it is declared, and then zero of everything; the age of the
\* database is a metric.
Trivy ==
  IF code # 0 \/ ~Readable THEN ParseError
  ELSE IF ~DatabaseKnown \/ ~ManifestsThere \/ (Listed = {} /\ defect \notin DeclaredLockfiles) THEN ParseError
  ELSE [Measured([high |-> Count("bad"), age |-> IF defect = "db_old" THEN <<15>> ELSE <<1>>]) EXCEPT
          !.findings = Alerts]

\* No report is good news only in the tool's own words (it prints "no leaks found").
Gitleaks ==
  IF code # 0 THEN ParseError
  ELSE IF disk.report = NoFile
    THEN IF \A u \in Units : seen[u] = "ok" THEN Measured([count |-> <<0>>]) ELSE ParseError
  ELSE IF ~disk.report.whole THEN ParseError
  ELSE [Measured([count |-> Count("bad")]) EXCEPT !.findings = Alerts]

\* The worker says "error" itself, and then exits with 3.
CoverageDebt ==
  IF ~Readable THEN ParseError
  ELSE IF disk.report.trouble \/ code # 0 THEN ParseError
  ELSE [Measured([new |-> Count("bad")]) EXCEPT !.findings = Alerts]

\* What a judge, or the one to fall back to, thinks of the outputs.
Advice == {[by |-> "GEval", llm |-> TRUE]}

\* Every metric of every collected case must have been tested.
Deepeval ==
  IF code = 3 \/ ~Readable \/ disk.side = NoFile THEN ParseError
  ELSE IF Which("skipped") # {} \/ Listed # Units THEN ParseError
  ELSE IF code \notin {0, 1} \/ (code = 1) # (Which("bad") # {}) THEN ParseError
  ELSE [Checked([all_metrics |-> Which("bad") = {}, all_http_2xx |-> ~disk.side.strayed]) EXCEPT
          !.findings = {Found(u) : u \in Which("bad")} \cup Advice]

Parsed ==
  CASE tool = "pytest"       -> Pytest       [] tool = "k6"            -> K6
    [] tool = "playwright"   -> Playwright   [] tool = "schemathesis"  -> Schemathesis
    [] tool = "midscene"     -> Midscene     [] tool = "semgrep"       -> Semgrep
    [] tool = "trivy"        -> Trivy        [] tool = "gitleaks"      -> Gitleaks
    [] tool = "coverage_debt" -> CoverageDebt [] tool = "deepeval"     -> Deepeval
-----------------------------------------------------------------------------
Asserted(metric, op, bound) == [metric |-> metric, op |-> op, bound |-> bound]

\* The oracles of the generated suites.
OracleOf ==
  LET threshold(as) == [kind |-> "threshold", assertions |-> as]
      checks(names) == [kind |-> "checks", required |-> names]
  IN  CASE tool = "pytest"  -> threshold({Asserted("failures", "eq", 0), Asserted("tests", "ge", 1)})
        [] tool = "k6"      -> threshold({Asserted("failed", "lt", 1)})
        [] tool = "playwright" -> checks(Units \cup {Egress})
        [] tool = "schemathesis" -> checks({"not_a_server_error"})
        [] tool = "midscene" -> [kind |-> "implicit_signals", signals |-> {"element_not_found", "console_error"}]
        [] tool = "semgrep" -> threshold({Asserted("high", "eq", 0), Asserted("scanned", "ge", 1)})
        [] tool = "trivy"   -> threshold({Asserted("high", "eq", 0), Asserted("age", "le", 14)})
        [] tool = "gitleaks" -> threshold({Asserted("count", "eq", 0)})
        [] tool = "coverage_debt" -> threshold({Asserted("new", "eq", 0)})
        [] tool = "deepeval" -> checks({"all_metrics", "all_http_2xx"})

\* _verdict: a task of the gate needs the oracle to decide; one of discovery never
\* gates, and fails as well if its flow failed.
Verdict2(out, judged) ==
  LET all == out.findings \cup judged.findings
  IN  IF lane = "gate"
        THEN IF judged.value \in {"pass", "fail"}
               THEN [status |-> judged.value, gating |-> TRUE, findings |-> all] ELSE Error
        ELSE [status |-> IF out.flowFailed \/ judged.value = "fail" THEN "fail" ELSE "pass",
              gating |-> FALSE, findings |-> all]

\* _run, after the tool: parse_output, evaluate, _verdict; then the evidence that the
\* contract asks for (raw_output).  Every exception on the way is an error.
Answered ==
  LET out    == Parsed
      judged == Evaluate(OracleOf, out)
  IN  IF ~out.fits THEN Error
      ELSE IF judged.value = "error" \/ ~out.raw THEN Error
      ELSE Verdict2(out, judged)

\* A report of gitleaks that is not used is not kept either.
Parse ==
  /\ at = "exec" /\ code \notin {Running, Killed}
  /\ at' = "answered" /\ answer' = Answered
  /\ disk' = IF tool = "gitleaks" /\ ~Parsed.fits THEN [disk EXCEPT !.report = NoFile] ELSE disk
  /\ UNCHANGED <<tool, lane, defect, round, seen, strayed, trouble, code>>

\* The wall clock: kill_tree, and an error whatever is on disk.
WallClock ==
  /\ ToolRuns
  /\ code' = Killed /\ at' = "answered" /\ answer' = Error
  /\ UNCHANGED <<tool, lane, defect, round, seen, strayed, trouble, disk>>

\* _run_task of the runner: an error is tried once more, in the same directory.
Retry ==
  /\ at = "answered"
  /\ IF answer.status = "error" /\ round = 1
       THEN /\ round' = 2 /\ at' = "build" /\ answer' = NoAnswer2 /\ code' = Running
            /\ seen' = [u \in Units |-> "todo"] /\ strayed' = FALSE /\ trouble' = FALSE
       ELSE at' = "over" /\ UNCHANGED <<round, answer, code, seen, strayed, trouble>>
  /\ UNCHANGED <<tool, lane, defect, disk>>

AdapterNext == \/ Build \/ AskSut \/ Stumble \/ WriteReport \/ Exit \/ Die
               \/ Parse \/ WallClock \/ Retry
               \/ \E u \in Units : Look(u)

AdapterSpec == AdapterInit /\ [][AdapterNext]_adapterVars
-----------------------------------------------------------------------------
(* Properties.                                                              *)

\* "Never invent": a task of the gate passes only if in this very attempt its tool
\* ended by itself, having seen every unit and found none bad, and did nothing it must
\* not, whatever an earlier attempt left on disk.  Two exceptions: tests of pytest may
\* be skipped, and where the task allows no dependencies and its declared lockfiles
\* are there, Trivy passes it having scanned nothing (trivy.targets is 0).
PassIsEarned ==
  answer.status = "pass" /\ answer.gating =>
    /\ code \notin {Running, Killed} /\ (trouble => tool = "playwright") /\ ~strayed
    /\ \A u \in Units : \/ seen[u] = "ok"
                        \/ tool = "pytest" /\ seen[u] = "skipped"
                        \/ tool = "trivy" /\ defect = "declared_empty" /\ seen[u] = "overlooked"

\* A tool that breaks is an error and never a fail: a task fails only for what its
\* tool really saw in this attempt, or because there was nothing to test or the
\* database was old; and a failing gate says so in a finding that is no LLM's.
FailIsReal ==
  answer.status = "fail" =>
    /\ Bad # {} \/ strayed \/ defect \in {"nothing_approved", "db_old"}
    /\ code \notin {Running, Killed}
    /\ answer.gating => \E f \in answer.findings : ~f.llm
=============================================================================
