-------------------------------- MODULE Gate --------------------------------
(* core/findings.py normalize and core/verdict.py gate_verdict: the pure    *)
(* function from the results of a run to its verdict.  Titles, fingerprints *)
(* and counts are left out; suite and rule id of an override are one name.  *)
EXTENDS SequencesExt

Levels   == {"low", "medium", "critical"}
Verdicts == {"PASSED", "PASSED_WITH_WARNINGS", "BLOCKED"}

\* Below, results is a function from the tasks a result was found for to
\* [status, gating, llm, items]: llm says that the verdict is an LLM's judgment,
\* items are the findings [hint, rule, llm] as the worker reported them; lane is
\* a function from the selected tasks; policy is [onSkipped, blockOn, default,
\* overrides].
Ran(result) == result.status \in {"pass", "fail"}

GateTasks(lane) == {t \in DOMAIN lane : lane[t] = "gate"}

\* The overrides of the policy apply one after the other.
Overridden(severity, rule, policy) ==
  FoldLeft(LAMBDA s, o : IF o.rule \in {rule, "*"} /\ o.from = s THEN o.to ELSE s,
           severity, policy.overrides)

\* _make: the severity of a finding, after the overrides and the cap.
Severity(f, lane, policy) ==
  LET asked == Overridden(IF f.hint = "none" THEN policy.default ELSE f.hint, f.rule, policy)
  IN  IF lane = "discovery" \/ f.llm THEN "low"
      ELSE IF asked \in Levels THEN asked ELSE "medium"

\* The findings of one task: what its worker reported if it ran, that it failed
\* without a word, or that the gate lets it be skipped.
Findings(result, lane, policy) ==
  {[kind |-> "item", hint |-> i.hint, rule |-> i.rule, llm |-> i.llm] :
     i \in {i \in result.items : Ran(result)}}
  \cup {f \in {[kind |-> "failed", hint |-> "none", rule |-> "none", llm |-> result.llm]} :
          result.status = "fail" /\ result.items = {}}
  \cup {f \in {[kind |-> "skipped", hint |-> "low", rule |-> "none", llm |-> result.llm]} :
          result.status = "skipped" /\ lane = "gate" /\ policy.onSkipped = "yellow"}

\* Mutant: the cap of _make is all that keeps an LLM's finding from blocking.
BlocksByLevel(f, lane, policy) ==
  lane = "gate" /\ f.kind # "skipped" /\ Severity(f, lane, policy) \in policy.blockOn

\* gate_verdict: does a finding of a task in this lane block?
Blocks(f, lane, policy) ==
  /\ lane = "gate" /\ ~f.llm /\ f.kind # "skipped"
  /\ Severity(f, lane, policy) \in policy.blockOn

\* Mutant: a gate task without a result is not looked at.
InfraBlockersOfResults(results, lane, policy) ==
  {t \in GateTasks(lane) \cap DOMAIN results :
     results[t].status \in {"error"} \cup (IF policy.onSkipped = "fail" THEN {"skipped"} ELSE {})}

\* The gate tasks that block whatever was found.
InfraBlockers(results, lane, policy) ==
  {t \in GateTasks(lane) :
     \/ t \notin DOMAIN results
     \/ results[t].status = "error"
     \/ results[t].status = "skipped" /\ policy.onSkipped = "fail"}

\* "No gate" is a blocker of its own: there are gate tasks and none was judged.
Ungated(results, lane) ==
  /\ GateTasks(lane) # {}
  /\ \A t \in GateTasks(lane) \cap DOMAIN results : ~(results[t].gating /\ Ran(results[t]))

Blocked(results, lane, policy) ==
  \/ InfraBlockers(results, lane, policy) # {}
  \/ Ungated(results, lane)
  \/ \E t \in DOMAIN lane \cap DOMAIN results :
       \E f \in Findings(results[t], lane[t], policy) : Blocks(f, lane[t], policy)

Verdict(results, lane, policy) ==
  IF Blocked(results, lane, policy) THEN "BLOCKED"
  ELSE IF \E t \in DOMAIN lane \cap DOMAIN results : Findings(results[t], lane[t], policy) # {}
       THEN "PASSED_WITH_WARNINGS"
  ELSE "PASSED"
-----------------------------------------------------------------------------
\* For the properties: the results of the gate tasks alone, without what LLMs
\* found.
Unadvised(result) == [status |-> result.status, gating |-> result.gating, llm |-> result.llm,
                      items |-> {i \in result.items : ~i.llm}]
GateOnly(results, lane) ==
  [t \in DOMAIN results \cap GateTasks(lane) |-> Unadvised(results[t])]
=============================================================================
