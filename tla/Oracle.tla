-------------------------------- MODULE Oracle ------------------------------
(* The oracles (src/qc_agent/oracle): what is concluded from the figures    *)
(* and signals an adapter took from the output of a tool.  An oracle is a   *)
(* record whose kind names one of them; OracleError is a value here.        *)
EXTENDS Integers

\* A metric is <<n>>, or <<>> when what was reported is no number.
IsNumber(m) == m # <<>>

OracleError == [value |-> "error", findings |-> {}]

\* A deterministic finding, by the name of what was asserted.
Found(name) == [by |-> name, llm |-> FALSE]

\* The operators of an assertion are < <= > >= == and !=.
Holds(a, n) == CASE a.op = "lt" -> n < a.bound
                 [] a.op = "le" -> n <= a.bound
                 [] a.op = "gt" -> n > a.bound
                 [] a.op = "ge" -> n >= a.bound
                 [] a.op = "eq" -> n = a.bound
                 [] a.op = "ne" -> n # a.bound

\* Every asserted metric must have been measured before any is compared.
Threshold(assertions, metrics) ==
  LET failed == {a \in assertions : ~Holds(a, metrics[a.metric][1])}
  IN  IF assertions = {} \/ \E a \in assertions : \/ a.metric \notin DOMAIN metrics
                                                  \/ ~IsNumber(metrics[a.metric])
        THEN OracleError
        ELSE [value |-> IF failed = {} THEN "pass" ELSE "fail",
              findings |-> {Found(a.metric) : a \in failed}]

\* A required check that did not run is no ground for a verdict; others play no part.
Checks(required, checks) ==
  LET failed == {n \in required : ~checks[n]}
  IN  IF required = {} \/ ~(required \subseteq DOMAIN checks) THEN OracleError
        ELSE [value |-> IF failed = {} THEN "pass" ELSE "fail", findings |-> {Found(n) : n \in failed}]

\* Signals of the adapter that the task asked for; it does not pass or fail them.
ImplicitSignals(wanted, detected) ==
  IF wanted = {} THEN OracleError
  ELSE [value |-> "none", findings |-> {Found(n) : n \in wanted \cap detected}]

Trivial == [value |-> "pass", findings |-> {}]

Evaluate(oracle, out) ==
  CASE oracle.kind = "threshold"        -> Threshold(oracle.assertions, out.metrics)
    [] oracle.kind = "checks"           -> Checks(oracle.required, out.checks)
    [] oracle.kind = "implicit_signals" -> ImplicitSignals(oracle.signals, out.detected)
    [] oracle.kind = "trivial"          -> Trivial
    [] OTHER                            -> OracleError
=============================================================================
