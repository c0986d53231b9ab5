----------------------------- MODULE MCJobIntake ----------------------------
(* Model values for TLC.  The intake of jobs, an account and the reports of *)
(* CI share nothing that they change: a behaviour is one of the three.      *)
EXTENDS JobIntake, Accounts, CiReport

CONSTANTS p1, p2, p3, x1, x2, pr, nightly, f1, f2

VARIABLE machine

\* Two CI jobs push the same run, a third one another.
ExtOf == [p \in Pushes |-> IF p = p3 THEN x2 ELSE x1]

\* Two modes of one pull request.
InputsOf == [l \in Lanes |->
  IF l = pr THEN {[patch |-> TRUE, findings |-> {f1, f2}]}
  ELSE {[patch |-> TRUE, findings |-> {f1, f2}], [patch |-> FALSE, findings |-> {f1}]}]

SomeGates == {[report |-> "passed", code |-> "0"], [report |-> "blocked", code |-> "1"],
              [report |-> "none", code |-> "2"], [report |-> "passed", code |-> "2"],
              [report |-> "passed", code |-> "none"]}

\* A re-run with trouble, two modes side by side, and a push to the main branch.
Tries(p, n) == [l \in Lanes |-> IF l = pr THEN p ELSE n]
SomeSettings ==
  {[services |-> {"pr", "github", "jira"}, attempts |-> Tries(2, 0), trouble |-> 2],
   [services |-> {"pr", "github", "jira"}, attempts |-> Tries(2, 1), trouble |-> 0],
   [services |-> {"github", "history", "webhook"}, attempts |-> Tries(1, 1), trouble |-> 1]}

OneInit == /\ Init /\ AccountsInit /\ CiInit
           /\ machine \in {"intake", "account", "ci"}
           /\ machine # "ci" => setting = CHOOSE s \in SomeSettings : TRUE
OneNext ==
  /\ UNCHANGED machine
  /\ \/ machine = "intake" /\ Next /\ UNCHANGED <<accountVars, ciVars>>
     \/ machine = "account" /\ AccountsNext /\ UNCHANGED <<vars, ciVars>>
     \/ machine = "ci" /\ CiNext /\ UNCHANGED <<vars, accountVars>>
OneSpec == OneInit /\ [][OneNext]_<<machine, vars, accountVars, ciVars>>
=============================================================================
