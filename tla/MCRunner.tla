------------------------------- MODULE MCRunner -----------------------------
(* Model values for TLC's runs of Runner, and of Adapters: what happens in  *)
(* the directory of one of its tasks while it runs it.                      *)
EXTENDS Runner, Adapters

CONSTANTS t_a, t_b, t_c

Result(status, gating, items) ==
  [status |-> status, gating |-> gating, llm |-> FALSE, items |-> items]
Item(hint, llm) == [hint |-> hint, rule |-> "r", llm |-> llm]
Valid(res) == [valid |-> TRUE, over |-> FALSE, result |-> res]

\* A gate worker passes, also with what an LLM found, or fails; one in discovery
\* passes with a critical finding; one passes but spent too much.
SomeAnswers ==
  { Valid(Result("pass", TRUE, {})),
    Valid(Result("fail", TRUE, {})),
    Valid(Result("pass", TRUE, {Item("critical", TRUE)})),
    Valid(Result("pass", FALSE, {Item("critical", FALSE)})),
    [valid |-> TRUE, over |-> TRUE, result |-> Result("pass", TRUE, {})] }

Policy == [onSkipped |-> "yellow", blockOn |-> {"critical", "medium"}, default |-> "medium",
           overrides |-> <<>>]

\* The test plan: t_a and t_b in one layer, t_c after t_a.
Base ==
  [ tasks |-> Tasks, only |-> Tasks,
    rank |-> [t \in Tasks |-> IF t = t_a THEN 1 ELSE IF t = t_b THEN 2 ELSE 3],
    deps |-> [t \in Tasks |-> IF t = t_c THEN {t_a} ELSE {}],
    lane |-> [t \in Tasks |-> IF t = t_b THEN "discovery" ELSE "gate"],
    unready |-> {}, exclusive |-> {}, retry |-> {t_a},
    egress |-> [t \in Tasks |-> "allow"],
    maxParallel |-> 2, policy |-> Policy ]

\* One layer, the exclusive t_c first, every finding counts.
Flat ==
  [ Base EXCEPT !.rank = [@ EXCEPT ![t_c] = 0], !.deps = [t \in Tasks |-> {}], !.exclusive = {t_c},
                !.lane = [t \in Tasks |-> IF t = t_c THEN "discovery" ELSE "gate"],
                !.policy.blockOn = {"low", "medium", "critical"}, !.policy.onSkipped = "fail",
                !.policy.overrides = << [rule |-> "*", from |-> "low", to |-> "medium"],
                                        [rule |-> "r", from |-> "medium", to |-> "critical"] >> ]

\* A chain on one thread, with a task nobody can take.
Chain ==
  [ Base EXCEPT !.maxParallel = 1, !.deps = [t \in Tasks |-> IF t = t_b THEN {t_a} ELSE {}],
                !.unready = {t_c}, !.retry = {t_a, t_b} ]

\* The same, with a task that the policy lets out only masked and one it does not.
Masked == [ Chain EXCEPT !.egress = [t \in Tasks |-> IF t = t_a THEN "allow" ELSE IF t = t_b THEN "mask" ELSE "deny"],
                         !.unready = {} ]

\* Plans that are refused, and one that --only makes smaller.
Cycle   == [ Base EXCEPT !.deps = [t \in Tasks |-> IF t = t_c THEN {t_a} ELSE IF t = t_a THEN {t_c} ELSE {}] ]
NotOnly == [ Base EXCEPT !.only = {t_b, t_c} ]
OnlyA   == [ Base EXCEPT !.only = {t_a} ]

SomePlans == {Base, Flat, Chain, Masked, Cycle, NotOnly, OnlyA}
OnePlan   == {Chain}

\* The CLI alone, or an adapter beside a plan that is refused.
NoAdapter == /\ tool = "none" /\ lane = "gate" /\ defect = "none" /\ round = 1 /\ at = "away"
             /\ seen = <<>> /\ strayed = FALSE /\ trouble = FALSE /\ code = Running
             /\ disk = [report |-> NoFile, side |-> NoFile] /\ answer = NoAnswer2

EitherInit == \/ Init /\ NoAdapter
              \/ AdapterInit /\ Init /\ plan = Cycle
EitherNext == \/ Next /\ UNCHANGED adapterVars
              \/ AdapterNext /\ UNCHANGED vars
EitherSpec == EitherInit /\ [][EitherNext]_<<vars, adapterVars>> /\ Fairness
RunnerSpec == (Init /\ NoAdapter) /\ [][Next /\ UNCHANGED adapterVars]_<<vars, adapterVars>>
=============================================================================
