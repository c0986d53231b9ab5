---------------------------- MODULE RequestBudget ---------------------------
(* What every use of an LLM promises: a run has an allowance of requests,   *)
(* sends none without asking the egress policy, none beyond the allowance   *)
(* and none once it knows to have spent MaxCost, and ends.  Then another    *)
(* run may begin.                                                           *)
EXTENDS Integers

CONSTANTS MaxLines,    \* the largest allowance
          MaxCost,     \* the money a run may spend before its last request
          Amounts      \* what a run may turn out to have spent

VARIABLES allowance,   \* requests the run may still make
          spent,       \* what it knows to have spent
          over         \* it has ended (or none has begun)

budget == <<allowance, spent, over>>

Init == allowance = 0 /\ spent = 0 /\ over = TRUE

Begin == over /\ allowance' \in 0..MaxLines /\ spent' = 0 /\ over' = FALSE

\* One request, or the policy's refusal of it.  The run goes on and knows the cost,
\* or ends with it.
Request ==
  /\ ~over /\ allowance > 0 /\ spent < MaxCost
  /\ \/ allowance' = allowance - 1 /\ spent' \in Amounts /\ over' = FALSE
     \/ allowance' = 0 /\ spent' = 0 /\ over' = TRUE

End == ~over /\ allowance' = 0 /\ spent' = 0 /\ over' = TRUE

Next == Begin \/ Request \/ End

Safe == Init /\ [][Next]_budget
Spec == Safe /\ WF_budget(Request \/ End)
=============================================================================
