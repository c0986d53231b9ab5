----------------------------- MODULE AgentLoop ------------------------------
(* run_agent of llm/agent_loop.py with the tools of groundtruth/agent.py:   *)
(* Claude is asked turn after turn, its tool calls are run one after the    *)
(* other, and the loop stops at an accepted finish_generation, at a budget  *)
(* or with an error.  Messages, tool results and the clock are left out.    *)
EXTENDS LlmCall, FiniteSets

CONSTANTS MaxTurns,        \* AgentBudget.max_turns
          MaxCost,         \* AgentBudget.max_cost_usd
          Prices,          \* of an answer, by the model that gave it; 0: not in PRICES
          MaxUses,         \* tool calls of one answer (a bound of the model)
          MaxRejections,   \* MAX_FINISH_REJECTIONS
          ACs, Cells       \* the acceptance criteria; what the technique and API scores count

ASSUME AgentAssumption ==
  /\ MaxTurns \in Nat \ {0} /\ MaxCost \in Nat \ {0} /\ MaxUses \in Nat \ {0}
  /\ MaxRejections \in Nat /\ Prices \subseteq Nat /\ Prices # {}
  /\ ACs \cap Cells = {}

VARIABLES agentPc,     \* "idle", "turn", "tools", "ended", "raised"
          stop,        \* AgentRun.stop
          tokens,      \* usage of the answers so far
          price,       \* of last_model
          nudges,      \* reminders to call the finish tool
          left,        \* tool calls of the answer that are still to run
          covered,     \* what the submitted test cases cover
          excused,     \* _State.uncovered
          waived,      \* _State.waivers
          rejections,  \* _State.finish_rejections
          completed    \* _State.completed

stateVars == <<covered, excused, waived, rejections, completed>>
agentVars == <<agentPc, stop, tokens, price, nudges, left, stateVars>>

turns == lines          \* each turn is one line of egress.jsonl
cost  == price * tokens \* estimate_cost: 0 when the price is not known

\* A score counts an AC that a test case refers to or that is listed as uncovered, and
\* a technique or an API cell that a test case does or that is waived.
Gaps(c, e, w) == (ACs \ (c \cup e)) \cup (Cells \ (c \cup w))

AgentInit ==
  /\ agentPc = "idle" /\ stop = "none" /\ tokens = 0 /\ price = 0 /\ nudges = 0 /\ left = 0
  /\ covered = {} /\ excused = {} /\ waived = {} /\ rejections = 0 /\ completed = FALSE

FreshRun ==
  /\ stop' = "none" /\ tokens' = 0 /\ nudges' = 0 /\ left' = 0
  /\ covered' = {} /\ excused' = {} /\ waived' = {} /\ rejections' = 0 /\ completed' = FALSE

NoAgent == FreshRun /\ agentPc' = "idle" /\ price' = 0

StartAgent ==
  /\ \/ agentPc' = "turn" /\ errKind' = "none"
     \/ agentPc' = "raised" /\ errKind' \in {"missing_key", "bad_request"}
  /\ FreshRun /\ price' \in Prices

\* Before each turn: the turns, the clock (it may be late at any time), the money.
OutOfTurns == turns >= MaxTurns
OutOfMoney == price # 0 /\ cost >= MaxCost

OutOfBudget ==
  /\ agentPc = "turn"
  /\ stop' \in IF OutOfTurns THEN {"budget_turns"}
               ELSE {"budget_time"} \cup (IF OutOfMoney THEN {"budget_cost"} ELSE {})
  /\ agentPc' = "ended"
  /\ UNCHANGED <<callVars, tokens, price, nudges, left, stateVars>>

\* Mutant: the money is not looked at.
MayAskPoor == agentPc = "turn" /\ ~OutOfTurns
MayAsk == agentPc = "turn" /\ ~OutOfTurns /\ ~OutOfMoney

\* Each turn is one line of egress.jsonl, written before the request.
DeniedTurn ==
  /\ MayAsk
  /\ lines' = lines + 1 /\ agentPc' = "raised" /\ errKind' = "egress_denied"
  /\ UNCHANGED <<provider, callPc, model, retry, unknown, usage, truth,
                 stop, tokens, price, nudges, left, stateVars>>

\* No answer, an HTTP error, or an answer that is not a JSON object: no retry.
LostTurn(f) ==
  /\ MayAsk
  /\ lines' = lines + 1 /\ agentPc' = "raised" /\ errKind' = Kind(f)
  /\ unknown' = CostUnknown(f)
  /\ truth' = [truth EXCEPT !.untold = @ + CostUnknown(f)]
  /\ UNCHANGED <<provider, callPc, model, retry, usage, stop, tokens, price, nudges, left,
                 stateVars>>

\* An answer, of the requested model or of the one that stood in for it; its usage is
\* added, zeros if it has none, and its price is that of all the answers from now on.
Answered ==
  /\ MayAsk
  /\ lines' = lines + 1 /\ price' \in Prices
  /\ \/ tokens' = tokens + 1 /\ truth' = [truth EXCEPT !.told = @ + 1]
     \/ UNCHANGED tokens /\ truth' = [truth EXCEPT !.bare = @ + 1]
  /\ UNCHANGED <<provider, callPc, model, retry, unknown, usage, stop, stateVars>>

\* It refuses or is cut off.
UnusableTurn ==
  /\ Answered
  /\ agentPc' = "raised" /\ errKind' \in {"refused", "bad_output"}
  /\ UNCHANGED <<nudges, left>>

PausedTurn == Answered /\ UNCHANGED <<agentPc, errKind, nudges, left>>

\* It calls no tool: one reminder, then an error.
IdleTurn ==
  /\ Answered
  /\ \/ nudges = 0 /\ nudges' = 1 /\ UNCHANGED <<agentPc, errKind>>
     \/ nudges > 0 /\ agentPc' = "raised" /\ errKind' = "bad_output" /\ UNCHANGED nudges
  /\ UNCHANGED left

ToolTurn ==
  /\ Answered
  /\ agentPc' = "tools" /\ left' \in 1..MaxUses
  /\ UNCHANGED <<errKind, nudges>>

\* The tools run in the order of the answer; the next turn sends their results.
NextTool ==
  /\ agentPc = "tools"
  /\ left' = left - 1
  /\ agentPc' = IF left = 1 THEN "turn" ELSE "tools"
  /\ UNCHANGED <<callVars, stop, tokens, price, nudges>>

\* A tool that reads, plans or reports, an unknown one, wrong arguments, an exception,
\* a submission of which nothing is accepted.
OtherTool == NextTool /\ UNCHANGED stateVars

\* submit_test_cases: each test case refers to an AC at least.
SubmitTool ==
  /\ NextTool
  /\ \E more \in SUBSET (ACs \cup Cells) :
       /\ more \cap ACs # {}
       /\ covered' = covered \cup more
  /\ UNCHANGED <<excused, waived, rejections, completed>>

\* Mutant: the tool calls that follow an accepted finish are run.
FinishToolRunsOn ==
  /\ NextTool
  /\ excused' \in SUBSET ACs
  /\ waived' \in SUBSET (Cells \ covered)
  /\ LET gaps == Gaps(covered, excused', waived') IN
       IF gaps = {} \/ rejections >= MaxRejections
         THEN completed' = (gaps = {}) /\ UNCHANGED rejections
         ELSE rejections' = rejections + 1 /\ UNCHANGED completed
  /\ UNCHANGED covered

\* finish_generation: the excuses and waivers are those of this call, a waiver only of a
\* cell that is open; it is accepted when no gap is left, or after too many rejections,
\* and ends the loop.
FinishTool ==
  /\ agentPc = "tools"
  /\ excused' \in SUBSET ACs
  /\ waived' \in SUBSET (Cells \ covered)
  /\ LET gaps == Gaps(covered, excused', waived') IN
       \/ /\ gaps = {} \/ rejections >= MaxRejections
          /\ completed' = (gaps = {})
          /\ agentPc' = "ended" /\ stop' = "finished"
          /\ UNCHANGED <<left, rejections>>
       \/ /\ gaps # {} /\ rejections < MaxRejections
          /\ rejections' = rejections + 1
          /\ left' = left - 1
          /\ agentPc' = IF left = 1 THEN "turn" ELSE "tools"
          /\ UNCHANGED <<stop, completed>>
  /\ UNCHANGED <<callVars, tokens, price, nudges, covered>>

AgentStep ==
  \/ OutOfBudget \/ DeniedTurn \/ UnusableTurn \/ PausedTurn \/ IdleTurn \/ ToolTurn
  \/ \E f \in Lost \cup Silent \cup Http \cup {"bad_bare"} : LostTurn(f)
  \/ OtherTool \/ SubmitTool \/ FinishTool
=============================================================================
