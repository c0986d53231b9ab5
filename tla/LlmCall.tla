------------------------------ MODULE LlmCall -------------------------------
(* One call of llm/client.py call_tool.  Claude is asked once; Gemini is    *)
(* asked again after a transient failure and then under the names of the    *)
(* fallback models.  Each request is a line of egress.jsonl before it       *)
(* leaves.  Prompts, schemas, waiting times and the pace are left out.      *)
EXTENDS Integers

CONSTANTS NModels,     \* the model asked for and the configured fallbacks
          MaxRetries   \* QC_LLM_MAX_RETRIES

ASSUME CallAssumption == NModels \in Nat \ {0} /\ MaxRetries \in Nat

VARIABLES provider,    \* "claude" or "gemini", by the name of the model
          callPc,      \* "idle", "ask", "returned", "raised"
          model,       \* which of the models is asked
          retry,       \* how often it was asked again
          unknown,     \* requests of this call nobody knows the cost of
          usage,       \* does the answer, or the error, tell its tokens?
          errKind,     \* LLMError.kind, or "none"
          lines,       \* lines of egress.jsonl
          truth        \* what left the machine: requests that reached the server and
                       \*   whose cost it did not tell, those whose cost it told, and
                       \*   the accepted answers that came without a usage

callVars == <<provider, callPc, model, retry, unknown, usage, errKind, lines, truth>>

\* What happens to a request.  It never reaches the server; it does and no answer
\* comes; it is answered with an HTTP error (transient, or with a quota of the day
\* or a wait that is too long, 404, another); the answer cannot be used, and tells
\* its usage or not; it can, and tells its usage or not.
Lost     == {"connect_timeout", "connect_error"}
Silent   == {"read_timeout", "cut"}
Http     == {"busy", "exhausted", "not_found", "rejected"}
Unusable == {"bad", "bad_bare", "refused", "refused_bare"}
Bare     == {"bad_bare", "refused_bare"}
Accepted == {"good", "good_bare"}
Fates    == Lost \cup Silent \cup Http \cup Unusable \cup Accepted

\* _transport_error, _http_error, _parse and _parse_gemini: the kind of the error.
Kind(f) == CASE f \in {"connect_timeout", "read_timeout"} -> "timeout"
             [] f \in {"connect_error", "cut", "busy", "exhausted"} -> "unavailable"
             [] f \in {"not_found", "rejected"} -> "bad_request"
             [] f \in {"bad", "bad_bare"} -> "bad_output"
             [] f \in {"refused", "refused_bare"} -> "refused"
             [] OTHER -> "none"

\* The server may have charged for it and has not told what.  An accepted answer without
\* a usage is no such request for the client: _usage makes zeros of what is missing.
CostUnknown(f) == IF f \in Silent \cup Bare THEN 1 ELSE 0
TellsUsage(f)  == f \in (Unusable \ Bare) \cup {"good"}
Billed(f) == [untold |-> truth.untold + CostUnknown(f),
             told   |-> truth.told + IF TellsUsage(f) THEN 1 ELSE 0,
             bare   |-> truth.bare + IF f = "good_bare" THEN 1 ELSE 0]
NothingSent == [untold |-> 0, told |-> 0, bare |-> 0]

\* one_model asks the same model again, or gives it up and the next one is asked.
Transient(f)   == f \in {"connect_error", "cut", "busy", "exhausted"}
GivesUp(f)     == f \in {"not_found", "exhausted"} \/ retry >= MaxRetries
AsksAgain(f)   == provider = "gemini" /\ Transient(f) /\ ~GivesUp(f)
FallsBack(f)   == /\ provider = "gemini" /\ (Transient(f) \/ f = "not_found") /\ GivesUp(f)
                  /\ model < NModels

CallInit ==
  /\ provider \in {"claude", "gemini"}
  /\ callPc = "idle" /\ model = 1 /\ retry = 0 /\ unknown = 0 /\ usage = FALSE
  /\ errKind = "none" /\ lines = 0 /\ truth = NothingSent

\* The call begins; or the key is missing, or the configuration is wrong.
StartCall ==
  /\ model' = 1 /\ retry' = 0 /\ unknown' = 0 /\ usage' = FALSE
  /\ \/ callPc' = "ask" /\ errKind' = "none"
     \/ callPc' = "raised" /\ errKind' \in {"missing_key", "bad_request"}

\* egress.record does not allow the request: nothing leaves, no other model is asked.
Denied ==
  /\ callPc = "ask"
  /\ callPc' = "raised" /\ errKind' = "egress_denied" /\ lines' = lines + 1
  /\ UNCHANGED <<provider, model, retry, unknown, usage, truth>>

\* Mutant: what the models asked before did not answer is forgotten.
ExchangeForgetful(f) ==
  /\ callPc = "ask"
  /\ lines' = lines + 1
  /\ truth' = Billed(f)
  /\ unknown' = IF FallsBack(f) THEN 0 ELSE unknown + CostUnknown(f)
  /\ usage' = TellsUsage(f)
  /\ model' = IF FallsBack(f) THEN model + 1 ELSE model
  /\ retry' = IF AsksAgain(f) THEN retry + 1 ELSE IF FallsBack(f) THEN 0 ELSE retry
  /\ callPc' = IF f \in Accepted THEN "returned"
               ELSE IF AsksAgain(f) \/ FallsBack(f) THEN "ask" ELSE "raised"
  /\ errKind' = IF AsksAgain(f) \/ FallsBack(f) THEN "none" ELSE Kind(f)
  /\ UNCHANGED provider

\* The request is recorded, allowed and sent, and meets its fate.
Exchange(f) ==
  /\ callPc = "ask"
  /\ lines' = lines + 1
  /\ truth' = Billed(f)
  /\ unknown' = unknown + CostUnknown(f)
  /\ usage' = TellsUsage(f)
  /\ model' = IF FallsBack(f) THEN model + 1 ELSE model
  /\ retry' = IF AsksAgain(f) THEN retry + 1 ELSE IF FallsBack(f) THEN 0 ELSE retry
  /\ callPc' = IF f \in Accepted THEN "returned"
               ELSE IF AsksAgain(f) \/ FallsBack(f) THEN "ask" ELSE "raised"
  /\ errKind' = IF AsksAgain(f) \/ FallsBack(f) THEN "none" ELSE Kind(f)
  /\ UNCHANGED provider

CallStep == Denied \/ \E f \in Fates : Exchange(f)
=============================================================================
