----------------------------- MODULE OpenAIAgent -----------------------------
(***************************************************************************)
(* The agent over host/llm/openai_compatible.py: what it makes of the      *)
(* conversation and of the answer, and its waiting out of rate limits.     *)
(* Texts, arguments and the tools on offer are left out.                   *)
(***************************************************************************)
EXTENDS AgentLoop, SequencesExt

CONSTANTS NoId,       \* a tool call that came without an id
          Call0,      \* "call_0"
          MaxRetries  \* max_retries

ASSUME OpenAIAssumption == NoId \notin CallId /\ Call0 \in CallId /\ MaxRetries \in Nat

VARIABLE attempt      \* of _post_with_retries()

openAIVars == <<agentVars, attempt>>

OpenAIInit == AgentInit /\ attempt = 0

-----------------------------------------------------------------------------
(* to_openai_messages() *)
Mut_ToolMessages(calls) == IF calls = <<>> THEN <<>> ELSE <<[role |-> "tool", calls |-> <<calls[1]>>]>>

(* One message per result. *)
ToolMessages(calls) == [n \in 1 .. Len(calls) |-> [role |-> "tool", calls |-> <<calls[n]>>]]

Converted(message) ==
    CASE message.kind = "question"  -> <<[role |-> "user", calls |-> <<>>]>>
      [] message.kind = "assistant" -> <<[role |-> "assistant", calls |-> message.calls]>>
      [] message.kind = "results"   -> ToolMessages(message.calls)

ToOpenAIMessages(history) == FlattenSeq([i \in 1 .. Len(history) |-> Converted(history[i])])

(* from_openai_response() *)
CallIds(ids) == [n \in 1 .. Len(ids) |-> IF ids[n] = NoId THEN Call0 ELSE ids[n]]
StopReasonOf(finish_reason) == IF finish_reason = "tool_calls" THEN "tool_use" ELSE "end_turn"

-----------------------------------------------------------------------------
Mut_RateLimited ==
    /\ at = "model"
    /\ attempt' = IF attempt < MaxRetries THEN attempt + 1 ELSE 0
    /\ UNCHANGED agentVars

(* 429 with a delay: wait, and post again. *)
RateLimited ==
    /\ at = "model" /\ attempt < MaxRetries
    /\ attempt' = attempt + 1
    /\ UNCHANGED agentVars

(* No answer in time, no connection, a status other than 200 or a 429 that *)
(* is not retried, a body that is not JSON or has no choice: LLMError.     *)
PostFails == ModelFails /\ attempt' = 0

PostSucceeds ==
    \E n \in 0 .. MaxCalls :
        \E ids \in [1 .. n -> CallId \cup {NoId}], finish_reason \in {"tool_calls", "stop"} :
            Respond(CallIds(ids), StopReasonOf(finish_reason)) /\ attempt' = 0

Round == RateLimited \/ PostFails \/ PostSucceeds \/ (ToolStep /\ UNCHANGED attempt)

OpenAINext == Round \/ ((Ask \/ Reset) /\ UNCHANGED attempt)

(* A post, its waits and a tool call all end (RequestsEnd of the sessions). *)
OpenAISpec == OpenAIInit /\ [][OpenAINext]_openAIVars /\ WF_openAIVars(Round)

-----------------------------------------------------------------------------
FirstOfTurn == CHOOSE i \in ThisTurn : \A j \in ThisTurn : i <= j
Sent == ToOpenAIMessages(SubSeq(messages, FirstOfTurn, Len(messages)))

Paired(wire) ==
    \A k \in 1 .. Len(wire) :
        /\ wire[k].role = "assistant" =>
              \A n \in 1 .. Len(wire[k].calls) :
                  k + n <= Len(wire)
                    /\ wire[k + n] = [role |-> "tool", calls |-> <<wire[k].calls[n]>>]
        /\ wire[k].role = "tool" =>
              \E j \in 1 .. k - 1 : wire[j].role = "assistant" /\ k - j <= Len(wire[j].calls)

(* What the provider is sent of the current turn: behind an assistant      *)
(* message with tool calls come exactly its tool messages, id by id, and   *)
(* none stands anywhere else, even when ids are missing or repeat.         *)
TurnOnTheWire == at = "model" => Paired(Sent)

(* Every turn ends: tool rounds and rate-limit waits are both bounded.     *)
TurnEnds == at # "prompt" ~> at = "prompt"
=============================================================================
