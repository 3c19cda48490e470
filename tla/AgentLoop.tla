------------------------------ MODULE AgentLoop ------------------------------
(***************************************************************************)
(* host/agent.py and host/session.py: the loop model - tool calls - tool   *)
(* results - model, and the conversation it leaves in the session.         *)
(*                                                                         *)
(* A message keeps its kind and the ids of the tool calls it makes or      *)
(* answers.  One thread runs it all; any step of a turn may raise, and     *)
(* host/main.py then keeps the session and goes back to the prompt.        *)
(***************************************************************************)
EXTENDS Naturals, Sequences

CONSTANTS CallId,         \* tool_use ids; a provider may repeat one
          MaxIterations,  \* max_iterations
          MaxTurns,       \* bound: questions asked
          MaxCalls        \* bound: tool calls of one response

ASSUME AgentAssumption == /\ MaxIterations \in Nat \ {0}
                          /\ MaxTurns \in Nat /\ MaxCalls \in Nat

VARIABLES at,         \* "prompt", or in a turn: waiting for the "model", running "tools"
          messages,   \* Session.messages
          iteration,  \* the round of the turn
          todo,       \* the calls of the last response still to run
          results,    \* the results of those that have run
          turns       \* questions asked

agentVars == <<at, messages, iteration, todo, results, turns>>

StopReason == {"tool_use", "end_turn", "max_tokens"}
Question == [kind |-> "question", calls |-> <<>>]
FromModel(calls) == [kind |-> "assistant", calls |-> calls]
Results(calls) == [kind |-> "results", calls |-> calls]
Message == [kind : {"question", "assistant", "results"}, calls : Seq(CallId)]

AgentTypeOK ==
    /\ at \in {"prompt", "model", "tools"}
    /\ messages \in Seq(Message)
    /\ iteration \in 0 .. MaxIterations
    /\ todo \in Seq(CallId) /\ results \in Seq(CallId)
    /\ turns \in 0 .. MaxTurns

AgentInit ==
    /\ at = "prompt" /\ messages = <<>> /\ iteration = 0
    /\ todo = <<>> /\ results = <<>> /\ turns = 0

-----------------------------------------------------------------------------
(* add_user_text(): a turn begins. *)
Ask ==
    /\ at = "prompt" /\ turns < MaxTurns
    /\ at' = "model" /\ iteration' = 1 /\ turns' = turns + 1
    /\ messages' = Append(messages, Question)
    /\ UNCHANGED <<todo, results>>

(* /reset *)
Reset ==
    /\ at = "prompt" /\ messages # <<>> /\ messages' = <<>>
    /\ UNCHANGED <<at, iteration, todo, results, turns>>

(* The end of a turn, by return or by exception. *)
EndTurn == at' = "prompt" /\ todo' = <<>> /\ results' = <<>> /\ UNCHANGED <<iteration, turns>>

(* llm.create() raises. *)
ModelFails == at = "model" /\ EndTurn /\ UNCHANGED messages

(* The response is stored; it ends the turn unless it says it wants tools  *)
(* and names some.                                                         *)
Respond(calls, stop_reason) ==
    /\ at = "model"
    /\ messages' = Append(messages, FromModel(calls))
    /\ \/ /\ stop_reason = "tool_use" /\ calls # <<>>
          /\ at' = "tools" /\ todo' = calls
          /\ UNCHANGED <<iteration, results, turns>>
       \/ (stop_reason # "tool_use" \/ calls = <<>>) /\ EndTurn

Mut_ExecuteTool ==
    /\ at = "tools" /\ todo # <<>>
    /\ results' = <<Head(todo)>> \o results /\ todo' = Tail(todo)
    /\ UNCHANGED <<at, messages, iteration, turns>>

(* execute_tool(): the result, or the error it reports. *)
ExecuteTool ==
    /\ at = "tools" /\ todo # <<>>
    /\ results' = Append(results, Head(todo)) /\ todo' = Tail(todo)
    /\ UNCHANGED <<at, messages, iteration, turns>>

Mut_ToolRaises ==
    /\ at = "tools" /\ todo # <<>> /\ todo' = Tail(todo)
    /\ UNCHANGED <<at, messages, iteration, results, turns>>

(* What execute_tool() does not catch, like a result that is no object. *)
ToolRaises == at = "tools" /\ todo # <<>> /\ EndTurn /\ UNCHANGED messages

LastRound == iteration = MaxIterations

(* All results go into one message, and the next round begins, if any. *)
AddToolResults ==
    /\ at = "tools" /\ todo = <<>>
    /\ messages' = Append(messages, Results(results))
    /\ \/ LastRound /\ EndTurn
       \/ /\ ~LastRound /\ at' = "model" /\ iteration' = iteration + 1 /\ results' = <<>>
          /\ UNCHANGED <<todo, turns>>

ToolStep == ExecuteTool \/ ToolRaises \/ AddToolResults

Responses == UNION {[1 .. n -> CallId] : n \in 0 .. MaxCalls}

AgentNext ==
    \/ Ask \/ Reset \/ ModelFails \/ ToolStep
    \/ \E calls \in Responses, stop_reason \in StopReason : Respond(calls, stop_reason)

AgentSpec == AgentInit /\ [][AgentNext]_agentVars

-----------------------------------------------------------------------------
(* "Tool results go back as a single user turn, all of them together": a   *)
(* results message answers the calls of the assistant message right before *)
(* it, every one and in their order, though tools fail one by one and      *)
(* turns are cut short; and the assistant never speaks twice in a row.     *)
AnsweredInOrder ==
    \A i \in 1 .. Len(messages) :
        /\ messages[i].kind = "results" =>
              i > 1 /\ messages[i - 1] = FromModel(messages[i].calls)
        /\ messages[i].kind = "assistant" =>
              i > 1 /\ messages[i - 1].kind # "assistant"

(* The messages of the current turn: from the last question on. *)
ThisTurn == {i \in 1 .. Len(messages) :
                \A j \in i + 1 .. Len(messages) : messages[j].kind # "question"}

(* When the model is asked, every call it made in this turn has been       *)
(* answered, and so has the user the last word.                            *)
NothingOwed ==
    at = "model" =>
        \A i \in ThisTurn : messages[i].kind = "assistant" =>
            i < Len(messages) /\ messages[i + 1] = Results(messages[i].calls)
=============================================================================
