---------------------------- MODULE NetopsSession ----------------------------
(***************************************************************************)
(* servers/netops/protocol.py: NetopsSession.handle_message, for any       *)
(* number of sessions and of messages being handled at once, each on a     *)
(* thread of its own.  HttpServer decides which message reaches which      *)
(* session.                                                                *)
(*                                                                         *)
(* Messages are what parse_message tells apart (JsonRpc), less their id: a *)
(* response always carries its request's.                                  *)
(***************************************************************************)
EXTENDS Naturals, JsonRpc

CONSTANTS Exchanges     \* messages in the server's hands at once

VARIABLES
    received,     \* sessions with initialize_received
    ready,        \* sessions with initialized
    served,       \* sessions in which a tool was listed or run
    at,           \* per exchange: where its handling is
    job,          \* per exchange: the message, and the session it goes to
    reply         \* per exchange: the body of its answer, once it is given

(* The methods that make a difference; the endpoint asks of any message    *)
(* whether it names initialize.                                            *)
Heeded == [request      |-> {"initialize", "ping", "tools/list", "tools/call"},
           notification |-> {"initialize", "notifications/initialized"},
           success      |-> {},
           error        |-> {},
           invalid      |-> {"initialize"}]
Named(raw) == IF raw.method \in Heeded[Parse(raw)] THEN raw.method ELSE "other"

Message == {[kind |-> Parse(raw), method |-> Named(raw)] : raw \in Raw}

NoJob == [message |-> [kind |-> "invalid", method |-> "other"], session |-> 0]

Reply == {"none", "nothing", "result", "rpcError"}

Here(x) == job[x].session

-----------------------------------------------------------------------------
(* handle_message returns: None, or a response. *)
Returns(x, body) ==
    /\ at' = [at EXCEPT ![x] = "idle"]
    /\ job' = [job EXCEPT ![x] = NoJob]
    /\ reply' = [reply EXCEPT ![x] = body]

GoesOn(x, to) == at' = [at EXCEPT ![x] = to] /\ UNCHANGED <<job, reply>>

Handles(x, kinds, methods) ==
    /\ at[x] = "handle"
    /\ job[x].message.kind \in kinds
    /\ job[x].message.method \in methods

Mut_HandleInvalid(x) ==
    /\ Handles(x, {"invalid"}, {"initialize", "other"})
    /\ Returns(x, "nothing")
    /\ UNCHANGED <<received, ready, served>>

(* parse_message raised. *)
HandleInvalid(x) ==
    /\ Handles(x, {"invalid"}, {"initialize", "other"})
    /\ Returns(x, "rpcError")
    /\ UNCHANGED <<received, ready, served>>

HandleInitialize(x) ==
    /\ Handles(x, {"request"}, {"initialize"})
    /\ received' = received \cup {Here(x)}
    /\ Returns(x, "result")
    /\ UNCHANGED <<ready, served>>

HandlePing(x) ==
    /\ Handles(x, {"request"}, {"ping"})
    /\ Returns(x, "result")
    /\ UNCHANGED <<received, ready, served>>

Mut_RequireInitialized(x) ==
    /\ Handles(x, {"request"}, {"tools/list", "tools/call"})
    /\ IF Here(x) \in received THEN GoesOn(x, "tool") ELSE Returns(x, "rpcError")
    /\ UNCHANGED <<received, ready, served>>

(* _require_initialized; the work behind it is a step of its own. *)
RequireInitialized(x) ==
    /\ Handles(x, {"request"}, {"tools/list", "tools/call"})
    /\ IF Here(x) \in ready THEN GoesOn(x, "tool") ELSE Returns(x, "rpcError")
    /\ UNCHANGED <<received, ready, served>>

(* core.list_tools or core.dispatch: a result, or an error the tool, its   *)
(* arguments or its name gave rise to.                                     *)
RunTool(x) ==
    /\ at[x] = "tool"
    /\ \E body \in {"result", "rpcError"} : Returns(x, body)
    /\ served' = served \cup {Here(x)}
    /\ UNCHANGED <<received, ready>>

HandleUnknown(x) ==
    /\ Handles(x, {"request"}, {"other"})
    /\ Returns(x, "rpcError")
    /\ UNCHANGED <<received, ready, served>>

(* notifications/initialized: the first half of the handshake is tested,   *)
(* then the second recorded.                                               *)
HandleInitialized(x) ==
    /\ Handles(x, {"notification"}, {"notifications/initialized"})
    /\ IF Here(x) \in received THEN GoesOn(x, "confirm") ELSE Returns(x, "nothing")
    /\ UNCHANGED <<received, ready, served>>

Confirm(x) ==
    /\ at[x] = "confirm"
    /\ ready' = ready \cup {Here(x)}
    /\ Returns(x, "nothing")
    /\ UNCHANGED <<received, served>>

Mut_Ignore(x) ==
    /\ \/ Handles(x, {"notification"}, {"initialize", "other"})
       \/ Handles(x, {"success", "error"}, {"other"})
    /\ Returns(x, "rpcError")
    /\ UNCHANGED <<received, ready, served>>

(* Any other notification, and a response nobody asked for. *)
Ignore(x) ==
    /\ \/ Handles(x, {"notification"}, {"initialize", "other"})
       \/ Handles(x, {"success", "error"}, {"other"})
    /\ Returns(x, "nothing")
    /\ UNCHANGED <<received, ready, served>>

HandleMessage(x) ==
    \/ HandleInvalid(x) \/ HandleInitialize(x) \/ HandlePing(x)
    \/ RequireInitialized(x) \/ RunTool(x) \/ HandleUnknown(x)
    \/ HandleInitialized(x) \/ Confirm(x) \/ Ignore(x)
=============================================================================
