------------------------------ MODULE HttpSession ------------------------------
(***************************************************************************)
(* An MCPClient over an HttpTransport, as StdioSession is one over pipes.  *)
(***************************************************************************)
EXTENDS MCPClient, Sequences

CONSTANTS Main,         \* the thread that connects every server (registry.py)
          EOF, NoBody, Garbage, Retries,
          MaxBodies     \* bound: bodies the server may send

VARIABLES hpc, sendLock, tries, reached, carries, opened, response, client, inbox,
          hclosed, sessionId, issued, adrift, named,
          bodies        \* bodies sent by the server

(* Kinds of body.  "ignored": an envelope parse_message refuses, or a      *)
(* notification; "untraceable": one that on_message fails on.              *)
Kinds == AnswerKind \cup {"request", "ignored", "untraceable"}
Wire == [kind : Kinds, id : Nat]

H == INSTANCE HttpTransport WITH Users <- Threads, Message <- Wire, NoThread <- Nobody

ASSUME HttpSessionAssumption == Main \in Callers /\ H!HttpTransportAssumption

httpVars == <<hpc, sendLock, tries, reached, carries, opened, response, client, inbox,
              hclosed, sessionId, issued, adrift, named>>
vars == <<clientVars, httpVars, bodies>>

TypeOK == /\ ClientTypeOK /\ H!HttpTransportTypeOK
          /\ bodies \in Nat

Init == ClientInit /\ H!HttpTransportInit /\ bodies = 0

-----------------------------------------------------------------------------
(* connect() reaches transport.start(). *)
Opens(c) == c = Main /\ Connect(c) /\ H!Start /\ UNCHANGED bodies

CallerAlone(c) == CallerLocal(c) /\ UNCHANGED <<httpVars, bodies>>

(* Thread t is at a transport.send(); what it sends there is a request, an *)
(* initialize among them, a notification or the reader's -32601.           *)
MustSend(t) == IF t = Reader THEN reader = "reply" ELSE pc[t] \in {"send", "notify"}
IsRequest(t) == t # Reader /\ pc[t] = "send"
IsInitialize(t) == IsRequest(t) /\ t = connector

Sending(t) ==
    /\ \/ MustSend(t) /\ H!BeginSend(t)
       \/ H!SendLocal(t)
       \/ H!Post(t, IsInitialize(t))
    /\ UNCHANGED <<clientVars, bodies>>

(* What the network makes of it.  The server answers a request with its    *)
(* response, and anything with anything else, and names the session that   *)
(* it opened; something in between can only answer with an error or with   *)
(* what is no JSON-RPC message, and names none.                            *)
Returned(t) ==
    /\ UNCHANGED clientVars
    /\ \/ H!Lost(t, IsInitialize(t)) /\ UNCHANGED bodies
       \/ \E r \in {[status |-> s, body |-> NoBody] : s \in {"success", "error"}}
                   \cup {[status |-> "error", body |-> Garbage]} :
              H!Answer(t, IsInitialize(t), r, 0) /\ UNCHANGED bodies
       \/ /\ bodies < MaxBodies /\ bodies' = bodies + 1
          /\ \E k \in Kinds :
               /\ k \in AnswerKind => IsRequest(t)
               /\ reached[t] \/ k = "ignored"
               /\ H!Answer(t, IsInitialize(t),
                           [status |-> "success",
                            body |-> [kind |-> k, id |-> IF k \in AnswerKind THEN call[t] ELSE 0]],
                           IF k = "ignored" THEN 0 ELSE opened[t])

(* An initialize nobody waits for any more opens a session of its own. *)
LateArrival == H!Arrives /\ UNCHANGED <<clientVars, bodies>>

Sent(c) == (SendOk(c) \/ NotifyOk(c)) /\ H!Finish(c, "sent") /\ UNCHANGED bodies

NotSent(c) == (SendFails(c) \/ NotifyFails(c)) /\ H!Finish(c, "failed") /\ UNCHANGED bodies

(* close() reaches transport.close(). *)
Closing(c) ==
    /\ \/ pc[c] = "teardown" /\ H!BeginShutdown(c)
       \/ H!CloseLocal(c)
    /\ UNCHANGED <<clientVars, bodies>>

Closed(c) == Teardown(c) /\ H!Finish(c, "shutdown") /\ UNCHANGED bodies

-----------------------------------------------------------------------------
ReaderAlone == ReaderLocal /\ UNCHANGED <<httpVars, bodies>>

(* The trace, parse_message and _handle, on one message. *)
Handle(m) ==
    \/ m.kind \in AnswerKind /\ TakeAnswer(m.id, m.kind)
    \/ m.kind \in AnswerKind /\ m.id \notin pending /\ Drop
    \/ m.kind = "ignored" /\ Drop
    \/ m.kind = "request" /\ TakeRequest
    \/ m.kind = "untraceable" /\ EndOfStream

Receives == /\ inbox # <<>> /\ H!Receive(Head(inbox)) /\ Handle(Head(inbox))
            /\ UNCHANGED bodies

ReceivesNone == H!ReceiveNone /\ EndOfStream /\ UNCHANGED bodies

Replied == /\ \/ ReplyOk /\ H!Finish(Reader, "sent")
              \/ ReplyFails /\ H!Finish(Reader, "failed")
           /\ UNCHANGED bodies

-----------------------------------------------------------------------------
(* A new operation of a caller: the host decides when. *)
Begins(c) == \/ (CallTool(c) \/ BeginClose(c)) /\ UNCHANGED <<httpVars, bodies>>
             \/ Opens(c)

(* A caller carries on with the operation it is in. *)
CallerRuns(c) == \/ CallerAlone(c) \/ Sending(c) \/ Sent(c) \/ NotSent(c)
                 \/ Closing(c) \/ Closed(c)

ReaderRuns == ReaderAlone \/ Receives \/ ReceivesNone
              \/ Sending(Reader) \/ Replied

Next == \/ \E c \in Callers : Begins(c) \/ CallerRuns(c)
        \/ ReaderRuns
        \/ \E t \in Threads : Returned(t)
        \/ LateArrival

(* Threads run, a future.result(timeout) runs out, and so does a POST: it  *)
(* is answered or fails within its timeout.                                *)
Fairness == /\ \A c \in Callers : WF_vars(CallerRuns(c))
            /\ WF_vars(ReaderRuns)
            /\ \A t \in Threads : WF_vars(Returned(t))

Spec == Init /\ [][Next]_vars /\ Fairness

-----------------------------------------------------------------------------
(* Every POST but the initialize belongs to the session that the answer to *)
(* the initialize named, whichever attempt it answered and whatever other  *)
(* sessions an attempt that was lost, or that arrives after its retry, has *)
(* opened; nothing learned from a later answer takes it away.              *)
CarriesSession ==
    \A t \in Threads : hpc[t] = "flight" /\ ~IsInitialize(t) => carries[t] = named

(* Every request ends, by an answer, an error or its timeout, whatever the *)
(* network and the server do and whoever closes the session.               *)
RequestsEnd == \A c \in Callers : pc[c] = "check" ~> pc[c] = "idle"

(* close() ends the reader thread, POSTs in flight or not.                 *)
CloseEndsReader == closed ~> reader = "done"
=============================================================================
