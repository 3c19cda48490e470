---------------------------- MODULE HttpTransport ----------------------------
(***************************************************************************)
(* host/mcp/http_transport.py: a remote server reached by POST.            *)
(*                                                                         *)
(* send() posts one message under the send lock, tries again after a       *)
(* network failure, and puts the body of the answer on the inbox once the  *)
(* lock is free; receive() takes from the inbox; close() comes at any      *)
(* time, whatever is in flight.  The network and the server are external:  *)
(* an attempt may reach the server or not, and may be answered or lost     *)
(* whether it did or not; one the client has given up on may still arrive, *)
(* behind the attempts that followed it.                                   *)
(***************************************************************************)
EXTENDS Naturals, Sequences

CONSTANTS Users,        \* threads that call send() and close()
          Message,      \* what may travel either way
          EOF,          \* the _EOF sentinel
          NoBody,       \* an answer without content, or 202
          Garbage,      \* content that is not a JSON object
          NoThread,
          Retries       \* retries

(* What whoever instantiates this module assumes of them. *)
HttpTransportAssumption == /\ {EOF, NoBody, Garbage} \cap Message = {}
                           /\ NoBody # Garbage
                           /\ NoThread \notin Users
                           /\ Retries \in Nat

VARIABLES
    hpc,          \* per thread: where it is in send() or close()
    sendLock,     \* _send_lock
    tries,        \* per thread: attempts of its send that were lost
    reached,      \* per thread: its attempt in flight has reached the server
    carries,      \* per thread: the session id on its attempt in flight
    opened,       \* per thread: the session its attempt in flight has opened, or 0
    response,     \* per thread: the last answer to one of its POSTs
    client,       \* _client: "none", "open", "closed"
    inbox,        \* _inbox
    hclosed,      \* _closed
    sessionId,    \* session_id, 0 for None
    issued,       \* the last session id the server gave out
    adrift,       \* initializes tried again whose first try may still arrive
    named         \* the session named by the last answer that the client took

attempt == <<reached, carries, opened>>
perThread == <<hpc, tries, attempt, response>>
server == <<issued, adrift, named>>
learned == <<sessionId, server>>
httpVars == <<hpc, tries, reached, carries, opened, response, sendLock, client, inbox,
              hclosed, sessionId, issued, adrift, named>>

(* What _body_of tells apart: the status, and what the body is.  A 202 is  *)
(* a success without a body, whatever it carries; a redirect, which nothing  *)
(* follows, passes for a success too.                                      *)
Response == [status : {"success", "error"}, body : Message \cup {NoBody, Garbage}]

SendPC == {"lock", "post", "flight", "put"}
ClosePC == {"tcheck", "tset", "tclient", "teof"}
Verdict == {"sent", "failed", "shutdown"}

HttpTransportTypeOK ==
    /\ hpc \in [Users -> {"idle"} \cup SendPC \cup ClosePC \cup Verdict]
    /\ sendLock \in Users \cup {NoThread}
    /\ tries \in [Users -> 0 .. Retries]
    /\ reached \in [Users -> BOOLEAN]
    /\ issued \in Nat /\ sessionId \in 0 .. issued /\ named \in 0 .. issued
    /\ adrift \in Nat
    /\ carries \in [Users -> 0 .. issued]
    /\ opened \in [Users -> 0 .. issued]
    /\ response \in [Users -> Response]
    /\ client \in {"none", "open", "closed"}
    /\ inbox \in Seq(Message \cup {EOF})
    /\ hclosed \in BOOLEAN

Accepted == [status |-> "success", body |-> NoBody]

HttpTransportInit ==
    /\ hpc = [t \in Users |-> "idle"]
    /\ sendLock = NoThread
    /\ tries = [t \in Users |-> 0]
    /\ reached = [t \in Users |-> FALSE]
    /\ carries = [t \in Users |-> 0]
    /\ opened = [t \in Users |-> 0]
    /\ response = [t \in Users |-> Accepted]
    /\ client = "none"
    /\ inbox = <<>>
    /\ hclosed = FALSE
    /\ sessionId = 0
    /\ issued = 0
    /\ adrift = 0
    /\ named = 0

-----------------------------------------------------------------------------
HGoto(t, from, to) == hpc[t] = from /\ hpc' = [hpc EXCEPT ![t] = to]

(* Nothing changes but where the thread is. *)
HMoves(t, from, to) ==
    /\ HGoto(t, from, to)
    /\ UNCHANGED <<sendLock, tries, attempt, response, client, inbox, hclosed, learned>>

Start ==
    /\ client = "none" /\ client' = "open"
    /\ UNCHANGED <<perThread, sendLock, inbox, hclosed, learned>>

-----------------------------------------------------------------------------
(* send() *)

BeginSend(t) == HMoves(t, "idle", IF client = "none" \/ hclosed THEN "failed" ELSE "lock")

Acquire(t) ==
    /\ sendLock = NoThread /\ sendLock' = t
    /\ HGoto(t, "lock", "post")
    /\ UNCHANGED <<tries, attempt, response, client, inbox, hclosed, learned>>

(* send() lets go of the lock, and goes on or raises. *)
Releases(t, to) ==
    /\ hpc' = [hpc EXCEPT ![t] = to]
    /\ sendLock' = NoThread
    /\ tries' = [tries EXCEPT ![t] = 0]

(* Nothing of the thread is in flight any more. *)
Landed(t) ==
    /\ reached' = [reached EXCEPT ![t] = FALSE]
    /\ carries' = [carries EXCEPT ![t] = 0]
    /\ opened' = [opened EXCEPT ![t] = 0]

(* _client.post(), with the headers of this moment; the server opens a     *)
(* session for every initialize that reaches it, now ...                   *)
Post(t, initialize) ==
    /\ client = "open"
    /\ HGoto(t, "post", "flight")
    /\ carries' = [carries EXCEPT ![t] = sessionId]
    /\ \E there \in BOOLEAN :
        /\ reached' = [reached EXCEPT ![t] = there]
        /\ IF initialize /\ there
           THEN /\ issued' = issued + 1
                /\ opened' = [opened EXCEPT ![t] = issued + 1]
           ELSE UNCHANGED <<issued, opened>>
    /\ UNCHANGED <<sendLock, tries, response, client, inbox, hclosed, sessionId, adrift, named>>

(* ... or when the client has long given up on it.                         *)
Arrives ==
    /\ adrift > 0 /\ adrift' = adrift - 1
    /\ issued' = issued + 1
    /\ UNCHANGED <<perThread, sendLock, client, inbox, hclosed, sessionId, named>>

(* A client that close() has closed raises RuntimeError. *)
PostRefused(t) ==
    /\ client = "closed" /\ hpc[t] = "post" /\ Releases(t, "failed")
    /\ UNCHANGED <<attempt, response, client, inbox, hclosed, learned>>

Mut_Lost(t, initialize) ==
    /\ HGoto(t, "flight", "failed")
    /\ Landed(t)
    /\ UNCHANGED <<sendLock, tries, response, client, inbox, hclosed, learned>>

(* A timeout or a network failure: once more, or TransportError.  The      *)
(* session that a last attempt may yet open is none of the client's.       *)
Lost(t, initialize) ==
    /\ hpc[t] = "flight" /\ Landed(t)
    /\ adrift' = IF initialize /\ ~reached[t] /\ tries[t] < Retries THEN adrift + 1 ELSE adrift
    /\ IF tries[t] < Retries
       THEN /\ hpc' = [hpc EXCEPT ![t] = "post"]
            /\ tries' = [tries EXCEPT ![t] = @ + 1]
            /\ UNCHANGED sendLock
       ELSE Releases(t, "failed")
    /\ UNCHANGED <<response, client, inbox, hclosed, sessionId, issued, named>>

Mut_Remember(initialize, header) == sessionId' = header

(* _remember(): the header of an answer to an initialize, if it has one,   *)
(* names the session.                                                      *)
Remember(initialize, header) ==
    sessionId' = IF initialize /\ header # 0 THEN header ELSE sessionId

(* An answer: its body, if any, is for the inbox; a status of 400 or more, *)
(* or a body that is not a JSON object, raises - where there is a body.    *)
(* Its header may name a session, 0 if it has none.                        *)
Answer(t, initialize, r, header) ==
    /\ hpc[t] = "flight" /\ Landed(t)
    /\ response' = [response EXCEPT ![t] = r]
    /\ IF r.body # NoBody /\ (r.status = "error" \/ r.body = Garbage)
       THEN Releases(t, "failed") /\ UNCHANGED <<sessionId, named>>
       ELSE /\ Releases(t, IF r.body = NoBody THEN "sent" ELSE "put")
            /\ Remember(initialize, header)
            /\ named' = IF header # 0 THEN header ELSE named
    /\ UNCHANGED <<client, inbox, hclosed, issued, adrift>>

Put(t) ==
    /\ HGoto(t, "put", "sent")
    /\ inbox' = Append(inbox, response[t].body)
    /\ UNCHANGED <<sendLock, tries, attempt, response, client, hclosed, learned>>

-----------------------------------------------------------------------------
(* close() and receive() *)

BeginShutdown(t) == HMoves(t, "idle", "tcheck")

TestClosed(t) == HMoves(t, "tcheck", IF hclosed THEN "shutdown" ELSE "tset")

SetClosed(t) ==
    /\ HGoto(t, "tset", "tclient")
    /\ hclosed' = TRUE
    /\ UNCHANGED <<sendLock, tries, attempt, response, client, inbox, learned>>

CloseClient(t) ==
    /\ HGoto(t, "tclient", "teof")
    /\ client' = IF client = "none" THEN "none" ELSE "closed"
    /\ UNCHANGED <<sendLock, tries, attempt, response, inbox, hclosed, learned>>

Mut_PutEof(t) == HMoves(t, "teof", "shutdown")

(* "Unblock anyone still sitting in receive()." *)
PutEof(t) ==
    /\ HGoto(t, "teof", "shutdown")
    /\ inbox' = Append(inbox, EOF)
    /\ UNCHANGED <<sendLock, tries, attempt, response, client, hclosed, learned>>

(* The caller of send() or close() sees how it ended. *)
Finish(t, verdict) ==
    /\ HGoto(t, verdict, "idle")
    /\ response' = [response EXCEPT ![t] = Accepted]
    /\ UNCHANGED <<sendLock, tries, attempt, client, inbox, hclosed, learned>>

Receive(m) ==
    /\ inbox # <<>> /\ Head(inbox) = m /\ m # EOF
    /\ inbox' = Tail(inbox)
    /\ UNCHANGED <<perThread, sendLock, client, hclosed, learned>>

ReceiveNone ==
    /\ inbox # <<>> /\ Head(inbox) = EOF
    /\ inbox' = Append(Tail(inbox), EOF)
    /\ UNCHANGED <<perThread, sendLock, client, hclosed, learned>>

-----------------------------------------------------------------------------
SendLocal(t) == Acquire(t) \/ PostRefused(t) \/ Put(t)
CloseLocal(t) == TestClosed(t) \/ SetClosed(t) \/ CloseClient(t) \/ PutEof(t)
=============================================================================
