------------------------------ MODULE HttpServer ------------------------------
(***************************************************************************)
(* servers/netops/http_server.py: the session table and the endpoint.      *)
(*                                                                         *)
(* POST /mcp looks its session up, or creates it, on the event loop, and   *)
(* hands the message to a thread; DELETE /mcp and other POSTs come in      *)
(* between.  A session is numbered as it enters the table, so that the     *)
(* oldest one is the smallest; 0 stands for no id and for a made-up one.   *)
(***************************************************************************)
EXTENDS NetopsSession, FiniteSets, FiniteSetsExt

CONSTANTS MaxSessions,  \* max_sessions
          MaxCreated    \* bound: sessions a behaviour may create

ASSUME HttpAssumption == MaxSessions \in Nat \ {0} /\ MaxCreated \in Nat

VARIABLES
    table,        \* _sessions
    created,      \* sessions created so far
    dropped,      \* sessions a DELETE was told it had ended
    status,       \* per exchange: the status of its answer, once it is given
    odd,          \* per exchange: what JSON or UTF-8 cannot write of its message
    stained       \* some ticket holds text that UTF-8 cannot write

netops == <<received, ready, served>>
registry == <<table, created, dropped>>
answers == <<status, odd, stained>>
httpVars == <<received, ready, served, at, job, reply, table, created, dropped, status, odd,
              stained>>

Session == 1 .. created
Status == {0, 200, 202, 204, 400, 404, 500}

HttpTypeOK ==
    /\ created \in Nat
    /\ table \subseteq Session /\ dropped \subseteq Session
    /\ received \subseteq Session /\ ready \subseteq Session /\ served \subseteq Session
    /\ at \in [Exchanges -> {"idle", "handle", "tool", "confirm"}]
    /\ job \in [Exchanges -> [message : Message, session : 0 .. created]]
    /\ reply \in [Exchanges -> Reply]
    /\ status \in [Exchanges -> Status]
    /\ odd \in [Exchanges -> {"nothing", "id", "text"}]
    /\ stained \in BOOLEAN

HttpInit ==
    /\ table = {} /\ created = 0 /\ dropped = {}
    /\ received = {} /\ ready = {} /\ served = {}
    /\ at = [x \in Exchanges |-> "idle"]
    /\ job = [x \in Exchanges |-> NoJob]
    /\ reply = [x \in Exchanges |-> "none"]
    /\ status = [x \in Exchanges |-> 0]
    /\ odd = [x \in Exchanges |-> "nothing"] /\ stained = FALSE

-----------------------------------------------------------------------------
(* The endpoint answers by itself. *)
Answer(x, code, body) ==
    /\ at[x] = "idle"
    /\ status' = [status EXCEPT ![x] = code]
    /\ reply' = [reply EXCEPT ![x] = body]
    /\ UNCHANGED <<netops, created, at, job, odd, stained>>

(* What may be odd about a message that repeating it in an answer cannot   *)
(* write: its id (NaN in an invalid one, half a surrogate pair in any), or *)
(* text of it, like the name of an unknown method or an argument.          *)
Odd(m) ==
    {"nothing"} \cup (IF m.kind \in {"request", "invalid"} THEN {"id"} ELSE {})
    \cup (IF m.kind = "request" /\ m.method \in {"tools/call", "other"} THEN {"text"} ELSE {})

(* error(): a JSON-RPC error, unless the id it repeats cannot be written.  *)
Error(x, code) == Answer(x, code, "rpcError") \/ Answer(x, 500, "nothing")

(* A body that is not a JSON object, or a protocol version in the header   *)
(* that this server does not speak.                                        *)
BadRequest(x) ==
    /\ Error(x, 400)
    /\ UNCHANGED <<table, dropped>>

(* registry.get() found nothing under the header of a message that does    *)
(* not name initialize.                                                    *)
NoSession(x, s) ==
    /\ s \notin table
    /\ Error(x, 404)
    /\ UNCHANGED <<table, dropped>>

(* The message goes to its session, on a thread. *)
HandOver(x, m, s) ==
    /\ at[x] = "idle"
    /\ at' = [at EXCEPT ![x] = "handle"]
    /\ job' = [job EXCEPT ![x] = [message |-> m, session |-> s]]
    /\ reply' = [reply EXCEPT ![x] = "none"]
    /\ status' = [status EXCEPT ![x] = 0]
    /\ \E part \in Odd(m) : odd' = [odd EXCEPT ![x] = part]
    /\ UNCHANGED <<netops, dropped, stained>>

ToSession(x, m, s) ==
    /\ m.method # "initialize" /\ s \in table
    /\ HandOver(x, m, s)
    /\ UNCHANGED <<table, created>>

Mut_Evict(sessions) ==
    IF Cardinality(sessions) >= MaxSessions THEN sessions \ {Max(sessions)} ELSE sessions

(* create(): the oldest session makes room for the new one. *)
Evict(sessions) ==
    IF Cardinality(sessions) >= MaxSessions THEN sessions \ {Min(sessions)} ELSE sessions

Mut_Grow(x, m) ==
    /\ m.method = "initialize" /\ created < MaxCreated
    /\ created' = created + 1
    /\ table' = table \cup {created + 1}
    /\ HandOver(x, m, created + 1)

Mut_Reuse(x, m) ==
    /\ m.method = "initialize" /\ created < MaxCreated
    /\ created' = created + 1
    /\ \E s \in 1 .. created + 1 : table' = Evict(table) \cup {s} /\ HandOver(x, m, s)

(* Anything that names the method initialize gets a session of its own,    *)
(* whatever header it carries and whether or not it turns out to be valid. *)
ToNewSession(x, m) ==
    /\ m.method = "initialize" /\ created < MaxCreated
    /\ created' = created + 1
    /\ table' = Evict(table) \cup {created + 1}
    /\ HandOver(x, m, created + 1)

(* What the response repeats and JSONResponse cannot write: the id, or the *)
(* name of an unknown method, for sure; of a tool's answer, perhaps, and   *)
(* what it shows of the tickets too.                                       *)
RunsCall(x) == at[x] = "tool" /\ job[x].message.method = "tools/call"
Unwritable(x) == odd[x] = "id" \/ (odd[x] = "text" /\ at[x] = "handle"
                                   /\ job[x].message.method = "other")
PerhapsUnwritable(x) == RunsCall(x) /\ (odd[x] = "text" \/ stained)

(* The status of a response: JSONResponse raises, after all the work is    *)
(* done, when it cannot write it, and the framework answers 500 for it.    *)
Codes(x) ==
    CASE Unwritable(x) -> {500}
      [] PerhapsUnwritable(x) /\ ~Unwritable(x) -> {200, 500}
      [] OTHER -> {200}

Outcome(code, now, body) ==
    CASE now # "idle" -> 0
      [] now = "idle" /\ body = "nothing" -> 202
      [] OTHER -> code

(* The thread works on; when handle_message has returned, the answer is    *)
(* 202 without a body, or one with the response.                           *)
Runs(x) ==
    /\ HandleMessage(x)
    /\ \E code \in Codes(x) : status' = [status EXCEPT ![x] = Outcome(code, at'[x], reply'[x])]
    /\ odd' = IF at'[x] = "idle" THEN [odd EXCEPT ![x] = "nothing"] ELSE odd
    /\ stained' = (stained \/ (RunsCall(x) /\ odd[x] = "text"))
    /\ UNCHANGED registry

(* DELETE /mcp *)
EndSession(x, s) ==
    /\ s \in table
    /\ table' = table \ {s}
    /\ dropped' = dropped \cup {s}
    /\ Answer(x, 204, "nothing")

EndUnknown(x, s) ==
    /\ s \notin table
    /\ Answer(x, 404, "nothing")
    /\ UNCHANGED <<table, dropped>>

-----------------------------------------------------------------------------
Arrives(x) ==
    \/ BadRequest(x)
    \/ \E m \in Message : ToNewSession(x, m)
    \/ \E m \in Message, s \in 0 .. created : ToSession(x, m, s)
    \/ \E s \in 0 .. created : NoSession(x, s) \/ EndSession(x, s) \/ EndUnknown(x, s)

HttpNext == \E x \in Exchanges : Arrives(x) \/ Runs(x)

HttpSpec == HttpInit /\ [][HttpNext]_httpVars

-----------------------------------------------------------------------------
(* "Both halves of the handshake must happen, in order" (protocol.py): a   *)
(* tool is reached only in a session that was initialized and then         *)
(* confirmed, whatever else is in flight in it.                            *)
HandshakeFirst == served \subseteq ready /\ ready \subseteq received

(* "The count is capped": however many clients shake hands at once and     *)
(* never say goodbye.                                                      *)
Capped == Cardinality(table) <= MaxSessions

(* "Drop the oldest rather than refuse the newest": a session that nobody  *)
(* ended is gone only after MaxSessions newer ones were created, and one   *)
(* whose end was acknowledged is gone at once.                             *)
EvictedByNewer ==
    /\ \A s \in Session \ (table \cup dropped) : created >= s + MaxSessions
    /\ table \cap dropped = {}

(* A 404 is "the signal to start a new session": an id that is gone is     *)
(* never honoured again.                                                   *)
GoneStaysGone ==
    [][\A s \in Session \ table : s \notin table']_httpVars

(* What a message is owed: a request a response, an invalid message a      *)
(* JSON-RPC error, and anything else "202, without inventing a body".  In  *)
(* place of a response or error there is a bare 500 only if the message    *)
(* itself holds what cannot be written, or, for a tools/call, a call that  *)
(* ran before it does: no other client is made to pay for it.              *)
OwedAnswer ==
    [][\A x \in Exchanges : at[x] # "idle" /\ at'[x] = "idle" =>
        CASE job[x].message.kind \in {"request", "invalid"} ->
                /\ job[x].message.kind = "invalid" => reply'[x] = "rpcError"
                /\ \/ status'[x] = 200
                   \/ status'[x] = 500 /\ odd[x] # "nothing"
                   \/ status'[x] = 500 /\ job[x].message.method = "tools/call" /\ stained
          [] OTHER -> status'[x] = 202]_httpVars
=============================================================================
