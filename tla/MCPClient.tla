------------------------------ MODULE MCPClient ------------------------------
(***************************************************************************)
(* host/mcp/client.py: one MCP session on top of a Transport.              *)
(*                                                                         *)
(* Several threads call request() at once; a reader thread takes messages  *)
(* off the transport and settles the Future each caller waits on; a        *)
(* thread may close() the session meanwhile.  The transport appears here   *)
(* as its interface (host/mcp/transport.py) lets any implementation        *)
(* behave: a send returns or raises, a receive gives any message or None.  *)
(* StdioSession puts a real one underneath.                                *)
(*                                                                         *)
(* A Future is named by the id it is registered under: ids come from       *)
(* itertools.count and are never reused.  Each step below is the code      *)
(* between two points where another thread may run.                        *)
(***************************************************************************)
EXTENDS Naturals, FiniteSets

CONSTANTS Callers,      \* threads that use the session
          Reader,       \* the "<name>-session" thread
          Nobody,       \* no caller at all
          MaxRequests   \* bound: requests a behaviour may issue

ASSUME ClientAssumption == /\ Reader \notin Callers
                           /\ Nobody \notin Callers
                           /\ MaxRequests \in Nat

VARIABLES
    lastId,       \* the last value itertools.count gave out
    future,       \* id -> what its Future holds
    pending,      \* the keys of _pending
    pc, call,     \* per caller: where it is, and the id of its request
    connector,    \* the caller inside connect(), or Nobody
    reader,       \* where the reader thread is
    answer,       \* what the response in the reader's hands says
    taken,        \* per thread: Futures it took off the table, not yet looked at
    aim,          \* per thread: the Future it found open and is about to settle
    closed,       \* _closed
    initialized

table == <<lastId, future, pending, call>>
settling == <<answer, taken, aim>>
life == <<closed, initialized>>
clientVars == <<table, settling, life, pc, connector, reader>>

Threads == Callers \cup {Reader}
Ids == 1 .. lastId

AnswerKind == {"result", "rpcError"}
FutureState == {"waiting", "lost"} \cup AnswerKind
CallerPC == {"idle", "check", "register", "send", "unsend", "wait", "expired",
             "version", "notify", "ready",
             "closing", "shut", "teardown", "grab", "failing"}
ReaderPC == {"off", "receive", "resolve", "reply", "grab", "failing", "done"}

(* A caller whose request has been registered and has not yet returned. *)
InRequest(c) == pc[c] \in {"send", "unsend", "wait", "expired"}

ClientTypeOK ==
    /\ lastId \in Nat
    /\ future \in [Ids -> FutureState]
    /\ pending \subseteq Ids
    /\ call \in [Callers -> 0 .. lastId]
    /\ answer \in AnswerKind
    /\ taken \in [Threads -> SUBSET Ids]
    /\ aim \in [Threads -> 0 .. lastId]
    /\ closed \in BOOLEAN
    /\ initialized \in BOOLEAN
    /\ pc \in [Callers -> CallerPC]
    /\ connector \in Callers \cup {Nobody}
    /\ reader \in ReaderPC

ClientInit ==
    /\ lastId = 0
    /\ future = [i \in 1 .. 0 |-> "waiting"]
    /\ pending = {}
    /\ call = [c \in Callers |-> 0]
    /\ answer = "result"
    /\ taken = [t \in Threads |-> {}]
    /\ aim = [t \in Threads |-> 0]
    /\ closed = FALSE
    /\ initialized = FALSE
    /\ pc = [c \in Callers |-> "idle"]
    /\ connector = Nobody
    /\ reader = "off"

-----------------------------------------------------------------------------
(* How a step moves the caller, and when the caller is all it moves. *)
Goto(c, from, to) == pc[c] = from /\ pc' = [pc EXCEPT ![c] = to]

(* The method the caller is in returns or raises. *)
Return(c) == /\ pc' = [pc EXCEPT ![c] = "idle"]
             /\ connector' = IF connector = c THEN Nobody ELSE connector

OnlyMoves(c, from, to) ==
    Goto(c, from, to) /\ UNCHANGED <<table, settling, life, connector, reader>>

OnlyReturns(c, from) ==
    pc[c] = from /\ Return(c) /\ UNCHANGED <<table, settling, life, reader>>

ReaderMoves(from, to) ==
    /\ reader = from /\ reader' = to
    /\ UNCHANGED <<table, settling, life, pc, connector>>

-----------------------------------------------------------------------------
(* request() *)

(* Bound: a call starts only while ids remain for it and the calls ahead. *)
MayStart == lastId + Cardinality({c \in Callers : pc[c] \in {"check", "register"}})
                < MaxRequests

(* call_tool / list_tools, past _require_initialized (which only raises). *)
CallTool(c) == initialized /\ MayStart /\ OnlyMoves(c, "idle", "check")

RefuseClosed(c) == closed /\ OnlyReturns(c, "check")
PassClosed(c) == ~closed /\ OnlyMoves(c, "check", "register")

Register(c) ==
    /\ Goto(c, "register", "send")
    /\ lastId' = lastId + 1
    /\ future' = [i \in 1 .. lastId + 1 |-> IF i \in Ids THEN future[i] ELSE "waiting"]
    /\ pending' = pending \cup {lastId + 1}
    /\ call' = [call EXCEPT ![c] = lastId + 1]
    /\ UNCHANGED <<settling, life, connector, reader>>

(* transport.send() returned, or raised: then the entry is taken back. *)
SendOk(c) == OnlyMoves(c, "send", "wait")
SendFails(c) == OnlyMoves(c, "send", "unsend")

Mut_Forget(c, at) == OnlyReturns(c, at)

Forget(c, at) ==
    /\ pc[c] = at /\ Return(c)
    /\ pending' = pending \ {call[c]}
    /\ UNCHANGED <<lastId, future, call, settling, life, reader>>

Unsend(c) == Forget(c, "unsend")

(* future.result() found the Future settled.  connect() goes on with the   *)
(* result of its initialize; every other request is over.                  *)
Answered(c) ==
    /\ pc[c] = "wait" /\ future[call[c]] # "waiting"
    /\ ~(c = connector /\ future[call[c]] = "result")
    /\ OnlyReturns(c, "wait")

HandshakeAnswered(c) ==
    /\ c = connector /\ pc[c] = "wait" /\ future[call[c]] = "result"
    /\ OnlyMoves(c, "wait", "version")

(* future.result() gave up; the entry is popped in a later step. *)
Mut_Expire(c) ==
    /\ closed
    /\ pc[c] = "wait" /\ future[call[c]] = "waiting"
    /\ OnlyMoves(c, "wait", "expired")

Expire(c) ==
    /\ pc[c] = "wait" /\ future[call[c]] = "waiting"
    /\ OnlyMoves(c, "wait", "expired")

TimedOut(c) == Forget(c, "expired")

-----------------------------------------------------------------------------
(* connect() *)

(* transport.start() succeeded and the reader thread is running; the       *)
(* initialize request then goes the way of every other one.                *)
Connect(c) ==
    /\ reader = "off" /\ MayStart
    /\ Goto(c, "idle", "check")
    /\ reader' = "receive"
    /\ connector' = c
    /\ UNCHANGED <<table, settling, life>>

(* The version offered is one of ours, or connect() closes the session; a  *)
(* result that is no object has no version to get: AttributeError leaves   *)
(* connect(), and nothing closes the transport.                            *)
VersionOk(c) == OnlyMoves(c, "version", "notify")
VersionBad(c) == OnlyMoves(c, "version", "closing")
NoVersion(c) == OnlyReturns(c, "version")

(* If the notification cannot be sent the exception leaves connect():      *)
(* nothing closes the transport.                                           *)
NotifyOk(c) == OnlyMoves(c, "notify", "ready")
NotifyFails(c) == OnlyReturns(c, "notify")

Ready(c) ==
    /\ pc[c] = "ready" /\ Return(c)
    /\ initialized' = TRUE
    /\ UNCHANGED <<table, settling, closed, reader>>

-----------------------------------------------------------------------------
(* close() and _fail_all_pending() *)

BeginClose(c) == reader # "off" /\ OnlyMoves(c, "idle", "closing")

(* Test, and in a later step act: two closers can both get through. *)
AlreadyClosed(c) == closed /\ OnlyReturns(c, "closing")
NotYetClosed(c) == ~closed /\ OnlyMoves(c, "closing", "shut")

Mut_Shut(c) ==
    /\ Goto(c, "shut", "teardown")
    /\ initialized' = FALSE
    /\ UNCHANGED <<table, settling, closed, connector, reader>>

Shut(c) ==
    /\ Goto(c, "shut", "teardown")
    /\ closed' = TRUE
    /\ initialized' = FALSE
    /\ UNCHANGED <<table, settling, connector, reader>>

(* transport.close() returned. *)
Teardown(c) == OnlyMoves(c, "teardown", "grab")

Mut_TakePending(t) == taken' = [taken EXCEPT ![t] = pending] /\ UNCHANGED pending

Mut_DropPending(t) == pending' = {} /\ UNCHANGED taken

(* Under the lock: list the pending Futures and clear the table. *)
TakePending(t) == taken' = [taken EXCEPT ![t] = pending] /\ pending' = {}

(* Outside the lock, in the order registered: test one with done() ... *)
TestNext(t) ==
    /\ aim[t] = 0
    /\ \E i \in taken[t] :
        /\ \A j \in taken[t] : i <= j
        /\ taken' = [taken EXCEPT ![t] = @ \ {i}]
        /\ aim' = IF future[i] = "waiting" THEN [aim EXCEPT ![t] = i] ELSE aim
    /\ UNCHANGED <<table, answer, life, pc, connector, reader>>

(* ... and then set it.  set_result and set_exception on a Future already  *)
(* settled raise InvalidStateError; OneSettler says that never happens.    *)
Settle(t, value) ==
    /\ aim[t] # 0
    /\ future' = [future EXCEPT ![aim[t]] = value]
    /\ aim' = [aim EXCEPT ![t] = 0]
    /\ UNCHANGED <<lastId, pending, call, answer, taken, life, pc, connector>>

CloserTakes(c) ==
    /\ Goto(c, "grab", "failing")
    /\ TakePending(c)
    /\ UNCHANGED <<lastId, future, call, answer, aim, life, connector, reader>>

CloserTests(c) == pc[c] = "failing" /\ TestNext(c)
CloserFails(c) == pc[c] = "failing" /\ Settle(c, "lost") /\ UNCHANGED reader

(* The reader is joined with a time limit, so close() returns regardless. *)
CloserDone(c) == taken[c] = {} /\ aim[c] = 0 /\ OnlyReturns(c, "failing")

-----------------------------------------------------------------------------
(* The reader thread: _read_loop, _handle, _resolve *)

Mut_TakeAnswer(i, kind) ==
    /\ reader = "receive" /\ i \in pending
    /\ reader' = "resolve"
    /\ taken' = [taken EXCEPT ![Reader] = {i}]
    /\ answer' = kind
    /\ UNCHANGED <<table, aim, life, pc, connector>>

(* A response under a tracked id: its Future is popped under the lock,     *)
(* then tested and settled outside it.                                     *)
TakeAnswer(i, kind) ==
    /\ reader = "receive" /\ i \in pending
    /\ reader' = "resolve"
    /\ pending' = pending \ {i}
    /\ taken' = [taken EXCEPT ![Reader] = {i}]
    /\ answer' = kind
    /\ UNCHANGED <<lastId, future, call, aim, life, pc, connector>>

ReaderTests == reader \in {"resolve", "failing"} /\ TestNext(Reader)

Resolve == reader = "resolve" /\ Settle(Reader, answer) /\ reader' = "receive"

(* A late or duplicate response, a notification, a malformed envelope. *)
Drop == reader = "receive" /\ UNCHANGED clientVars

(* A request from the server is answered -32601 from this very thread. *)
TakeRequest == ReaderMoves("receive", "reply")
ReplyOk == ReaderMoves("reply", "receive")

(* The loop ends: None from receive(), or an exception out of the reply or *)
(* out of the on_message trace.  All of them run the finally block.        *)
EndOfStream == ReaderMoves("receive", "grab")
ReplyFails == ReaderMoves("reply", "grab")

ReaderTakes ==
    /\ reader = "grab" /\ reader' = "failing"
    /\ TakePending(Reader)
    /\ UNCHANGED <<lastId, future, call, answer, aim, life, pc, connector>>

ReaderFails == reader = "failing" /\ Settle(Reader, "lost") /\ UNCHANGED reader

ReaderDone == taken[Reader] = {} /\ aim[Reader] = 0 /\ ReaderMoves("failing", "done")

-----------------------------------------------------------------------------
(* Steps of a caller that do not touch the transport. *)
CallerLocal(c) ==
    \/ RefuseClosed(c) \/ PassClosed(c) \/ Register(c) \/ Unsend(c)
    \/ Answered(c) \/ HandshakeAnswered(c) \/ Expire(c) \/ TimedOut(c)
    \/ VersionOk(c) \/ VersionBad(c) \/ NoVersion(c) \/ Ready(c)
    \/ AlreadyClosed(c) \/ NotYetClosed(c) \/ Shut(c)
    \/ CloserTakes(c) \/ CloserTests(c) \/ CloserFails(c) \/ CloserDone(c)

CallerStep(c) ==
    \/ CallTool(c) \/ Connect(c) \/ BeginClose(c)
    \/ CallerLocal(c)
    \/ SendOk(c) \/ SendFails(c) \/ NotifyOk(c) \/ NotifyFails(c) \/ Teardown(c)

ReaderLocal == ReaderTests \/ Resolve \/ ReaderTakes \/ ReaderFails \/ ReaderDone

ReaderStep ==
    \/ ReaderLocal
    \/ \E i \in Ids, kind \in AnswerKind : TakeAnswer(i, kind)
    \/ Drop \/ TakeRequest \/ ReplyOk \/ ReplyFails \/ EndOfStream

ClientNext == (\E c \in Callers : CallerStep(c)) \/ ReaderStep

ClientSpec == ClientInit /\ [][ClientNext]_clientVars

-----------------------------------------------------------------------------
(* Thread t has Future i in its hands. *)
Holds(t, i) == i \in taken[t] \/ i = aim[t]

(* Some thread may still settle Future i: whoever pops it off the table,   *)
(* or the one thread that already has.                                     *)
Responsible(i) == i \in pending \/ \E t \in Threads : Holds(t, i)

(* A Future is never due to be settled by two threads.  done() is tested   *)
(* outside the lock (_resolve, _fail_all_pending), so only the ownership   *)
(* handed over under the lock keeps set_result or set_exception from       *)
(* raising when a response, end of stream and close() coincide.            *)
OneSettler ==
    /\ \A i \in pending, t \in Threads : ~Holds(t, i)
    /\ \A t, u \in Threads, i \in Ids : Holds(t, i) /\ Holds(u, i) => t = u

(* No caller is orphaned: while its Future is open and it is still inside  *)
(* request(), some thread can still settle it.                             *)
NoOrphan ==
    \A c \in Callers :
        InRequest(c) /\ future[call[c]] = "waiting" => Responsible(call[c])

(* _pending never leaks: each entry belongs to a call that has not         *)
(* returned, whether by answer, send error, timeout or close().            *)
PendingIsLive ==
    \A i \in pending : \E c \in Callers : InRequest(c) /\ call[c] = i

(* "Late or duplicate response for an id we no longer track": what a       *)
(* Future was settled with never changes, so a response that loses the     *)
(* race with close(), or arrives twice, changes no caller's outcome.       *)
SettledOnce ==
    [][\A i \in Ids : future[i] # "waiting" => future'[i] = future[i]]_clientVars

(* A caller is told the connection is gone only once it is: close() has    *)
(* been called or the reader has left its loop.                            *)
LostOnlyWhenOver ==
    (\E i \in Ids : future[i] = "lost")
        => closed \/ reader \in {"failing", "done"}
=============================================================================
