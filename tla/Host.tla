-------------------------------- MODULE Host --------------------------------
(***************************************************************************)
(* The host from start to exit (host/main.py): the main thread connects to *)
(* every configured server, calls tools, closes the sessions and then the  *)
(* log; each session's reader thread traces what its server sends, at any  *)
(* time.  ServerRegistry and McpLogger are composed here.  A session is    *)
(* reduced to what the registry and the log see of it: one request of the  *)
(* main thread at a time, which ends by an answer, an error, the end of    *)
(* the stream or its timeout (MCPClient has the rest).                     *)
(***************************************************************************)
EXTENDS McpLogger

CONSTANTS QName,      \* qualified tool names
          NoServer,
          MaxCalls,   \* bound: tool calls
          MaxExtra    \* bound: messages servers send unasked or twice

VARIABLES
    transports, clients, failures, tools,  \* the registry's tables
    main,         \* where the main thread is
    current,      \* the server it is dealing with
    purpose,      \* the method it is requesting
    outcome,      \* what the Future of its request holds
    session,      \* per server: its MCPClient
    reader,       \* per server: the thread of its session
    late,         \* servers whose reader outlived the wait for it
    lastId,       \* per server: ids given out
    peer,         \* per server: the server itself
    asked,        \* per server: requests it has received, while it is up
    answered,     \* per server: those it has answered
    wire,         \* per server: what it has sent, bound to one message
    calls, extra  \* messages counted against their bounds

ASSUME HostAssumption == /\ NoServer \notin Server
                         /\ {"initialize", "tools/list", "tools/call"} \subseteq Method
                         /\ {"ping", "notifications/initialized"} \subseteq Method
                         /\ NoMethod \notin Method
                         /\ MaxFaults \in Nat /\ MaxCalls \in Nat /\ MaxExtra \in Nat

R == INSTANCE ServerRegistry

registryVars == <<transports, clients, failures, tools>>
mainVars == <<main, current, purpose, outcome, calls>>
peerVars == <<peer, asked, answered, wire, extra>>
sessionVars == <<session, reader, late, lastId>>
hostVars == <<transports, clients, failures, tools, timers, lines, logClosed, faults,
              main, current, purpose, outcome, calls, peer, asked, answered, wire, extra,
              session, reader, late, lastId>>

MainPC == {"connect", "trace", "send", "await", "notify", "reject", "loop",
           "close", "join", "closeLog", "over"}

HostInit ==
    /\ LogInit /\ R!RegistryInit
    /\ main = "connect" /\ current = NoServer
    /\ purpose = "initialize" /\ outcome = "none"
    /\ session = [s \in Server |-> "none"]
    /\ reader = [s \in Server |-> "off"] /\ late = {}
    /\ lastId = [s \in Server |-> 0]
    /\ peer = [s \in Server |-> "up"]
    /\ asked = [s \in Server |-> {}] /\ answered = [s \in Server |-> {}]
    /\ wire = [s \in Server |-> <<>>]
    /\ calls = 0 /\ extra = 0

-----------------------------------------------------------------------------
(* The requests of the main thread *)

At(pc) == main = pc
Goto(pc) == main' = pc /\ UNCHANGED <<current, purpose, outcome, calls>>

(* What is traced and sent next on behalf of server s. *)
Request(s, method) ==
    /\ main' = "trace" /\ current' = s /\ purpose' = method /\ outcome' = "none"

Outgoing == [type |-> "request", id |-> lastId[current] + 1, method |-> purpose]

Trace ==
    /\ At("trace") /\ Goto("send")
    /\ Record(current, "out", Outgoing)
    /\ lastId' = [lastId EXCEPT ![current] = @ + 1]
    /\ UNCHANGED <<registryVars, session, reader, late, peerVars>>

(* transport.send() returns; a server that is gone may not have read it. *)
Send ==
    /\ At("send") /\ Goto("await")
    /\ asked' = IF peer[current] = "up"
                THEN [asked EXCEPT ![current] = @ \cup {lastId[current]}] ELSE asked
    /\ UNCHANGED <<logVars, registryVars, sessionVars, peer, answered, wire, extra>>

-----------------------------------------------------------------------------
(* How a request ends, and who catches it *)

(* An exception that connect_all() catches; in the loop, one that /call or *)
(* the agent reports.                                                      *)
Caught ==
    /\ main' = IF purpose = "tools/call" THEN "loop" ELSE "connect"
    /\ IF purpose = "tools/call" THEN UNCHANGED registryVars ELSE R!Failed(current)
    /\ outcome' = "none" /\ UNCHANGED <<current, purpose, calls>>

(* An exception that leaves connect_all(), or /call, and with it run():    *)
(* main() goes straight to its finally clause.                             *)
Escapes ==
    /\ main' = "close" /\ outcome' = "none"
    /\ UNCHANGED <<current, purpose, calls>>

(* The agent's turn ends with the exception, and only the turn.            *)
TurnEnds ==
    /\ purpose = "tools/call" /\ main' = "loop" /\ outcome' = "none"
    /\ UNCHANGED <<current, purpose, calls>>

(* The log cannot be written: OSError out of the trace, before the send.   *)
TraceFails ==
    /\ At("trace")
    /\ RecordFails(current, "out", Outgoing)
    /\ lastId' = [lastId EXCEPT ![current] = @ + 1]
    /\ \/ purpose # "tools/call" /\ Caught
       \/ purpose = "tools/call" /\ (Escapes \/ TurnEnds) /\ UNCHANGED registryVars
    /\ UNCHANGED <<session, reader, late, peerVars>>

Mut_RequestFails ==
    /\ At("send") \/ (At("await") /\ outcome = "lost")
    /\ Caught
    /\ UNCHANGED <<logVars, sessionVars, peerVars>>

(* TransportError: the send, the timeout, or the end of the stream.        *)
RequestFails ==
    /\ At("send") \/ (At("await") /\ outcome \in {"none", "lost"})
    /\ Caught
    /\ UNCHANGED <<logVars, sessionVars, peerVars>>

(* McpError: /call and the agent report it, connect_all() does not catch.  *)
Rejected ==
    /\ At("await") /\ outcome = "error"
    /\ \/ purpose = "tools/call" /\ Caught
       \/ purpose # "tools/call" /\ Escapes /\ UNCHANGED registryVars
    /\ UNCHANGED <<logVars, sessionVars, peerVars>>

(* A result that is not of the shape the code takes it to be.              *)
Misshapen ==
    /\ At("await") /\ outcome = "response"
    /\ Escapes \/ TurnEnds
    /\ IF purpose = "tools/list" THEN \E names \in SUBSET QName : R!AddTools(current, names)
       ELSE UNCHANGED registryVars
    /\ UNCHANGED <<logVars, sessionVars, peerVars>>

-----------------------------------------------------------------------------
(* connect_all() *)

(* The transport is built, and started if it can be. *)
ConnectOne(s) ==
    /\ At("connect") /\ R!Begin(s)
    /\ Request(s, "initialize")
    /\ session' = [session EXCEPT ![s] = "open"]
    /\ reader' = [reader EXCEPT ![s] = "receive"]
    /\ UNCHANGED <<logVars, late, lastId, peerVars, calls>>

CannotStart(s) ==
    /\ At("connect") /\ R!IsNext(s)
    /\ transports' = transports \cup {s} /\ failures' = failures \cup {s}
    /\ UNCHANGED <<clients, tools, logVars, sessionVars, peerVars, mainVars>>

VersionOk ==
    /\ At("await") /\ purpose = "initialize" /\ outcome = "response"
    /\ Goto("notify")
    /\ UNCHANGED <<logVars, registryVars, sessionVars, peerVars>>

PeerEnds(s) ==
    /\ peer' = [peer EXCEPT ![s] = "gone"]
    /\ asked' = [asked EXCEPT ![s] = {}] /\ answered' = [answered EXCEPT ![s] = {}]
    /\ UNCHANGED <<wire, extra>>

(* client.close(): the transport goes down, ...                            *)
Hangup(s) ==
    /\ session' = [session EXCEPT ![s] = "closed"]
    /\ PeerEnds(s)
    /\ UNCHANGED <<reader, late, lastId>>

Mut_JoinReader == UNCHANGED late

(* ... and the reader is joined, for as long as a timeout: it is gone, or  *)
(* in a send that lasts longer.                                            *)
JoinReader == \/ reader[current] = "off" /\ UNCHANGED late
              \/ reader[current] = "send" /\ late' = late \cup {current}

VersionBad ==
    /\ At("await") /\ purpose = "initialize" /\ outcome = "response"
    /\ Hangup(current) /\ Goto("reject")
    /\ UNCHANGED <<logVars, registryVars>>

ProtocolVersionError ==
    /\ At("reject") /\ JoinReader /\ Caught
    /\ UNCHANGED <<logVars, session, reader, lastId, peerVars>>

Initialized == [type |-> "notification", id |-> 0, method |-> "notifications/initialized"]

(* The notification goes out, the client is registered and asked for its   *)
(* tools.                                                                  *)
Notify ==
    /\ At("notify")
    /\ Record(current, "out", Initialized)
    /\ session' = [session EXCEPT ![current] = "ready"]
    /\ R!Connected(current)
    /\ Request(current, "tools/list")
    /\ UNCHANGED <<reader, late, lastId, peerVars, calls>>

NotifyFails ==
    /\ At("notify")
    /\ Record(current, "out", Initialized) \/ RecordFails(current, "out", Initialized)
    /\ Caught
    /\ UNCHANGED <<sessionVars, peerVars>>

Listed ==
    /\ At("await") /\ purpose = "tools/list" /\ outcome = "response"
    /\ \E names \in SUBSET QName : R!AddTools(current, names)
    /\ Goto("connect")
    /\ UNCHANGED <<logVars, sessionVars, peerVars>>

-----------------------------------------------------------------------------
(* The loop, and the way out *)

Connects == /\ At("connect") /\ R!AllTried /\ Goto("loop")
            /\ UNCHANGED <<logVars, registryVars, sessionVars, peerVars>>

(* registry.call(); an unknown name changes nothing. *)
CallTool(q) ==
    /\ At("loop") /\ q \in DOMAIN tools
    /\ calls < MaxCalls /\ calls' = calls + 1
    /\ Request(tools[q], "tools/call")
    /\ UNCHANGED <<logVars, registryVars, sessionVars, peerVars>>

CallDone ==
    /\ At("await") /\ purpose = "tools/call" /\ outcome = "response"
    /\ Goto("loop")
    /\ UNCHANGED <<logVars, registryVars, sessionVars, peerVars>>

Quit == /\ At("loop") /\ Goto("close")
        /\ UNCHANGED <<logVars, registryVars, sessionVars, peerVars>>

(* close_all(), one client after the other. *)
CloseClient(s) ==
    /\ At("close") /\ s \in clients /\ session[s] # "closed"
    /\ s = R!First({r \in clients : session[r] # "closed"})
    /\ Hangup(s)
    /\ main' = "join" /\ current' = s
    /\ UNCHANGED <<purpose, outcome, calls, logVars, registryVars>>

Joined ==
    /\ At("join") /\ JoinReader /\ Goto("close")
    /\ UNCHANGED <<logVars, registryVars, session, reader, lastId, peerVars>>

(* Ctrl+C out of the finally clause: the rest is not closed, nor the log.  *)
Interrupted ==
    /\ At("join") /\ Goto("over")
    /\ UNCHANGED <<logVars, registryVars, sessionVars, peerVars>>

AllClosed ==
    /\ At("close") /\ \A s \in clients : session[s] = "closed"
    /\ R!Clear /\ Goto("closeLog")
    /\ UNCHANGED <<logVars, sessionVars, peerVars>>

LogCloses ==
    /\ At("closeLog") /\ CloseLog /\ Goto("over")
    /\ UNCHANGED <<registryVars, sessionVars, peerVars>>
-----------------------------------------------------------------------------
(* The reader threads *)

(* The Future that message m of server s settles, if it does. *)
Settles(s, m) == /\ s = current /\ main = "await" /\ outcome = "none"
                 /\ IsAnswer(m) /\ m.id = lastId[s]

Takes(s) ==
    /\ wire[s] # <<>> /\ wire' = [wire EXCEPT ![s] = Tail(@)]
    /\ UNCHANGED <<registryVars, session, late, lastId, peer, asked, answered, extra, main, current, purpose, calls>>

Receives(s) ==
    LET m == Head(wire[s])
    IN  /\ reader[s] = "receive" /\ Takes(s)
        /\ Record(s, "in", m)
        /\ reader' = [reader EXCEPT ![s] = IF m.type = "request" THEN "reply" ELSE "receive"]
        /\ outcome' = IF Settles(s, m) THEN m.type ELSE outcome

(* The reader is gone, and fails the Future its session may have open.     *)
Ends(s) ==
    /\ reader' = [reader EXCEPT ![s] = "off"]
    /\ outcome' = IF s = current /\ main = "await" /\ outcome = "none" THEN "lost" ELSE outcome

CannotTrace(s) ==
    /\ reader[s] = "receive" /\ Takes(s) /\ Ends(s)
    /\ RecordFails(s, "in", Head(wire[s]))

(* -32601 to a request of the server, whose id was 1: traced, then sent,   *)
(* however long that takes.                                                *)
Reply == [type |-> "error", id |-> 1, method |-> NoMethod]

Replies(s) ==
    /\ reader[s] = "reply"
    /\ \/ Record(s, "out", Reply) /\ reader' = [reader EXCEPT ![s] = "send"] /\ UNCHANGED outcome
       \/ RecordFails(s, "out", Reply) /\ Ends(s)
    /\ UNCHANGED <<registryVars, session, late, lastId, peerVars, main, current, purpose, calls>>

ReplySent(s) ==
    /\ reader[s] = "send"
    /\ (reader' = [reader EXCEPT ![s] = "receive"] /\ UNCHANGED outcome) \/ Ends(s)
    /\ UNCHANGED <<logVars, registryVars, session, late, lastId, peerVars, main, current, purpose, calls>>

EndOfStream(s) ==
    /\ reader[s] = "receive" /\ wire[s] = <<>> /\ peer[s] = "gone"
    /\ Ends(s)
    /\ UNCHANGED <<logVars, registryVars, session, late, lastId, peerVars, main, current, purpose, calls>>

ReaderRuns(s) == Receives(s) \/ CannotTrace(s) \/ Replies(s) \/ ReplySent(s) \/ EndOfStream(s)

-----------------------------------------------------------------------------
(* The servers (external) *)

Says(s, m) ==
    /\ peer[s] = "up" /\ session[s] # "none" /\ wire[s] = <<>>
    /\ wire' = [wire EXCEPT ![s] = Append(@, m)]
    /\ UNCHANGED <<peer, asked, logVars, registryVars, sessionVars, mainVars>>

Answers(s) ==
    \E i \in asked[s] \ answered[s], t \in {"response", "error"} :
        /\ Says(s, [type |-> t, id |-> i, method |-> NoMethod])
        /\ answered' = [answered EXCEPT ![s] = @ \cup {i}]
        /\ UNCHANGED extra

(* The id of an answer to nothing. *)
Unasked == -1

(* A request of its own, an answer once more, or one nobody asked for. *)
SpeaksUp(s) ==
    /\ extra < MaxExtra /\ extra' = extra + 1
    /\ \/ Says(s, [type |-> "request", id |-> 1, method |-> "ping"])
       \/ \E i \in answered[s] \cup {Unasked} :
              Says(s, [type |-> "response", id |-> i, method |-> NoMethod])
    /\ UNCHANGED answered

Dies(s) ==
    /\ peer[s] = "up" /\ session[s] # "none"
    /\ PeerEnds(s)
    /\ UNCHANGED <<logVars, registryVars, sessionVars, mainVars>>

PeerStep(s) == Answers(s) \/ SpeaksUp(s) \/ Dies(s)

-----------------------------------------------------------------------------
(* What the user decides. *)
UserStep == (\E q \in QName : CallTool(q)) \/ Quit \/ Interrupted

(* What the main thread does by itself. *)
MainRuns ==
    \/ Trace \/ Send \/ TraceFails \/ RequestFails \/ Rejected \/ Misshapen
    \/ (\E s \in Server : ConnectOne(s) \/ CannotStart(s) \/ CloseClient(s))
    \/ VersionOk \/ VersionBad \/ ProtocolVersionError \/ Notify \/ NotifyFails \/ Listed
    \/ Connects \/ CallDone \/ Joined \/ AllClosed \/ LogCloses

HostNext == UserStep \/ MainRuns \/ \E s \in Server : ReaderRuns(s) \/ PeerStep(s)

(* The threads run, and a future.result(timeout) runs out. *)
HostSpec == /\ HostInit /\ [][HostNext]_hostVars
            /\ WF_hostVars(MainRuns)
            /\ \A s \in Server : WF_hostVars(ReaderRuns(s))
-----------------------------------------------------------------------------
(* "Stop it on the response with that id": an answer is timed against the  *)
(* request that stands last in the log of what has its id - of that        *)
(* server, in the other direction - and against none when an answer stands *)
(* there already, or nothing: though threads trace at once, ids start at 1 *)
(* in every session, and a server may answer twice, or unasked.            *)
TimedByItsRequest ==
    \A s \in Server, d \in Direction :
        LET log == lines[s][d]
            New(i, j) == \A k \in i + 1 .. j - 1 : log[k].id # log[j].id
        IN  \A j \in 1 .. Len(log) : IsAnswer(log[j]) =>
                \/ New(0, j) /\ log[j].answers = NoMethod
                \/ \E i \in 1 .. j - 1 :
                       /\ log[i].id = log[j].id /\ New(i, j)
                       /\ log[j].answers = IF log[i].type = "request" THEN log[i].method ELSE NoMethod

(* A tool in the table belongs to a client in the table: registry.call()   *)
(* never fails on a name it has.                                           *)
ToolsHaveClients == \A q \in DOMAIN tools : tools[q] \in clients

(* When the log closes every session that was connected is closed, and its *)
(* reader gone too: but for one that was inside the send of its own answer *)
(* when the time that close() waits for it ran out.                        *)
ConnectedAreQuiet ==
    logClosed => \A s \in Server :
        session[s] # "ready" /\ (session[s] = "closed" /\ reader[s] # "off" => s \in late)

(* Starting up, a call and the way out never hang, whatever the servers    *)
(* and the log do: the main thread gets to the prompt or to the end.       *)
PromptOrEnd == ~At("loop") ~> (At("loop") \/ At("over"))

(* registry.py: "One bad server does not stop the others".                 *)
OthersAreTried == main \in {"loop", "close"} => R!AllTried
=============================================================================
