------------------------------ MODULE HostProofs ------------------------------
(***************************************************************************)
(* Three invariants of Host, for any set of servers and any bounds: a tool *)
(* of the table has a client (ToolsHaveClients), when the log closes no    *)
(* connected session can trace any more (ConnectedAreQuiet), and an answer *)
(* is timed against its own request, however often a server uses an id     *)
(* again (TimedByItsRequest).                                              *)
(***************************************************************************)
EXTENDS Host, WellFoundedInduction, TLAPS

(* The types the argument needs. *)
Shape ==
    /\ clients \subseteq Server
    /\ tools \in [DOMAIN tools -> Server]
    /\ session \in [Server -> {"none", "open", "ready", "closed"}]
    /\ reader \in [Server -> {"off", "receive", "reply", "send"}]
    /\ main \in MainPC
    /\ main \in {"trace", "send", "await", "notify", "reject", "join"} => current \in Server

(* Tools are listed on behalf of a client. *)
Listing == main \in {"trace", "send", "await"} /\ purpose = "tools/list" => current \in clients

(* A session that is ready is one close_all() will find. *)
ReadyIsClient == \A s \in Server : session[s] = "ready" => s \in clients

(* No server is tried twice. *)
Untried == main \notin {"closeLog", "over"} =>
               \A s \in Server \ transports : session[s] = "none"

(* A server is recorded before anything is asked of it. *)
Tried == /\ clients \subseteq transports
         /\ main \in {"trace", "send", "await", "notify"} => current \in transports

(* A closed session still has its reader only where close() has not waited *)
(* for it to the end: it does so now, gave up, or was interrupted.         *)
Quiet == \A s \in Server : session[s] = "closed" =>
             \/ reader[s] = "off" \/ s \in late
             \/ main \in {"join", "reject"} /\ s = current
             \/ main = "over" /\ ~logClosed

(* The log is the last thing to close. *)
LastThing == /\ logClosed => main = "over"
             /\ main = "closeLog" \/ logClosed => \A s \in Server : session[s] # "ready"

IInv == /\ Shape /\ ToolsHaveClients /\ Listing
        /\ ReadyIsClient /\ Untried /\ Tried /\ Quiet /\ LastThing

(* Moves of the main thread that touch no table and no session. *)
Moves == \/ Trace \/ Send \/ VersionOk \/ ProtocolVersionError \/ CallDone \/ Quit
         \/ Connects \/ Joined \/ Interrupted \/ (\E q \in QName : CallTool(q))

(* Exceptions, caught or not. *)
Failures == TraceFails \/ RequestFails \/ Rejected \/ NotifyFails

-----------------------------------------------------------------------------
USE DEF Goto, At, mainVars, peerVars, sessionVars, logVars, registryVars

LEMMA InitIInv == HostInit => IInv
BY DEF HostInit, LogInit, R!RegistryInit, R!NoTools, IInv, Shape, ToolsHaveClients, Listing,
       ReadyIsClient, Untried, Tried, Quiet, LastThing, MainPC

(* Nothing that matters changes. *)
Still == UNCHANGED <<transports, clients, tools, session, reader, late, main, current, purpose, logClosed>>

LEMMA StillKeeps == ASSUME IInv, Still PROVE IInv'
BY DEF Still, IInv, Shape, ToolsHaveClients, Listing, ReadyIsClient, Untried, Tried, Quiet, LastThing

LEMMA PeerKeeps == ASSUME NEW s \in Server, IInv, PeerStep(s) PROVE IInv'
<1>1. Still
  BY DEF PeerStep, Answers, SpeaksUp, Dies, Says, PeerEnds, Still
<1> QED BY <1>1, StillKeeps

(* A reader that stops stays stopped. *)
LEMMA ReaderKeeps == ASSUME NEW s \in Server, IInv, ReaderRuns(s) PROVE IInv'
<1>1. /\ UNCHANGED <<transports, clients, tools, session, late, main, current, purpose>>
      /\ reader[s] # "off"
      /\ \E r \in {"off", "receive", "reply", "send"} : reader' = [reader EXCEPT ![s] = r]
  <2>1. CASE Receives(s)
    BY <2>1 DEF Receives, Takes
  <2>2. CASE CannotTrace(s)
    BY <2>2 DEF CannotTrace, Takes, Ends
  <2>3. CASE Replies(s)
    BY <2>3 DEF Replies, Ends
  <2>4. CASE EndOfStream(s)
    BY <2>4 DEF EndOfStream, Ends
  <2>5. CASE ReplySent(s)
    BY <2>5 DEF ReplySent, Ends
  <2> QED BY <2>1, <2>2, <2>3, <2>4, <2>5 DEF ReaderRuns
<1>2. logClosed' = logClosed
  BY DEF ReaderRuns, Receives, CannotTrace, Replies, ReplySent, EndOfStream, Record, RecordFails
<1> QED
  BY <1>1, <1>2 DEF IInv, Shape, ToolsHaveClients, Listing, ReadyIsClient, Untried, Tried, Quiet, LastThing

LEMMA MovesKeep == ASSUME IInv, Moves PROVE IInv'
<1>1. /\ UNCHANGED <<transports, clients, tools, session, reader, logClosed>>
      /\ late' = late \/ (JoinReader /\ main \in {"join", "reject"})
  BY DEF Moves, Trace, Send, VersionOk, ProtocolVersionError, CallDone, Quit, Connects, Joined,
         Interrupted, CallTool, Record, Caught, R!Failed, Request
<1>2. CASE Trace \/ Send \/ VersionOk
  BY <1>1, <1>2 DEF Trace, Send, VersionOk, IInv, Shape, ToolsHaveClients, Listing,
     ReadyIsClient, Untried, Tried, Quiet, LastThing, MainPC
<1>3. CASE ProtocolVersionError
  BY <1>1, <1>3 DEF ProtocolVersionError, JoinReader, Caught, IInv, Shape, ToolsHaveClients, Listing,
     ReadyIsClient, Untried, Tried, Quiet, LastThing, MainPC
<1>4. CASE CallDone \/ Quit \/ Connects \/ Joined \/ Interrupted
  BY <1>1, <1>4 DEF CallDone, Quit, Connects, Joined, Interrupted, JoinReader, IInv, Shape, ToolsHaveClients, Listing,
     ReadyIsClient, Untried, Tried, Quiet, LastThing, MainPC
<1>5. CASE \E q \in QName : CallTool(q)
  BY <1>1, <1>5 DEF CallTool, Request, IInv, Shape, ToolsHaveClients, Listing,
     ReadyIsClient, Untried, Tried, Quiet, LastThing, MainPC
<1> QED BY <1>2, <1>3, <1>4, <1>5 DEF Moves

LEMMA FailuresKeep == ASSUME IInv, Failures PROVE IInv'
<1>1. /\ UNCHANGED <<transports, clients, tools, session, reader, late, logClosed, current, purpose>>
      /\ main \in {"trace", "send", "await", "notify"}
      /\ main' \in {"loop", "connect", "close"}
  BY DEF Failures, TraceFails, RequestFails, Rejected, NotifyFails, Record, RecordFails, Caught,
         Escapes, TurnEnds, R!Failed
<1> QED
  BY <1>1 DEF IInv, Shape, ToolsHaveClients, Listing, ReadyIsClient, Untried, Tried, Quiet, LastThing, MainPC

(* A listing, whole or in part, adds tools of a client. *)
LEMMA ListedKeeps == ASSUME IInv, Listed \/ Misshapen PROVE IInv'
<1>1. /\ UNCHANGED <<transports, clients, session, reader, late, logClosed, current, purpose>>
      /\ main = "await" /\ main' \in {"loop", "connect", "close"}
  BY DEF Listed, Misshapen, R!AddTools, Escapes, TurnEnds
<1>2. \/ tools' = tools
      \/ /\ purpose = "tools/list"
         /\ \E names \in SUBSET QName : R!AddTools(current, names)
  BY DEF Listed, Misshapen
<1>3. tools' \in [DOMAIN tools' -> Server] /\ ToolsHaveClients'
  <2>1. CASE tools' = tools
    BY <1>1, <2>1 DEF IInv, Shape, ToolsHaveClients
  <2>2. ASSUME purpose = "tools/list", NEW names \in SUBSET QName, R!AddTools(current, names)
        PROVE  tools' \in [DOMAIN tools' -> Server] /\ ToolsHaveClients'
    BY <1>1, <2>2 DEF IInv, Shape, Listing, ToolsHaveClients, R!AddTools
  <2> QED BY <1>2, <2>1, <2>2
<1> QED
  BY <1>1, <1>3 DEF IInv, Shape, Listing, ReadyIsClient, Untried, Tried, Quiet, LastThing, MainPC

(* client.close() on the current client. *)
LEMMA HangupKeeps ==
    ASSUME IInv, NEW s \in transports, s \in Server, Hangup(s), current' = s,
           main \in {"await", "close"}, main' \in {"reject", "join"},
           UNCHANGED <<transports, clients, tools, logClosed>>
    PROVE  IInv'
<1>1. /\ UNCHANGED <<reader, late>>
      /\ session' = [session EXCEPT ![s] = "closed"]
  BY DEF Hangup
<1>2. Shape' /\ Listing' /\ ToolsHaveClients' /\ Tried' /\ Untried'
  BY <1>1 DEF IInv, Shape, Listing, ToolsHaveClients, MainPC, Tried, Untried
<1>3. ReadyIsClient' /\ LastThing'
  BY <1>1 DEF IInv, Shape, ReadyIsClient, LastThing
<1>4. Quiet'
  <2> SUFFICES ASSUME NEW t \in Server, t # s, session[t] = "closed"
               PROVE  reader[t] = "off" \/ t \in late
    BY <1>1 DEF IInv, Shape, Quiet
  <2>1. main \notin {"join", "reject", "over"}
    OBVIOUS
  <2> QED BY <2>1 DEF IInv, Quiet
<1> QED BY <1>2, <1>3, <1>4 DEF IInv

LEMMA ConnectKeeps ==
    ASSUME IInv, Notify \/ VersionBad \/ \E s \in Server : ConnectOne(s) \/ CannotStart(s)
    PROVE  IInv'
<1>1. CASE Notify
  <2>1. /\ UNCHANGED <<transports, tools, reader, late, logClosed, current>>
        /\ main = "notify" /\ main' = "trace" /\ current \in Server
        /\ clients' = clients \cup {current}
        /\ session' = [session EXCEPT ![current] = "ready"]
    BY <1>1 DEF Notify, Record, R!Connected, Request, IInv, Shape
  <2>2. Shape' /\ Listing' /\ ToolsHaveClients'
    BY <2>1 DEF IInv, Shape, Listing, ToolsHaveClients, MainPC
  <2>3. ReadyIsClient' /\ Quiet' /\ LastThing'
    BY <2>1 DEF IInv, Shape, ReadyIsClient, Quiet, LastThing
  <2>4. current \in transports
    BY <2>1 DEF IInv, Tried
  <2>5. Untried' /\ Tried'
    BY <2>1, <2>4 DEF IInv, Shape, Untried, Tried
  <2> QED BY <2>2, <2>3, <2>5 DEF IInv
<1>2. CASE VersionBad
  BY <1>2, HangupKeeps DEF VersionBad, IInv, Shape, Tried
<1>3. CASE \E s \in Server : ConnectOne(s)
  BY <1>3 DEF ConnectOne, R!Begin, R!IsNext, Request, IInv, Shape, ToolsHaveClients, Listing,
     ReadyIsClient, Untried, Tried, Quiet, LastThing, MainPC
<1>4. CASE \E s \in Server : CannotStart(s)
  BY <1>4 DEF CannotStart, IInv, Shape, ToolsHaveClients, Listing,
     ReadyIsClient, Untried, Tried, Quiet, LastThing, MainPC
<1> QED BY <1>1, <1>2, <1>3, <1>4

LEMMA CloseKeeps ==
    ASSUME IInv, AllClosed \/ LogCloses \/ \E s \in Server : CloseClient(s) PROVE IInv'
<1>1. CASE AllClosed
  BY <1>1 DEF AllClosed, R!Clear, R!NoTools, IInv, Shape, ToolsHaveClients, Listing,
     ReadyIsClient, Untried, Tried, Quiet, LastThing, MainPC
<1>2. CASE LogCloses
  BY <1>2 DEF LogCloses, CloseLog, IInv, Shape, ToolsHaveClients, Listing,
     ReadyIsClient, Untried, Tried, Quiet, LastThing, MainPC
<1>3. CASE \E s \in Server : CloseClient(s)
  BY <1>3, HangupKeeps DEF CloseClient, IInv, Shape, Tried
<1> QED BY <1>1, <1>2, <1>3

LEMMA StepKeeps == ASSUME IInv, [HostNext]_hostVars PROVE IInv'
<1>1. CASE UNCHANGED hostVars
  BY <1>1, StillKeeps DEF hostVars, Still
<1>2. CASE \E s \in Server : ReaderRuns(s) \/ PeerStep(s)
  BY <1>2, ReaderKeeps, PeerKeeps
<1>3. CASE UserStep
  BY <1>3, MovesKeep DEF UserStep, Moves
<1>4. CASE MainRuns
  BY <1>4, MovesKeep, FailuresKeep, ListedKeeps, ConnectKeeps, CloseKeeps
     DEF MainRuns, Moves, Failures
<1> QED BY <1>1, <1>2, <1>3, <1>4 DEF HostNext

LEMMA HostInvariant == HostSpec => []IInv
BY InitIInv, StepKeeps, PTL DEF HostSpec

-----------------------------------------------------------------------------
(* registry.call() finds a client for every tool the registry lists, even  *)
(* after a listing that failed half-way.                                   *)
THEOREM HostToolsHaveClients == HostSpec => []ToolsHaveClients
<1>1. IInv => ToolsHaveClients
  BY DEF IInv
<1> QED BY <1>1, HostInvariant, PTL

(* Whatever ended the program, when the log closes every session that was  *)
(* connected is closed, and its reader gone but for one in the middle of a *)
(* send when the wait for it ran out.                                      *)
THEOREM HostConnectedAreQuiet == HostSpec => []ConnectedAreQuiet
<1>1. IInv => ConnectedAreQuiet
  BY DEF IInv, LastThing, Quiet, ConnectedAreQuiet
<1> QED BY <1>1, HostInvariant, PTL
-----------------------------------------------------------------------------
(***************************************************************************)
(* The timers and the log.  A timer may be there without its line, and the *)
(* other way round, when a write has failed; the argument is that nothing  *)
(* about such a request is ever logged again.                              *)
(***************************************************************************)
Methods == Method \cup {NoMethod}
Types == {"request", "notification", "response", "error"}
LogLine == [type : Types, id : Int, method : Methods, answers : Methods]
Traceable == [type : Types, id : Int, method : Methods]

LogShape == /\ timers \subseteq [server : Server, direction : Direction, id : Int, method : Methods]
            /\ lines \in [Server -> [Direction -> Seq(LogLine)]]

(* Line k is the last one of a log with id i. *)
LastOf(log, i, k) == /\ k \in 1 .. Len(log) /\ log[k].id = i
                     /\ \A n \in k + 1 .. Len(log) : log[n].id # i

(* What times request i is what the log says of it last, if anything. *)
InStep(s, d, i) ==
    /\ \A x \in Waiting(s, d, i) :
          \E k \in Nat : /\ LastOf(lines[s][d], i, k)
                         /\ lines[s][d][k].type = "request" /\ lines[s][d][k].method = x.method
    /\ \A k \in Nat : LastOf(lines[s][d], i, k) /\ lines[s][d][k].type = "request" =>
                         Waiting(s, d, i) # {}

(* Where record() puts a line about message m. *)
Side(d, m) == IF IsAnswer(m) THEN Opposite(d) ELSE d

-----------------------------------------------------------------------------
(* A new line is the last of its id, and of no other. *)
LEMMA LastOfAppend ==
    ASSUME NEW log \in Seq(LogLine), NEW line \in LogLine, NEW i, NEW k
    PROVE  LastOf(Append(log, line), i, k) <=> IF line.id = i THEN k = Len(log) + 1 ELSE LastOf(log, i, k)
<1> DEFINE longer == Append(log, line)
<1>1. /\ longer \in Seq(LogLine) /\ Len(longer) = Len(log) + 1 /\ Len(log) \in Nat
      /\ longer[Len(log) + 1] = line
      /\ \A n \in 1 .. Len(log) : longer[n] = log[n]
  OBVIOUS
<1> HIDE DEF longer
<1>2. CASE line.id = i
  BY <1>1, <1>2 DEF LastOf
<1>3. CASE line.id # i
  BY <1>1, <1>3 DEF LastOf
<1> QED BY <1>2, <1>3 DEF longer

(* _correlate() touches the timer of its message's id on its side only. *)
LEMMA CorrelateTouches ==
    ASSUME LogShape, NEW s \in Server, NEW d \in Direction, NEW m \in Traceable, Correlate(s, d, m)
    PROVE  /\ timers' \subseteq [server : Server, direction : Direction, id : Int, method : Methods]
           /\ \A t \in Server, f \in Direction, i \in Int \ {0} :
                 <<t, f, i>> # <<s, Side(d, m), m.id>> => Waiting(t, f, i)' = Waiting(t, f, i)
           /\ m.id # 0 /\ IsAnswer(m) => Waiting(s, Side(d, m), m.id)' = {}
           /\ m.id # 0 /\ m.type = "request" =>
                 /\ Waiting(s, d, m.id)' # {}
                 /\ \A x \in Waiting(s, d, m.id)' : x.method = m.method
<1> USE DEF LogShape, Waiting, Side, IsAnswer, Opposite, Traceable, Types, Direction
<1>1. CASE m.id # 0 /\ m.type = "request"
  <2> DEFINE new == [server |-> s, direction |-> d, id |-> m.id, method |-> m.method]
  <2>1. timers' = (timers \ Waiting(s, d, m.id)) \cup {new}
    BY <1>1 DEF Correlate
  <2>2. new \in [server : Server, direction : Direction, id : Int, method : Methods]
    OBVIOUS
  <2>3. new.server = s /\ new.direction = d /\ new.id = m.id /\ new.method = m.method /\ Side(d, m) = d
    BY <1>1
  <2> HIDE DEF new
  <2>4. Waiting(s, d, m.id)' = {new}
    BY <2>1, <2>3
  <2>5. ASSUME NEW t \in Server, NEW f \in Direction, NEW i \in Int \ {0}, <<t, f, i>> # <<s, d, m.id>>
        PROVE  Waiting(t, f, i)' = Waiting(t, f, i)
    BY <2>1, <2>3, <2>5
  <2>6. timers' \subseteq [server : Server, direction : Direction, id : Int, method : Methods]
    BY <2>1, <2>2
  <2>7. ~IsAnswer(m)
    BY <1>1
  <2> HIDE DEF Waiting, IsAnswer, Side
  <2> QED BY <2>3, <2>4, <2>5, <2>6, <2>7
<1>2. CASE m.id # 0 /\ IsAnswer(m)
  <2>1. timers' = timers \ Waiting(s, Opposite(d), m.id)
    BY <1>2 DEF Correlate
  <2> QED BY <1>2, <2>1
<1>3. CASE ~(m.id # 0 /\ m.type = "request") /\ ~(m.id # 0 /\ IsAnswer(m))
  <2>1. timers' = timers
    BY <1>3 DEF Correlate
  <2> QED BY <1>3, <2>1
<1> QED BY <1>1, <1>2, <1>3
(* The line record() writes about message m. *)
LineOf(s, d, m) == [type |-> m.type, id |-> m.id, method |-> m.method, answers |-> Answered(s, d, m)]

LEMMA LineOfType ==
    ASSUME LogShape, NEW s \in Server, NEW d \in Direction, NEW m \in Traceable
    PROVE  LineOf(s, d, m) \in LogLine
<1>1. Answered(s, d, m) \in Methods
  <2>1. CASE IsAnswer(m) /\ Waiting(s, Opposite(d), m.id) # {}
    <3> DEFINE x == CHOOSE x \in Waiting(s, Opposite(d), m.id) : TRUE
    <3>1. x \in Waiting(s, Opposite(d), m.id)
      BY <2>1
    <3> HIDE DEF x
    <3>2. x.method \in Methods
      BY <3>1 DEF Waiting, LogShape
    <3> QED BY <2>1, <3>2 DEF Answered, x
  <2>2. CASE ~(IsAnswer(m) /\ Waiting(s, Opposite(d), m.id) # {})
    BY <2>2 DEF Answered, Methods
  <2> QED BY <2>1, <2>2
<1> QED BY <1>1 DEF LineOf, LogLine, Traceable

(* What a line that is written does to the log. *)
LEMMA WrittenAdds ==
    ASSUME LogShape, NEW s \in Server, NEW d \in Direction, NEW m \in Traceable,
           lines' = Written(s, d, m)
    PROVE  /\ lines' \in [Server -> [Direction -> Seq(LogLine)]]
           /\ lines'[s][Side(d, m)] = Append(lines[s][Side(d, m)], LineOf(s, d, m))
           /\ \A t \in Server, f \in Direction : <<t, f>> # <<s, Side(d, m)>> => lines'[t][f] = lines[t][f]
<1>1. Side(d, m) \in Direction
  BY DEF Side, Opposite, Direction
<1>2. lines' = [lines EXCEPT ![s][Side(d, m)] = Append(lines[s][Side(d, m)], LineOf(s, d, m))]
  BY DEF Written, Side, LineOf
<1>3. Append(lines[s][Side(d, m)], LineOf(s, d, m)) \in Seq(LogLine)
  BY <1>1, LineOfType DEF LogShape
<1> QED BY <1>1, <1>2, <1>3 DEF LogShape

(* Whoever has a line written about request i has it in step again, and no *)
(* other request falls out of step.                                        *)
LEMMA RecordTimes ==
    ASSUME LogShape, NEW s \in Server, NEW d \in Direction, NEW m \in Traceable,
           m.id = 0 <=> m.type = "notification",
           Correlate(s, d, m), lines' = Written(s, d, m)
    PROVE  /\ LogShape'
           /\ \A t \in Server, f \in Direction, i \in Int \ {0} :
                 /\ InStep(t, f, i) => InStep(t, f, i)'
           /\ m.id # 0 => InStep(s, Side(d, m), m.id)'
<1> DEFINE side == Side(d, m)
           log == lines[s][side]
<1>1. side \in Direction
  BY DEF Side, Opposite, Direction
<1>2. /\ LineOf(s, d, m) \in LogLine /\ log \in Seq(LogLine)
      /\ LineOf(s, d, m).id = m.id /\ LineOf(s, d, m).type = m.type
      /\ LineOf(s, d, m).method = m.method
  BY <1>1, LineOfType DEF LogShape, LineOf
<1>3. /\ lines'[s][side] = Append(log, LineOf(s, d, m))
      /\ \A t \in Server, f \in Direction : <<t, f>> # <<s, side>> => lines'[t][f] = lines[t][f]
  BY WrittenAdds
<1>4. LogShape'
  BY CorrelateTouches, WrittenAdds DEF LogShape
<1>5. \A i \in Int, k \in Nat : LastOf(lines'[s][side], i, k) <=>
          IF m.id = i THEN k = Len(log) + 1 ELSE LastOf(log, i, k)
  BY <1>2, <1>3, LastOfAppend
<1>6. /\ \A k \in 1 .. Len(log) : lines'[s][side][k] = log[k]
      /\ Len(log) \in Nat /\ lines'[s][side][Len(log) + 1] = LineOf(s, d, m)
  BY <1>2, <1>3
<1>7. m.id # 0 => InStep(s, side, m.id)'
  <2> SUFFICES ASSUME m.id # 0 PROVE InStep(s, side, m.id)'
    OBVIOUS
  <2>1. m.id \in Int /\ (IsAnswer(m) \/ m.type = "request")
    BY DEF Traceable, Types, IsAnswer
  <2>2. \A k \in Nat : LastOf(lines'[s][side], m.id, k) <=> k = Len(log) + 1
    BY <1>5, <2>1
  <2>3. CASE IsAnswer(m)
    <3>1. Waiting(s, side, m.id)' = {} /\ m.type # "request"
      BY <2>3, CorrelateTouches DEF IsAnswer
    <3> QED BY <3>1, <2>2, <1>6, <1>2 DEF InStep
  <2>4. CASE m.type = "request"
    <3>1. /\ side = d /\ Waiting(s, side, m.id)' # {}
          /\ \A x \in Waiting(s, side, m.id)' : x.method = m.method
      BY <2>4, CorrelateTouches DEF IsAnswer, Side
    <3> QED BY <2>4, <3>1, <2>2, <1>6, <1>2 DEF InStep
  <2> QED BY <2>1, <2>3, <2>4
<1>8. ASSUME NEW t \in Server, NEW f \in Direction, NEW i \in Int \ {0}, <<t, f, i>> # <<s, side, m.id>>
      PROVE  /\ InStep(t, f, i) => InStep(t, f, i)'
  <2>1. Waiting(t, f, i)' = Waiting(t, f, i)
    BY <1>8, CorrelateTouches
  <2>2. /\ \A k \in Nat : LastOf(lines'[t][f], i, k) <=> LastOf(lines[t][f], i, k)
        /\ \A k \in 1 .. Len(lines[t][f]) : lines'[t][f][k] = lines[t][f][k]
    <3>1. CASE <<t, f>> = <<s, side>>
      BY <1>5, <1>6, <1>8, <3>1
    <3>2. CASE <<t, f>> # <<s, side>>
      BY <1>3, <3>2
    <3> QED BY <3>1, <3>2
  <2>3. \A k \in Nat : LastOf(lines[t][f], i, k) => k \in 1 .. Len(lines[t][f])
    BY DEF LastOf
  <2> QED BY <2>1, <2>2, <2>3 DEF InStep
<1>9. ASSUME NEW t \in Server, NEW f \in Direction, NEW i \in Int \ {0}
      PROVE  /\ InStep(t, f, i) => InStep(t, f, i)'
  <2>1. CASE <<t, f, i>> = <<s, side, m.id>>
    BY <1>7, <1>9, <2>1
  <2> QED BY <1>8, <2>1
<1> QED BY <1>4, <1>7, <1>9

(* A line that is lost leaves every other request in step. *)
LEMMA LostLine ==
    ASSUME LogShape, NEW s \in Server, NEW d \in Direction, NEW m \in Traceable,
           Correlate(s, d, m), lines' = lines
    PROVE  /\ LogShape'
           /\ \A t \in Server, f \in Direction, i \in Int \ {0} :
                 /\ <<t, f, i>> # <<s, Side(d, m), m.id>> /\ InStep(t, f, i) => InStep(t, f, i)'
<1>1. LogShape'
  BY CorrelateTouches DEF LogShape
<1>2. ASSUME NEW t \in Server, NEW f \in Direction, NEW i \in Int \ {0},
             <<t, f, i>> # <<s, Side(d, m), m.id>>
      PROVE  InStep(t, f, i) => InStep(t, f, i)'
  <2>1. Waiting(t, f, i)' = Waiting(t, f, i)
    BY <1>2, CorrelateTouches
  <2> QED BY <2>1 DEF InStep
<1> QED BY <1>1, <1>2

(* TimedByItsRequest, of line j of a log. *)
FirstSince(log, i, j) == \A k \in i + 1 .. j - 1 : log[k].id # log[j].id

Timed(log, j) ==
    \/ FirstSince(log, 0, j) /\ log[j].answers = NoMethod
    \/ \E i \in 1 .. j - 1 :
           /\ log[i].id = log[j].id /\ FirstSince(log, i, j)
           /\ log[j].answers = IF log[i].type = "request" THEN log[i].method ELSE NoMethod

AllTimed == \A s \in Server, d \in Direction : \A j \in 1 .. Len(lines[s][d]) :
                IsAnswer(lines[s][d][j]) => Timed(lines[s][d], j)

LEMMA TimedLines == TimedByItsRequest <=> AllTimed
BY DEF TimedByItsRequest, AllTimed, Timed, FirstSince

LEMMA TimedAppend ==
    ASSUME NEW log \in Seq(LogLine), NEW line \in LogLine, NEW j \in 1 .. Len(log), Timed(log, j)
    PROVE  Timed(Append(log, line), j)
<1> DEFINE longer == Append(log, line)
<1>1. \A k \in 1 .. Len(log) : longer[k] = log[k]
  OBVIOUS
<1>2. Len(log) \in Nat /\ j \in Nat /\ longer[j] = log[j]
  BY <1>1
<1> HIDE DEF longer
<1>3. \A i \in Nat : FirstSince(log, i, j) => FirstSince(longer, i, j)
  BY <1>1, <1>2 DEF FirstSince
<1>4. CASE FirstSince(log, 0, j) /\ log[j].answers = NoMethod
  BY <1>2, <1>3, <1>4 DEF Timed, longer
<1>5. ASSUME NEW i \in 1 .. j - 1,
             log[i].id = log[j].id /\ FirstSince(log, i, j),
             log[j].answers = IF log[i].type = "request" THEN log[i].method ELSE NoMethod
      PROVE  Timed(longer, j)
  <2>1. longer[i] = log[i] /\ FirstSince(longer, i, j)
    BY <1>1, <1>2, <1>3, <1>5
  <2> QED BY <1>2, <1>5, <2>1 DEF Timed
<1> QED BY <1>4, <1>5 DEF Timed, longer

(* What a log says of an id, when it says anything, it says in a last line. *)
LEMMA LastOfSome ==
    ASSUME NEW log \in Seq(LogLine), NEW id, NEW k \in 1 .. Len(log), log[k].id = id
    PROVE  \E n \in Nat : LastOf(log, id, n)
<1> DEFINE named == {n \in Nat : n \in 1 .. Len(log) /\ log[n].id = id}
           before == {x \in Nat : Len(log) - x \in named}
<1>1. Len(log) \in Nat
  OBVIOUS
<1>2. Len(log) - k \in before
  BY <1>1
<1>3. PICK x \in before : \A y \in before : ~(<<y, x>> \in OpToRel(<, Nat))
  <2> HIDE DEF before
  <2>1. before \subseteq Nat
    BY DEF before
  <2> QED BY <1>2, <2>1, NatLessThanWellFounded, WFMin
<1>4. \A y \in before : ~(y < x)
  BY <1>3 DEF OpToRel
<1>5. LastOf(log, id, Len(log) - x)
  <2>1. ASSUME NEW n \in Len(log) - x + 1 .. Len(log), log[n].id = id PROVE FALSE
    <3>1. Len(log) - n \in before /\ Len(log) - n < x
      BY <1>1, <2>1
    <3> QED BY <1>4, <3>1
  <2> QED BY <1>1, <2>1 DEF LastOf
<1> QED BY <1>1, <1>5

(* An answer is timed as it should, when its request was in step. *)
LEMMA RecordKeepsTimed ==
    ASSUME LogShape, TimedByItsRequest, NEW s \in Server, NEW d \in Direction, NEW m \in Traceable,
           lines' = Written(s, d, m),
           IsAnswer(m) => InStep(s, Side(d, m), m.id)
    PROVE  TimedByItsRequest'
<1> DEFINE side == Side(d, m)
           log == lines[s][side]
           longer == lines'[s][side]
           end == Len(log) + 1
<1>1. side \in Direction
  BY DEF Side, Opposite, Direction
<1>2. LineOf(s, d, m) \in LogLine /\ log \in Seq(LogLine)
  BY <1>1, LineOfType DEF LogShape
<1>3. /\ longer = Append(log, LineOf(s, d, m))
      /\ \A t \in Server, f \in Direction : <<t, f>> # <<s, side>> => lines'[t][f] = lines[t][f]
  BY WrittenAdds
<1>4. /\ Len(log) \in Nat /\ Len(longer) = end /\ longer[end] = LineOf(s, d, m)
      /\ \A k \in 1 .. Len(log) : longer[k] = log[k]
  BY <1>2, <1>3
<1>5. ASSUME NEW j \in 1 .. Len(log), IsAnswer(longer[j]) PROVE Timed(longer, j)
  <2>1. IsAnswer(log[j])
    BY <1>4, <1>5 DEF IsAnswer
  <2>2. Timed(log, j)
    BY <1>1, <2>1, TimedLines DEF AllTimed
  <2> QED BY <1>2, <1>3, <2>2, TimedAppend
<1>6. ASSUME IsAnswer(longer[end]) PROVE Timed(longer, end)
  <2>1. IsAnswer(m) /\ longer[end].id = m.id /\ longer[end].answers = Answered(s, d, m)
    BY <1>4, <1>6 DEF LineOf, IsAnswer
  <2>2. side = Opposite(d) /\ InStep(s, side, m.id)
    BY <2>1 DEF Side
  <2>3. ASSUME NEW i \in Nat, LastOf(log, m.id, i) PROVE Timed(longer, end)
    <3>1. /\ i \in 1 .. end - 1 /\ longer[i] = log[i] /\ longer[i].id = longer[end].id
          /\ FirstSince(longer, i, end)
      <4>1. i \in 1 .. Len(log) /\ log[i].id = m.id /\ \A k \in i + 1 .. Len(log) : log[k].id # m.id
        BY <2>3 DEF LastOf
      <4>2. end - 1 = Len(log) /\ \A k \in i + 1 .. Len(log) : longer[k] = log[k]
        BY <1>4, <4>1
      <4>3. longer[i] = log[i]
        BY <1>4, <4>1
      <4> HIDE DEF longer, log, end
      <4> QED BY <2>1, <4>1, <4>2, <4>3 DEF FirstSince
    <3>2. \A k \in Nat : LastOf(log, m.id, k) => k = i
      BY <2>3, <1>4 DEF LastOf
    <3>3. \A x \in Waiting(s, side, m.id) : log[i].type = "request" /\ log[i].method = x.method
      BY <2>2, <3>2 DEF InStep
    <3>4. log[i].type = "request" => Waiting(s, side, m.id) # {}
      BY <2>2, <2>3 DEF InStep
    <3>5. Answered(s, d, m) = IF log[i].type = "request" THEN log[i].method ELSE NoMethod
      <4>1. CASE Waiting(s, side, m.id) = {}
        BY <2>1, <2>2, <3>4, <4>1 DEF Answered
      <4>2. CASE Waiting(s, side, m.id) # {}
        <5> DEFINE x == CHOOSE x \in Waiting(s, side, m.id) : TRUE
        <5>1. x \in Waiting(s, side, m.id)
          BY <4>2
        <5>2. Answered(s, d, m) = x.method
          BY <2>1, <2>2, <4>2 DEF Answered
        <5> HIDE DEF x
        <5> QED BY <5>1, <5>2, <3>3
      <4> QED BY <4>1, <4>2
    <3> HIDE DEF longer, log, end
    <3> QED BY <2>1, <3>1, <3>5 DEF Timed
  <2>4. ASSUME \A i \in Nat : ~LastOf(log, m.id, i) PROVE Timed(longer, end)
    <3>1. \A k \in 1 .. Len(log) : log[k].id # m.id
      BY <1>2, <2>4, LastOfSome
    <3>2. FirstSince(longer, 0, end)
      <4> HIDE DEF log, longer
      <4> QED BY <1>4, <2>1, <3>1 DEF FirstSince
    <3>3. Waiting(s, side, m.id) = {}
      BY <2>2, <2>4 DEF InStep
    <3>4. Answered(s, d, m) = NoMethod
      BY <2>1, <2>2, <3>3 DEF Answered
    <3> QED BY <2>1, <3>2, <3>4 DEF Timed
  <2> QED BY <2>3, <2>4
<1>7. ASSUME NEW t \in Server, NEW f \in Direction, NEW j \in 1 .. Len(lines'[t][f]), IsAnswer(lines'[t][f][j])
      PROVE  Timed(lines'[t][f], j)
  <2>1. CASE <<t, f>> = <<s, side>>
    <3>1. t = s /\ f = side /\ (j \in 1 .. Len(log) \/ j = end)
      BY <1>4, <1>7, <2>1
    <3> HIDE DEF side, log, longer, end
    <3> QED BY <1>5, <1>6, <1>7, <3>1 DEF longer
  <2>2. CASE <<t, f>> # <<s, side>>
    <3>1. lines'[t][f] = lines[t][f]
      BY <1>3, <2>2
    <3> QED BY <1>7, <3>1, TimedLines DEF AllTimed
  <2> QED BY <2>1, <2>2
<1> QED BY <1>7 DEF TimedByItsRequest, IsAnswer, Timed, FirstSince
-----------------------------------------------------------------------------
(* What a server may have on the wire. *)
FromServer == [type : {"response", "error"}, id : Int \ {0}, method : {NoMethod}]
              \cup {[type |-> "request", id |-> 1, method |-> "ping"]}

WireShape == /\ purpose \in Method
             /\ lastId \in [Server -> Nat]
             /\ asked \in [Server -> SUBSET Nat] /\ answered \in [Server -> SUBSET Nat]
             /\ wire \in [Server -> Seq(FromServer)]

(* An answer to request i of server s may still be traced.                 *)
Owed(s, i) == \/ i \in asked[s]
              \/ \E k \in 1 .. Len(wire[s]) : IsAnswer(wire[s][k]) /\ wire[s][k].id = i
              \/ main = "send" /\ s = current /\ i = lastId[s]
              \/ i = Unasked

(* What server s sends is still traced, or nothing has been yet.           *)
Hears(s) == session[s] = "none" \/ reader[s] # "off"

Heard(s) == /\ reader[s] # "off" => session[s] # "none"
            /\ answered[s] \subseteq asked[s]
            /\ \A i : Owed(s, i) => i = Unasked \/ i \in 1 .. lastId[s]

Clocked(s) ==
    ~logClosed /\ Hears(s) =>
        /\ \A i \in Int \ {0} : InStep(s, "in", i)
        /\ \A i \in Int \ {0} : Owed(s, i) => InStep(s, "out", i)

TimerInv == /\ LogShape /\ WireShape /\ TimedByItsRequest
            /\ \A s \in Server : Heard(s) /\ Clocked(s)

(* Nothing is traced, and no more may be traced than before.               *)
Silent == /\ UNCHANGED <<timers, lines, lastId>>
          /\ logClosed => logClosed'
          /\ \A s \in Server : /\ Hears(s)' => Hears(s)
                               /\ reader'[s] # "off" => session'[s] # "none"
                               /\ answered'[s] \subseteq asked'[s]
                               /\ \A i : Owed(s, i)' => Owed(s, i)

-----------------------------------------------------------------------------
LEMMA InitTimers == HostInit => TimerInv
<1> SUFFICES ASSUME HostInit PROVE TimerInv
  OBVIOUS
<1>1. LogShape /\ WireShape /\ TimedByItsRequest
  BY HostAssumption DEF HostInit, LogInit, LogShape, WireShape, TimedByItsRequest
<1>2. ASSUME NEW s \in Server PROVE Heard(s) /\ Clocked(s)
  <2>1. \A i : Owed(s, i) => i = Unasked
    BY DEF HostInit, Owed
  <2>2. \A d \in Direction, i \in Int \ {0} : InStep(s, d, i)
    BY DEF HostInit, LogInit, InStep, Waiting, LastOf
  <2> QED BY <2>1, <2>2 DEF HostInit, Heard, Clocked, Direction
<1> QED BY <1>1, <1>2 DEF TimerInv

LEMMA SilentKeeps == ASSUME TimerInv, Silent, WireShape' PROVE TimerInv'
<1>1. LogShape' /\ TimedByItsRequest'
  BY DEF TimerInv, Silent, LogShape, TimedByItsRequest
<1>2. /\ \A s, d, i : InStep(s, d, i)' <=> InStep(s, d, i)
  BY DEF Silent, InStep, Waiting
<1>3. ASSUME NEW s \in Server PROVE Heard(s)' /\ Clocked(s)'
  <2>1. Heard(s) /\ Clocked(s)
    BY DEF TimerInv
  <2> QED BY <2>1, <1>2 DEF Silent, Heard, Clocked
<1> QED BY <1>1, <1>3 DEF TimerInv

(* The main thread's own steps. *)
MainIsSilent ==
    \/ Send \/ RequestFails \/ Rejected \/ Misshapen \/ VersionOk \/ VersionBad
    \/ ProtocolVersionError \/ Listed \/ Connects \/ CallDone \/ Joined \/ AllClosed \/ LogCloses
    \/ UserStep \/ \E s \in Server : ConnectOne(s) \/ CannotStart(s) \/ CloseClient(s)

(* The sessions stay as they are, and what is in flight. *)
LEMMA IdleIsSilent ==
    ASSUME TimerInv, UNCHANGED <<timers, lines, lastId, session, reader, asked, answered, wire>>,
           logClosed => logClosed',
           main' # "send", purpose' \in Method
    PROVE  Silent /\ WireShape'
<1>1. WireShape'
  BY DEF TimerInv, WireShape
<1>2. \A s \in Server : Heard(s)
  BY DEF TimerInv
<1>3. Silent
  BY <1>2 DEF Silent, Heard, Hears, Owed
<1> QED BY <1>1, <1>3

LEMMA HangupIsSilent ==
    ASSUME TimerInv, IInv, NEW s \in Server, Hangup(s), main' # "send", purpose' = purpose,
           UNCHANGED <<timers, lines, logClosed>>
    PROVE  Silent /\ WireShape'
<1>1. WireShape'
  BY DEF TimerInv, WireShape, Hangup, PeerEnds
<1>2. \A t \in Server : Heard(t)
  BY DEF TimerInv
<1>3. /\ UNCHANGED <<lastId, reader, wire>>
      /\ session' = [session EXCEPT ![s] = "closed"]
      /\ asked' = [asked EXCEPT ![s] = {}] /\ answered' = [answered EXCEPT ![s] = {}]
  BY DEF Hangup, PeerEnds
<1>4. Silent
  <2> SUFFICES ASSUME NEW t \in Server
               PROVE  /\ Hears(t)' => Hears(t)
                      /\ reader'[t] # "off" => session'[t] # "none"
                      /\ answered'[t] \subseteq asked'[t]
                      /\ \A i : Owed(t, i)' => Owed(t, i)
    BY <1>3 DEF Silent
  <2>1. session'[t] = (IF t = s THEN "closed" ELSE session[t])
    BY <1>3 DEF IInv, Shape
  <2>2. /\ asked'[t] = (IF t = s THEN {} ELSE asked[t])
        /\ answered'[t] = (IF t = s THEN {} ELSE answered[t])
    BY <1>3 DEF TimerInv, WireShape
  <2> QED BY <1>2, <1>3, <2>1, <2>2 DEF Heard, Hears, Owed
<1> QED BY <1>1, <1>4

LEMMA MainSilent == ASSUME IInv, TimerInv, MainIsSilent PROVE Silent /\ WireShape'
<1>1. purpose \in Method /\ WireShape /\ \A s \in Server : Heard(s)
  BY DEF TimerInv, WireShape
<1>2. CASE Send
  <2>1. /\ UNCHANGED <<timers, lines, logClosed, lastId, session, reader, answered, wire, purpose, current>>
        /\ main = "send" /\ main' = "await" /\ current \in Server
        /\ asked' \in {asked, [asked EXCEPT ![current] = @ \cup {lastId[current]}]}
    BY <1>2 DEF Send, IInv, Shape
  <2>2. WireShape'
    <3>1. asked[current] \cup {lastId[current]} \in SUBSET Nat
      BY <1>1, <2>1 DEF WireShape
    <3>2. asked' \in [Server -> SUBSET Nat]
      BY <1>1, <2>1, <3>1 DEF WireShape
    <3> QED BY <1>1, <2>1, <3>2 DEF WireShape
  <2>3. ASSUME NEW s \in Server
        PROVE  /\ asked[s] \subseteq asked'[s]
               /\ asked'[s] \subseteq asked[s] \cup {i \in {lastId[s]} : s = current}
    BY <1>1, <2>1 DEF WireShape
  <2>5. Silent
    BY <1>1, <2>1, <2>3 DEF Silent, Heard, Hears, Owed
  <2> QED BY <2>2, <2>5
<1>3. CASE RequestFails \/ Rejected \/ Misshapen \/ VersionOk \/ ProtocolVersionError \/ Listed
           \/ Connects \/ CallDone \/ Joined
  BY <1>1, <1>3, IdleIsSilent DEF RequestFails, Rejected, Misshapen, VersionOk, ProtocolVersionError,
     Listed, Connects, CallDone, Joined, Caught, Escapes, TurnEnds
<1>4. CASE AllClosed \/ LogCloses \/ UserStep
  BY <1>1, <1>4, IdleIsSilent, HostAssumption DEF AllClosed, LogCloses, CloseLog, UserStep, CallTool, Quit, Interrupted, Request
<1>5. CASE VersionBad
  BY <1>5, HangupIsSilent DEF VersionBad, IInv, Shape
<1>6. CASE \E s \in Server : CloseClient(s)
  BY <1>6, HangupIsSilent DEF CloseClient
<1>7. CASE \E s \in Server : CannotStart(s)
  BY <1>1, <1>7, IdleIsSilent DEF CannotStart
<1>8. ASSUME NEW s \in Server, ConnectOne(s) PROVE Silent /\ WireShape'
  <2>1. /\ UNCHANGED <<timers, lines, logClosed, lastId, asked, answered, wire>>
        /\ main' = "trace" /\ purpose' = "initialize" /\ session[s] = "none"
        /\ session' = [session EXCEPT ![s] = "open"] /\ reader' = [reader EXCEPT ![s] = "receive"]
    BY <1>8 DEF ConnectOne, R!Begin, R!IsNext, Request, IInv, Untried
  <2>2. WireShape'
    BY <2>1, HostAssumption DEF TimerInv, WireShape
  <2>4. \A t \in Server : /\ session'[t] = (IF t = s THEN "open" ELSE session[t])
                          /\ reader'[t] = (IF t = s THEN "receive" ELSE reader[t])
    BY <2>1 DEF IInv, Shape
  <2>5. Silent
    BY <1>1, <2>1, <2>4 DEF Silent, Heard, Hears, Owed
  <2> QED BY <2>2, <2>5
<1> QED BY <1>2, <1>3, <1>4, <1>5, <1>6, <1>7, <1>8 DEF MainIsSilent
(* What a server does is not traced before its reader takes it off the     *)
(* wire, and what it answers it has been asked.                            *)
LEMMA PeerSilent == ASSUME NEW s \in Server, IInv, TimerInv, PeerStep(s) PROVE Silent /\ WireShape'
<1>1. WireShape /\ \A t \in Server : Heard(t)
  BY DEF TimerInv
<1>2. UNCHANGED <<timers, lines, logClosed, lastId, session, reader, main, current, purpose>>
  BY DEF PeerStep, Answers, SpeaksUp, Dies, Says
<1>3. CASE Dies(s)
  <2>1. /\ UNCHANGED wire /\ asked' = [asked EXCEPT ![s] = {}]
        /\ answered' = [answered EXCEPT ![s] = {}]
    BY <1>3 DEF Dies, PeerEnds
  <2>2. \A t \in Server : asked'[t] \in {{}, asked[t]} /\ answered'[t] \subseteq asked'[t]
    BY <1>1, <2>1 DEF WireShape, Heard
  <2>3. WireShape'
    BY <1>1, <1>2, <2>1 DEF WireShape
  <2> QED BY <1>1, <1>2, <2>1, <2>2, <2>3 DEF Silent, Heard, Hears, Owed
<1>4. CASE Answers(s) \/ SpeaksUp(s)
  <2>1. PICK m \in FromServer :
            /\ wire[s] = <<>> /\ wire' = [wire EXCEPT ![s] = Append(@, m)]
            /\ asked' = asked
            /\ IsAnswer(m) => m.id \in asked[s] \cup {Unasked}
            /\ answered' \in {answered} \cup {[answered EXCEPT ![s] = @ \cup {i}] : i \in asked[s]}
    <3>1. CASE Answers(s)
      <4>1. PICK i \in asked[s], t \in {"response", "error"} :
                /\ Says(s, [type |-> t, id |-> i, method |-> NoMethod])
                /\ answered' = [answered EXCEPT ![s] = @ \cup {i}]
        BY <3>1 DEF Answers
      <4>2. i \in Int \ {0}
        BY <1>1 DEF Heard, Owed, WireShape, Unasked
      <4> QED BY <4>1, <4>2 DEF Says, FromServer
    <3>2. CASE SpeaksUp(s)
      <4>1. CASE Says(s, [type |-> "request", id |-> 1, method |-> "ping"])
        BY <3>2, <4>1 DEF SpeaksUp, Says, FromServer, IsAnswer
      <4>2. ASSUME NEW i \in answered[s] \cup {Unasked}, Says(s, [type |-> "response", id |-> i, method |-> NoMethod])
            PROVE  i \in asked[s] \cup {Unasked} /\ i \in Int \ {0}
        BY <1>1 DEF Heard, Owed, WireShape, Unasked
      <4> QED BY <3>2, <4>1, <4>2 DEF SpeaksUp, Says, FromServer
    <3> QED BY <1>4, <3>1, <3>2
  <2>2. /\ wire' \in [Server -> Seq(FromServer)]
        /\ Len(wire'[s]) = 1 /\ wire'[s][1] = m
        /\ \A t \in Server \ {s} : wire'[t] = wire[t]
    <3>1. Append(wire[s], m) = <<m>> /\ <<m>> \in Seq(FromServer)
      BY <2>1
    <3> QED BY <1>1, <2>1, <3>1 DEF WireShape
  <2>3. answered' \in [Server -> SUBSET Nat] /\ \A t \in Server : answered'[t] \subseteq asked[t]
    <3>1. CASE answered' = answered
      BY <1>1, <3>1 DEF WireShape, Heard
    <3>2. ASSUME NEW i \in asked[s], answered' = [answered EXCEPT ![s] = @ \cup {i}]
          PROVE  answered' \in [Server -> SUBSET Nat] /\ \A t \in Server : answered'[t] \subseteq asked[t]
      <4>1. answered[s] \cup {i} \in SUBSET Nat /\ answered[s] \cup {i} \subseteq asked[s]
        BY <1>1 DEF WireShape, Heard
      <4> QED BY <1>1, <3>2, <4>1 DEF WireShape, Heard
    <3> QED BY <2>1, <3>1, <3>2
  <2>4. WireShape'
    BY <1>1, <1>2, <2>1, <2>2, <2>3 DEF WireShape
  <2>5. \A t \in Server : \A i : Owed(t, i)' => Owed(t, i)
    BY <1>2, <2>1, <2>2 DEF Owed
  <2> QED BY <1>1, <1>2, <2>1, <2>3, <2>4, <2>5 DEF Silent, Heard, Hears
<1> QED BY <1>3, <1>4 DEF PeerStep

(* The reader has sent its answer, or stops. *)
LEMMA EndSilent ==
    ASSUME NEW s \in Server, IInv, TimerInv, ReplySent(s) \/ EndOfStream(s)
    PROVE  Silent /\ WireShape'
<1>1. WireShape /\ \A t \in Server : Heard(t)
  BY DEF TimerInv
<1>2. /\ UNCHANGED <<timers, lines, logClosed, lastId, session, main, current, purpose, asked, answered, wire>>
      /\ reader[s] # "off"
      /\ \E r \in {"receive", "off"} : reader' = [reader EXCEPT ![s] = r]
  BY DEF ReplySent, EndOfStream, Ends
<1>3. \A t \in Server : t # s => reader'[t] = reader[t]
  BY <1>2 DEF IInv, Shape
<1>4. WireShape'
  BY <1>1, <1>2 DEF WireShape
<1> QED BY <1>1, <1>2, <1>3, <1>4 DEF Silent, Heard, Hears, Owed

-----------------------------------------------------------------------------
(* A message is traced: by the thread of server s, in direction d.         *)
Traced(s, d, m) ==
    /\ Correlate(s, d, m)
    /\ lines' = IF logClosed THEN lines ELSE Written(s, d, m)
    /\ logClosed' = logClosed

(* Or its line is lost. *)
Lost(s, d, m) == Correlate(s, d, m) /\ lines' = lines /\ logClosed' = logClosed

(* An answer is only traced where it is in step. *)
LEMMA TracedKeeps ==
    ASSUME LogShape, TimedByItsRequest, NEW s \in Server, NEW d \in Direction, NEW m \in Traceable,
           m.id = 0 <=> m.type = "notification",
           Traced(s, d, m),
           ~logClosed /\ IsAnswer(m) => InStep(s, Side(d, m), m.id)
    PROVE  /\ LogShape' /\ TimedByItsRequest'
           /\ \A t \in Server, f \in Direction, i \in Int \ {0} :
                 /\ ~logClosed /\ InStep(t, f, i) => InStep(t, f, i)'
           /\ ~logClosed /\ m.id # 0 =>
                 InStep(s, Side(d, m), m.id)'
<1>1. CASE logClosed
  <2>1. LogShape' /\ lines' = lines
    BY <1>1, LostLine DEF Traced
  <2>2. TimedByItsRequest'
    BY <2>1 DEF TimedByItsRequest
  <2> QED BY <1>1, <2>1, <2>2
<1>2. CASE ~logClosed
  BY <1>2, RecordTimes, RecordKeepsTimed DEF Traced
<1> QED BY <1>1, <1>2

(* The main thread traces a request, or the notification. *)
LEMMA TraceKeeps == ASSUME IInv, TimerInv, Trace PROVE TimerInv'
<1>1. WireShape /\ LogShape /\ TimedByItsRequest /\ \A t \in Server : Heard(t) /\ Clocked(t)
  BY DEF TimerInv
<1>2. PICK s \in Server, id \in Nat \ {0} : s = current /\ id = lastId[s] + 1
  BY <1>1 DEF WireShape, Trace, IInv, Shape
<1>3. PICK m \in Traceable : m = Outgoing
  <2>1. Outgoing \in Traceable
    BY <1>1, <1>2 DEF Outgoing, Traceable, Types, Methods, WireShape
  <2> QED BY <2>1
<1>4. /\ m.type = "request" /\ m.id = id /\ ~IsAnswer(m)
      /\ "out" \in Direction /\ Side("out", m) = "out"
  BY <1>2, <1>3 DEF Outgoing, IsAnswer, Side, Direction
<1>5. /\ UNCHANGED <<session, reader, asked, answered, wire, current, purpose, logClosed>>
      /\ main = "trace" /\ main' = "send"
      /\ lastId' = [lastId EXCEPT ![s] = id]
      /\ Traced(s, "out", m)
  BY <1>2, <1>3 DEF Trace, Record, Traced
<1>6. /\ lastId' \in [Server -> Nat] /\ lastId'[s] = id /\ lastId[s] = id - 1
      /\ \A t \in Server \ {s} : lastId'[t] = lastId[t]
  <2>1. lastId \in [Server -> Nat]
    BY <1>1 DEF WireShape
  <2> QED BY <1>2, <1>5, <2>1
<1>7. /\ LogShape' /\ TimedByItsRequest'
      /\ \A t \in Server, f \in Direction, i \in Int \ {0} :
            /\ ~logClosed /\ InStep(t, f, i) => InStep(t, f, i)'
      /\ ~logClosed => InStep(s, "out", id)'
  BY <1>1, <1>4, <1>5, TracedKeeps
<1>8. WireShape'
  BY <1>1, <1>5, <1>6 DEF WireShape
<1>9. ASSUME NEW t \in Server PROVE Heard(t)' /\ Clocked(t)'
  <2>1. \A i : Owed(t, i)' => Owed(t, i) \/ (t = s /\ i = id)
    BY <1>2, <1>5, <1>6 DEF Owed
  <2>2. Heard(t)'
    <3>1. Heard(t) /\ id \in Nat \ {0}
      BY <1>1, <1>2, <1>9
    <3>2. /\ 1 .. lastId[t] \subseteq 1 .. lastId'[t]
          /\ t = s => id \in 1 .. lastId'[t]
      BY <1>6, <1>9, <3>1
    <3>3. \A i : Owed(t, i)' => i = Unasked \/ i \in 1 .. lastId'[t]
      BY <2>1, <3>1, <3>2 DEF Heard
    <3> QED BY <3>1, <1>5, <1>7, <3>3 DEF Heard, Direction
  <2>3. Clocked(t)'
    <3> SUFFICES ASSUME ~logClosed, Hears(t)
                 PROVE  /\ \A i \in Int \ {0} : InStep(t, "in", i)'
                        /\ \A i \in Int \ {0} : Owed(t, i)' => InStep(t, "out", i)'
      BY <1>5 DEF Clocked, Hears
    <3>1. /\ \A i \in Int \ {0} : InStep(t, "in", i)
          /\ \A i \in Int \ {0} : Owed(t, i) => InStep(t, "out", i)
      BY <1>1 DEF Clocked
    <3>2. "in" \in Direction /\ "out" \in Direction
      BY DEF Direction
    <3> QED BY <1>7, <2>1, <3>1, <3>2
  <2> QED BY <2>2, <2>3
<1> QED BY <1>7, <1>8, <1>9 DEF TimerInv
(* Requests other than this one stay in step. *)
OthersKept(s, side, id) ==
    /\ LogShape' /\ TimedByItsRequest' /\ logClosed' = logClosed
    /\ \A t \in Server, f \in Direction, i \in Int \ {0} :
          /\ <<t, f, i>> # <<s, side, id>> /\ ~logClosed /\ InStep(t, f, i) => InStep(t, f, i)'

(* No more may be traced than before. *)
NothingNew(t) == /\ Hears(t)' => Hears(t)
                 /\ reader'[t] # "off" => session'[t] # "none"
                 /\ answered'[t] \subseteq asked'[t]
                 /\ lastId[t] <= lastId'[t]
                 /\ \A i : Owed(t, i)' => Owed(t, i)

(* What else is traced concerns one request of one server: its timer is in *)
(* step again, or nothing more is traced about it.                         *)
LEMMA OneRequestKeeps ==
    ASSUME TimerInv, NEW s \in Server, NEW side \in Direction, NEW id \in Int,
           WireShape', OthersKept(s, side, id),
           \/ ~logClosed /\ id # 0 => InStep(s, side, id)'
           \/ side = "out" /\ ~Owed(s, id)
           \/ ~Hears(s)',
           \A t \in Server : NothingNew(t)
    PROVE  TimerInv'
<1> USE DEF OthersKept, NothingNew
<1>1. "in" \in Direction /\ "out" \in Direction
  BY DEF Direction
<1>2. ASSUME NEW t \in Server PROVE Heard(t)' /\ Clocked(t)'
  <2>1. Heard(t) /\ Clocked(t) /\ lastId[t] \in Nat /\ lastId'[t] \in Nat
    BY <1>2 DEF TimerInv, WireShape
  <2>2. Heard(t)'
    <3>1. 1 .. lastId[t] \subseteq 1 .. lastId'[t]
      BY <1>2, <2>1
    <3> QED BY <1>2, <2>1, <3>1 DEF Heard
  <2>3. Clocked(t)'
    <3> SUFFICES ASSUME ~logClosed, Hears(t)'
                 PROVE  /\ \A i \in Int \ {0} : InStep(t, "in", i)'
                        /\ \A i \in Int \ {0} : Owed(t, i)' => InStep(t, "out", i)'
      BY DEF Clocked
    <3>1. /\ \A i \in Int \ {0} : InStep(t, "in", i)
          /\ \A i \in Int \ {0} : Owed(t, i) => InStep(t, "out", i)
      BY <1>2, <2>1 DEF Clocked
    <3>2. ASSUME NEW i \in Int \ {0} PROVE InStep(t, "in", i)'
      <4>1. CASE <<t, "in", i>> = <<s, side, id>>
        BY <3>2, <4>1
      <4>2. CASE <<t, "in", i>> # <<s, side, id>>
        BY <1>1, <1>2, <3>1, <3>2, <4>2
      <4> QED BY <4>1, <4>2
    <3>3. ASSUME NEW i \in Int \ {0}, Owed(t, i)' PROVE InStep(t, "out", i)'
      <4>1. Owed(t, i)
        BY <1>2, <3>3
      <4>2. CASE <<t, "out", i>> = <<s, side, id>>
        BY <1>1, <1>2, <3>1, <3>3, <4>1, <4>2
      <4>3. CASE <<t, "out", i>> # <<s, side, id>>
        BY <1>1, <1>2, <3>1, <3>3, <4>1, <4>3
      <4> QED BY <4>2, <4>3
    <3> QED BY <3>2, <3>3
  <2> QED BY <2>2, <2>3
<1> QED BY <1>2 DEF TimerInv

(* The write fails: the line is there, or it is not. *)
LEMMA FailsTracedOrLost ==
    ASSUME NEW s, NEW d, NEW m, RecordFails(s, d, m)
    PROVE  ~logClosed /\ (Traced(s, d, m) \/ Lost(s, d, m))
BY DEF RecordFails, Traced, Lost

LEMMA TracedOrLost ==
    ASSUME LogShape, TimedByItsRequest, NEW s \in Server, NEW d \in Direction, NEW m \in Traceable,
           m.id = 0 <=> m.type = "notification",
           Traced(s, d, m) \/ Lost(s, d, m),
           ~logClosed /\ IsAnswer(m) => InStep(s, Side(d, m), m.id)
    PROVE  /\ OthersKept(s, Side(d, m), m.id)
           /\ Traced(s, d, m) /\ ~logClosed /\ m.id # 0 =>
                 InStep(s, Side(d, m), m.id)'
<1> USE DEF OthersKept
<1>1. CASE Traced(s, d, m)
  BY <1>1, TracedKeeps DEF Traced
<1>2. CASE Lost(s, d, m) /\ ~Traced(s, d, m)
  BY <1>2, LostLine DEF Lost, TimedByItsRequest
<1> QED BY <1>1, <1>2

(* The trace of a request fails: it is not sent, so it is never answered. *)
LEMMA TraceFailsKeeps == ASSUME IInv, TimerInv, TraceFails PROVE TimerInv'
<1>1. WireShape /\ LogShape /\ TimedByItsRequest /\ \A t \in Server : Heard(t)
  BY DEF TimerInv
<1>2. PICK s \in Server, id \in Nat \ {0} : s = current /\ id = lastId[s] + 1
  BY <1>1 DEF WireShape, TraceFails, IInv, Shape
<1>3. PICK m \in Traceable : m = Outgoing
  <2>1. Outgoing \in Traceable
    BY <1>1, <1>2 DEF Outgoing, Traceable, Types, Methods, WireShape
  <2> QED BY <2>1
<1>4. /\ m.type = "request" /\ m.id = id /\ ~IsAnswer(m)
      /\ "out" \in Direction /\ Side("out", m) = "out"
  BY <1>2, <1>3 DEF Outgoing, IsAnswer, Side, Direction
<1>5. /\ UNCHANGED <<session, reader, asked, answered, wire, current, purpose>>
      /\ main = "trace" /\ main' # "send"
      /\ lastId' = [lastId EXCEPT ![s] = id]
      /\ RecordFails(s, "out", m)
  BY <1>2, <1>3 DEF TraceFails, Caught, Escapes, TurnEnds
<1>6. /\ lastId' \in [Server -> Nat] /\ lastId[s] = id - 1
      /\ \A t \in Server : lastId[t] \in Nat /\ lastId[t] <= lastId'[t]
  <2>1. lastId \in [Server -> Nat]
    BY <1>1 DEF WireShape
  <2> QED BY <1>2, <1>5, <2>1
<1>7. ~Owed(s, id)
  <2>1. id \notin 1 .. lastId[s] /\ id # Unasked
    BY <1>6 DEF Unasked
  <2> QED BY <1>1, <2>1 DEF Heard
<1>8. OthersKept(s, "out", id)
  <2>1. Traced(s, "out", m) \/ Lost(s, "out", m)
    BY <1>5, FailsTracedOrLost
  <2> QED BY <1>1, <1>4, <2>1, TracedOrLost
<1>9. WireShape'
  BY <1>1, <1>5, <1>6 DEF WireShape
<1>10. \A t \in Server : \A i : Owed(t, i)' => Owed(t, i)
  BY <1>5 DEF Owed
<1>11. \A t \in Server : NothingNew(t)
  BY <1>1, <1>5, <1>6, <1>10 DEF Hears, Heard, NothingNew
<1> QED BY <1>4, <1>7, <1>8, <1>9, <1>11, OneRequestKeeps

(* The notification has no id, and no timer. *)
LEMMA NotifyKeeps == ASSUME IInv, TimerInv, Notify \/ NotifyFails PROVE TimerInv'
<1>1. WireShape /\ LogShape /\ TimedByItsRequest /\ \A t \in Server : Heard(t)
  BY DEF TimerInv
<1>2. PICK s \in Server : s = current
  BY DEF Notify, NotifyFails, IInv, Shape
<1>3. PICK m \in Traceable : m = Initialized
  <2>1. Initialized \in Traceable
    BY HostAssumption DEF Initialized, Traceable, Types, Methods
  <2> QED BY <2>1
<1>4. /\ m.type = "notification" /\ m.id = 0 /\ ~IsAnswer(m)
      /\ "out" \in Direction /\ Side("out", m) = "out"
  BY <1>3 DEF Initialized, IsAnswer, Side, Direction
<1>5. /\ UNCHANGED <<reader, lastId, asked, answered, wire>>
      /\ main' # "send" /\ purpose' \in {purpose, "tools/list"}
      /\ session' \in {session, [session EXCEPT ![s] = "ready"]}
      /\ Traced(s, "out", m) \/ RecordFails(s, "out", m)
  BY <1>2, <1>3 DEF Notify, NotifyFails, Request, Caught, Record, Traced
<1>6. \A t \in Server : session'[t] \in {session[t], "ready"}
  BY <1>5 DEF IInv, Shape
<1>7. OthersKept(s, "out", 0)
  <2>1. Traced(s, "out", m) \/ Lost(s, "out", m)
    BY <1>5, FailsTracedOrLost
  <2> QED BY <1>1, <1>4, <2>1, TracedOrLost
<1>8. WireShape'
  BY <1>1, <1>5, HostAssumption DEF WireShape
<1>9. \A t \in Server : lastId[t] <= lastId'[t]
  BY <1>1, <1>5 DEF WireShape
<1>10. \A t \in Server : \A i : Owed(t, i)' => Owed(t, i)
  BY <1>5 DEF Owed
<1>11. \A t \in Server : NothingNew(t)
  BY <1>1, <1>5, <1>9, <1>10, <1>6 DEF Hears, Heard, NothingNew
<1> QED BY <1>4, <1>7, <1>8, <1>11, OneRequestKeeps
(* The reader takes a message off the wire.  If it is an answer, its       *)
(* request is in step.                                                     *)
LEMMA TakesMessage ==
    ASSUME IInv, TimerInv, NEW s \in Server, reader[s] = "receive", Takes(s)
    PROVE  \E m \in Traceable :
               /\ m = Head(wire[s])
               /\ m.id \in Int \ {0} /\ m.type # "notification"
               /\ m.type = "request" => m.id = 1
               /\ Side("in", m) = (IF IsAnswer(m) THEN "out" ELSE "in")
               /\ ~logClosed /\ IsAnswer(m) =>
                      InStep(s, Side("in", m), m.id)
               /\ WireShape' /\ UNCHANGED <<session, lastId, asked, answered, main, current>>
               /\ \A t \in Server : \A i : Owed(t, i)' => Owed(t, i)
<1>1. WireShape /\ Heard(s) /\ Clocked(s)
  BY DEF TimerInv
<1> DEFINE m == Head(wire[s])
<1>2. /\ wire[s] \in Seq(FromServer) /\ wire[s] # <<>>
      /\ wire' = [wire EXCEPT ![s] = Tail(@)]
      /\ UNCHANGED <<session, lastId, asked, answered, main, current, purpose>>
  BY <1>1 DEF Takes, WireShape
<1>3. m \in FromServer /\ m = wire[s][1] /\ 1 \in 1 .. Len(wire[s])
  BY <1>2
<1>4. /\ m \in Traceable /\ m.id \in Int \ {0} /\ m.type # "notification"
      /\ m.type = "request" => m.id = 1
  BY <1>3, HostAssumption DEF FromServer, Traceable, Types, Methods
<1>5. Side("in", m) = (IF IsAnswer(m) THEN "out" ELSE "in")
  BY DEF Side, Opposite
<1>6. IsAnswer(m) => Owed(s, m.id)
  BY <1>3 DEF Owed, IsAnswer
<1>7. ~logClosed /\ IsAnswer(m) => InStep(s, "out", m.id)
  BY <1>1, <1>4, <1>6 DEF Clocked, Hears
<1>8. /\ Tail(wire[s]) \in Seq(FromServer) /\ Len(Tail(wire[s])) = Len(wire[s]) - 1
      /\ \A k \in 1 .. Len(Tail(wire[s])) : Tail(wire[s])[k] = wire[s][k + 1]
      /\ Len(wire[s]) \in Nat
  BY <1>2
<1>9. wire' \in [Server -> Seq(FromServer)] /\ wire'[s] = Tail(wire[s])
      /\ \A t \in Server \ {s} : wire'[t] = wire[t]
  BY <1>1, <1>2, <1>8 DEF WireShape
<1>10. WireShape'
  BY <1>1, <1>2, <1>9 DEF WireShape
<1>11. \A t \in Server : \A i : Owed(t, i)' => Owed(t, i)
  <2> SUFFICES ASSUME NEW t \in Server, NEW i, Owed(t, i)' PROVE Owed(t, i)
    OBVIOUS
  <2>1. CASE t # s
    BY <1>2, <1>9, <2>1 DEF Owed
  <2>2. ASSUME t = s, NEW k \in 1 .. Len(wire'[s]), IsAnswer(wire'[s][k]), wire'[s][k].id = i
        PROVE  Owed(t, i)
    <3>1. k + 1 \in 1 .. Len(wire[s]) /\ wire'[s][k] = wire[s][k + 1]
      BY <1>8, <1>9, <2>2
    <3> QED BY <2>2, <3>1 DEF Owed, IsAnswer
  <2> QED BY <1>2, <2>1, <2>2 DEF Owed
<1> HIDE DEF m
<1> QED BY <1>2, <1>4, <1>5, <1>7, <1>10, <1>11 DEF m

LEMMA ReceivesKeeps == ASSUME IInv, TimerInv, NEW s \in Server, Receives(s) \/ CannotTrace(s) PROVE TimerInv'
<1>1. WireShape /\ LogShape /\ TimedByItsRequest /\ \A t \in Server : Heard(t)
  BY DEF TimerInv
<1>2. reader[s] = "receive" /\ Takes(s)
  BY DEF Receives, CannotTrace
<1>3. PICK m \in Traceable :
          /\ m = Head(wire[s])
          /\ m.id \in Int \ {0} /\ m.type # "notification"
          /\ m.type = "request" => m.id = 1
          /\ Side("in", m) = (IF IsAnswer(m) THEN "out" ELSE "in")
          /\ ~logClosed /\ IsAnswer(m) =>
                 InStep(s, Side("in", m), m.id)
          /\ WireShape' /\ UNCHANGED <<session, lastId, asked, answered, main, current>>
          /\ \A t \in Server : \A i : Owed(t, i)' => Owed(t, i)
  BY <1>2, TakesMessage
<1>4. PICK side \in Direction : side = Side("in", m)
  BY <1>3 DEF Direction
<1>5. "in" \in Direction
  BY DEF Direction
<1>6. \/ /\ Traced(s, "in", m)
         /\ reader' = [reader EXCEPT ![s] = IF m.type = "request" THEN "reply" ELSE "receive"]
      \/ /\ Traced(s, "in", m) \/ Lost(s, "in", m)
         /\ reader' = [reader EXCEPT ![s] = "off"]
  <2>1. CASE Receives(s)
    BY <1>3, <2>1 DEF Receives, Record, Traced
  <2>2. CASE CannotTrace(s)
    <3>1. RecordFails(s, "in", m) /\ reader' = [reader EXCEPT ![s] = "off"]
      BY <1>3, <2>2 DEF CannotTrace, Ends
    <3> QED BY <3>1, FailsTracedOrLost
  <2> QED BY <2>1, <2>2
<1>7. /\ OthersKept(s, side, m.id)
      /\ Traced(s, "in", m) /\ ~logClosed => InStep(s, side, m.id)'
  BY <1>1, <1>3, <1>4, <1>5, <1>6, TracedOrLost
<1>8. \A t \in Server : t # s => reader'[t] = reader[t]
  BY <1>6 DEF IInv, Shape
<1>9. \/ reader'[s] = "off"
      \/ Traced(s, "in", m)
  BY <1>6 DEF IInv, Shape
<1>11. ASSUME NEW t \in Server PROVE NothingNew(t)
  <2>1. /\ Heard(t) /\ Heard(s) /\ lastId[t] <= lastId'[t]
        /\ UNCHANGED <<session, asked, answered>>
    BY <1>1, <1>3 DEF WireShape
  <2>2. \A i : Owed(t, i)' => Owed(t, i)
    BY <1>3
  <2> QED BY <1>2, <1>8, <2>1, <2>2 DEF NothingNew, Hears, Heard
<1>12. (~logClosed /\ m.id # 0 => InStep(s, side, m.id)') \/ ~Hears(s)'
  <2>1. session'[s] # "none"
    BY <1>1, <1>2, <1>3 DEF Heard
  <2> QED BY <1>7, <1>9, <2>1 DEF Hears
<1> QED BY <1>3, <1>7, <1>11, <1>12, OneRequestKeeps

(* The session answers a request of its server. *)
LEMMA RepliesKeeps == ASSUME IInv, TimerInv, NEW s \in Server, Replies(s) PROVE TimerInv'
<1>1. WireShape /\ LogShape /\ TimedByItsRequest /\ \A t \in Server : Heard(t) /\ Clocked(t)
  BY DEF TimerInv
<1>2. PICK m \in Traceable : m = Reply
  <2>1. Reply \in Traceable
    BY DEF Reply, Traceable, Types, Methods
  <2> QED BY <2>1
<1>3. /\ m.id = 1 /\ m.type = "error" /\ IsAnswer(m)
      /\ Side("out", m) = "in" /\ "in" \in Direction /\ "out" \in Direction
  BY <1>2 DEF Reply, Side, Opposite, IsAnswer, Direction
<1>4. /\ reader[s] = "reply"
      /\ UNCHANGED <<session, lastId, asked, answered, wire, main, current, purpose>>
      /\ \/ Traced(s, "out", m) /\ reader' = [reader EXCEPT ![s] = "send"]
         \/ /\ Traced(s, "out", m) \/ RecordFails(s, "out", m)
            /\ reader' = [reader EXCEPT ![s] = "off"]
  BY <1>2 DEF Replies, Ends, Record, Traced
<1>5. ~logClosed => InStep(s, "in", 1)
  BY <1>1, <1>4 DEF Heard, Clocked, Hears
<1>6. /\ OthersKept(s, "in", 1)
      /\ Traced(s, "out", m) /\ ~logClosed => InStep(s, "in", 1)'
  <2>1. Traced(s, "out", m) \/ Lost(s, "out", m)
    BY <1>4, FailsTracedOrLost
  <2> QED BY <1>1, <1>3, <1>5, <2>1, TracedOrLost
<1>7. WireShape'
  BY <1>1, <1>4 DEF WireShape
<1>8. /\ \A t \in Server : reader'[t] # reader[t] => t = s /\ reader'[t] \in {"send", "off"}
      /\ reader'[s] # "off" => Traced(s, "out", m)
  BY <1>4 DEF IInv, Shape
<1>9. \A t \in Server : NothingNew(t)
  <2> SUFFICES ASSUME NEW t \in Server PROVE NothingNew(t)
    OBVIOUS
  <2>1. /\ Heard(t) /\ lastId[t] \in Nat
        /\ reader'[t] # "off" => reader[t] # "off"
    BY <1>1, <1>4, <1>8 DEF WireShape
  <2> QED BY <1>4, <2>1 DEF NothingNew, Hears, Heard, Owed
<1>10. (~logClosed => InStep(s, "in", 1)') \/ ~Hears(s)'
  <2>1. session'[s] # "none"
    BY <1>1, <1>4 DEF Heard
  <2> QED BY <1>6, <1>8, <2>1 DEF Hears
<1> QED BY <1>3, <1>6, <1>7, <1>9, <1>10, OneRequestKeeps

LEMMA TimerStep == ASSUME IInv, TimerInv, [HostNext]_hostVars PROVE TimerInv'
<1>1. CASE UNCHANGED hostVars
  <2>1. Silent /\ WireShape'
    <3>1. WireShape /\ \A s \in Server : Heard(s)
      BY DEF TimerInv
    <3> QED BY <1>1, <3>1 DEF hostVars, WireShape, Silent, Heard, Hears, Owed
  <2> QED BY <2>1, SilentKeeps
<1>2. CASE UserStep \/ MainRuns
  BY <1>2, MainSilent, SilentKeeps, TraceKeeps, TraceFailsKeeps, NotifyKeeps DEF MainRuns, MainIsSilent
<1>3. CASE \E s \in Server : PeerStep(s)
  BY <1>3, PeerSilent, SilentKeeps
<1>4. CASE \E s \in Server : ReaderRuns(s)
  BY <1>4, ReceivesKeeps, RepliesKeeps, EndSilent, SilentKeeps DEF ReaderRuns
<1> QED BY <1>1, <1>2, <1>3, <1>4 DEF HostNext

(* Every answer in the log is timed against the last request of its id,    *)
(* and one that is a repeat, or answers nothing, against none, however     *)
(* many servers trace at once, whatever ids they use again and whichever   *)
(* writes fail.                                                            *)
THEOREM HostTimedByItsRequest == HostSpec => []TimedByItsRequest
<1>1. IInv /\ TimerInv /\ [HostNext]_hostVars => (IInv /\ TimerInv)'
  BY StepKeeps, TimerStep
<1>2. TimerInv => TimedByItsRequest
  BY DEF TimerInv
<1> QED BY InitIInv, InitTimers, <1>1, <1>2, PTL DEF HostSpec
=============================================================================
