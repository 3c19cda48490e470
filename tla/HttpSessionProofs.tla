--------------------------- MODULE HttpSessionProofs ---------------------------
(***************************************************************************)
(* What holds of the session over HTTP for any number of threads, requests *)
(* and retries: what MCPClientProofs shows of any session, whose steps its *)
(* callers and its reader take, and that it sticks to the session that the *)
(* server named.                                                           *)
(***************************************************************************)
EXTENDS HttpSession, MCPClientProofs

(* Each step of the composition is a step of the client or leaves it alone. *)
LEMMA HttpSessionStep ==
    ASSUME ClientTypeOK, [Next]_vars
    PROVE  [ClientNext]_clientVars
<1>1. ASSUME NEW c \in Callers, Begins(c) PROVE ClientNext
    BY <1>1 DEF Begins, Opens, ClientNext, CallerStep
<1>2. ASSUME NEW c \in Callers, CallerRuns(c) PROVE ClientNext \/ UNCHANGED clientVars
    BY <1>2 DEF CallerRuns, CallerAlone, Sending, Sent, NotSent, Closing, Closed,
                ClientNext, CallerStep
<1>3. CASE ReaderAlone \/ ReceivesNone \/ Replied \/ Sending(Reader)
    BY <1>3 DEF ReaderAlone, ReceivesNone, Replied, Sending, ClientNext, ReaderStep
<1>4. ASSUME NEW m, Handle(m) PROVE ClientNext
    <2>1. CASE m.kind \in AnswerKind /\ TakeAnswer(m.id, m.kind)
        <3>1. m.id \in Ids
            BY <2>1 DEF TakeAnswer, ClientTypeOK
        <3> QED
            BY <2>1, <3>1 DEF ClientNext, ReaderStep
    <2> QED
        BY <1>4, <2>1 DEF Handle, ClientNext, ReaderStep
<1>5. CASE (\E t \in Threads : Returned(t)) \/ LateArrival \/ UNCHANGED vars
    BY <1>5 DEF Returned, LateArrival, vars
<1> QED
    BY <1>1, <1>2, <1>3, <1>4, <1>5 DEF Next, ReaderRuns, Receives

(* Whatever the network and the server do, the callers and the reader      *)
(* thread go through the steps of MCPClient.                               *)
LEMMA HttpImplementsClient == Spec => ClientSpec
<1>1. Init => ClientInit
    BY DEF Init
<1>2. Init => ClientInv
    BY <1>1, ClientInvInit
<1>3. ClientInv /\ [Next]_vars => [ClientNext]_clientVars
    BY HttpSessionStep DEF ClientInv
<1>4. ClientInv /\ [Next]_vars => ClientInv'
    BY <1>3, ClientInvStep
<1>5. Init /\ [][Next]_vars => []ClientInv
    BY <1>2, <1>4, PTL
<1> QED
    BY <1>1, <1>3, <1>5, PTL DEF Spec, ClientSpec

(* And so no caller over HTTP is orphaned or settled twice, whatever it    *)
(* was told stands, and it is told of a lost connection only once it is.   *)
THEOREM HttpSessionSafety ==
    Spec => SettledOnce /\ [](OneSettler /\ NoOrphan /\ PendingIsLive /\ LostOnlyWhenOver)
BY HttpImplementsClient, ClientSafety, ClientSettledOnce, PTL

-----------------------------------------------------------------------------
(* A thread is inside the transport's send() or close() only where the     *)
(* client calls it.                                                        *)
InSend == H!SendPC \cup {"sent", "failed"}
InClose == H!ClosePC \cup {"shutdown"}

Link ==
    \A t \in Threads :
        /\ hpc[t] \in InSend => MustSend(t)
        /\ hpc[t] \in InClose => t # Reader /\ pc[t] = "teardown"

(* The connector is inside connect() until it returns, its reader started. *)
ConnectorBusy == connector # Nobody => pc[connector] # "idle" /\ reader # "off"

(* Nothing has come from the server but what the client ignores, so nobody *)
(* but the connector has anything to send, and that is the initialize.     *)
Requesting == {"check", "register", "send", "unsend", "wait", "expired"}
Closers == {"idle", "closing", "shut", "teardown", "grab", "failing"}

Silent ==
    /\ ~initialized
    /\ reader \notin {"resolve", "reply"}
    /\ \A i \in Ids : future[i] \notin AnswerKind
    /\ \A c \in Callers : pc[c] \in Closers \/ (c = connector /\ pc[c] \in Requesting)
    /\ \A k \in 1 .. Len(inbox) : inbox[k] # EOF => inbox[k].kind = "ignored"
    /\ \A t \in Threads : hpc[t] = "put" => response[t].body.kind = "ignored"

(* The client goes by the session it has been told of, and only an         *)
(* initialize on its way has opened one.                                   *)
Opening ==
    /\ sessionId = named
    /\ \A t \in Threads : opened[t] # 0 => hpc[t] = "flight" /\ IsInitialize(t)

(* The initialize has been answered, and is not sent again. *)
Known ==
    /\ reader # "off"
    /\ connector # Nobody =>
          /\ pc[connector] \notin {"check", "register"}
          /\ pc[connector] = "send" => hpc[connector] \in {"put", "sent", "failed"}

(* The body a thread is about to put on the inbox is a message. *)
PutsMessage == \A t \in Threads : hpc[t] = "put" => response[t].body \in Wire

TransportInv == H!HttpTransportTypeOK /\ PutsMessage

CarriesInv ==
    /\ ClientInv /\ TransportInv /\ Link /\ ConnectorBusy /\ Opening
    /\ CarriesSession /\ (Silent \/ Known) /\ bodies \in Nat

-----------------------------------------------------------------------------
(* The transport's variables keep their types. *)
LEMMA TransportInit == Init => TransportInv
<1> SUFFICES ASSUME Init PROVE TransportInv
    OBVIOUS
<1>1. H!HttpTransportInit /\ H!Accepted \in H!Response
    BY DEF Init, H!Accepted, H!Response
<1>2. 0 \in 0 .. Retries /\ 0 \in 0 .. 0 /\ <<>> \in Seq(Wire \cup {EOF})
    BY HttpSessionAssumption DEF H!HttpTransportAssumption
<1>3. H!HttpTransportTypeOK
    BY <1>1, <1>2 DEF H!HttpTransportInit, H!HttpTransportTypeOK
<1> QED
    BY <1>1, <1>3 DEF H!HttpTransportInit, PutsMessage, TransportInv

(* Where the client calls the transport, or the transport runs. *)
LEMMA CallKeepsType ==
    ASSUME TransportInv, NEW t \in Threads,
           \/ H!BeginSend(t) \/ H!SendLocal(t) \/ (\E b \in BOOLEAN : H!Post(t, b))
           \/ H!BeginShutdown(t) \/ H!CloseLocal(t) \/ (\E v \in H!Verdict : H!Finish(t, v))
    PROVE  TransportInv'
<1> USE DEF TransportInv, H!HttpTransportTypeOK, PutsMessage, H!HMoves, H!HGoto, H!learned, H!server, H!attempt,
            H!perThread, H!SendPC, H!ClosePC, H!Verdict
<1>1. CASE H!BeginSend(t) \/ H!BeginShutdown(t) \/ H!TestClosed(t)
    BY <1>1 DEF H!BeginSend, H!BeginShutdown, H!TestClosed
<1>2. CASE H!Acquire(t)
    BY <1>2 DEF H!Acquire
<1>3. CASE H!PostRefused(t)
    BY <1>3, HttpSessionAssumption DEF H!PostRefused, H!Releases, H!HttpTransportAssumption
<1>4. CASE H!Put(t)
    <2>1. response[t].body \in Wire
        BY <1>4 DEF H!Put
    <2>2. inbox' \in Seq(Wire \cup {EOF})
        BY <1>4, <2>1 DEF H!Put
    <2> QED
        BY <1>4, <2>2 DEF H!Put
<1>5. ASSUME NEW b \in BOOLEAN, H!Post(t, b) PROVE TransportInv'
    <2>1. /\ issued' \in Nat /\ issued <= issued'
          /\ \/ UNCHANGED <<issued, opened>>
             \/ issued' = issued + 1 /\ opened' = [opened EXCEPT ![t] = issued + 1]
        BY <1>5 DEF H!Post
    <2>3. opened' \in [Threads -> 0 .. issued']
        BY <2>1
    <2>2. /\ sessionId' \in 0 .. issued' /\ named' \in 0 .. issued'
          /\ carries' \in [Threads -> 0 .. issued']
        BY <1>5, <2>1 DEF H!Post
    <2> QED
        BY <1>5, <2>1, <2>2, <2>3 DEF H!Post
<1>6. CASE H!SetClosed(t) \/ H!CloseClient(t)
    BY <1>6 DEF H!SetClosed, H!CloseClient
<1>7. CASE H!PutEof(t)
    <2>1. inbox' \in Seq(Wire \cup {EOF})
        BY <1>7 DEF H!PutEof
    <2> QED
        BY <1>7, <2>1 DEF H!PutEof
<1>8. ASSUME NEW v \in H!Verdict, H!Finish(t, v) PROVE TransportInv'
    <2>1. H!Accepted \in H!Response
        BY DEF H!Accepted, H!Response
    <2> QED
        BY <1>8, <2>1 DEF H!Finish
<1> QED
    BY <1>1, <1>2, <1>3, <1>4, <1>5, <1>6, <1>7, <1>8 DEF H!SendLocal, H!CloseLocal

(* What the network makes of an attempt is a Response. *)
LEMMA AnswerKeepsType ==
    ASSUME TransportInv, NEW t \in Threads, NEW b \in BOOLEAN, NEW r \in H!Response,
           NEW n \in 0 .. issued, H!Answer(t, b, r, n)
    PROVE  TransportInv'
<1> USE DEF TransportInv, H!HttpTransportTypeOK, PutsMessage, H!learned, H!server, H!attempt,
            H!SendPC, H!ClosePC, H!Verdict
<1>1. 0 \in 0 .. Retries /\ 0 \in 0 .. issued
    BY HttpSessionAssumption DEF H!HttpTransportAssumption
<1>2. /\ reached' \in [Threads -> BOOLEAN] /\ carries' \in [Threads -> 0 .. issued]
      /\ opened' \in [Threads -> 0 .. issued]
      /\ response' \in [Threads -> H!Response] /\ response'[t] = r
      /\ \A u \in Threads \ {t} : response'[u] = response[u]
      /\ UNCHANGED <<client, inbox, hclosed, issued, adrift>>
    BY <1>1 DEF H!Answer, H!Landed
<1>3. PICK to \in {"failed", "sent", "put"} :
          /\ H!Releases(t, to)
          /\ to = "put" => r.body # NoBody /\ r.body # Garbage
    BY DEF H!Answer
<1>4. sendLock' = Nobody /\ tries' \in [Threads -> 0 .. Retries]
    BY <1>1, <1>3 DEF H!Releases
<1>5. /\ hpc' \in [Threads -> {"idle"} \cup H!SendPC \cup H!ClosePC \cup H!Verdict]
      /\ hpc'[t] = to /\ \A u \in Threads \ {t} : hpc'[u] = hpc[u]
    BY <1>3 DEF H!Releases
<1>6. sessionId' \in 0 .. issued /\ named' \in 0 .. issued
    BY DEF H!Answer, H!Remember
<1>7. r.body \in Wire \cup {NoBody, Garbage}
    BY DEF H!Response
<1>8. PutsMessage'
    BY <1>2, <1>3, <1>5, <1>7
<1> QED
    BY <1>2, <1>4, <1>5, <1>6, <1>8

LEMMA WireBody ==
    ASSUME ClientTypeOK, NEW t \in Threads, NEW k \in Kinds, k \in AnswerKind => IsRequest(t)
    PROVE  [kind |-> k, id |-> IF k \in AnswerKind THEN call[t] ELSE 0] \in Wire
<1>1. k \in AnswerKind => call[t] \in Nat
    BY DEF IsRequest, ClientTypeOK, Threads
<1> QED
    BY <1>1 DEF Wire

LEMMA ReturnKeepsType ==
    ASSUME ClientTypeOK, TransportInv, NEW t \in Threads, Returned(t)
    PROVE  TransportInv'
<1>1. CASE H!Lost(t, IsInitialize(t))
    <2> USE DEF TransportInv, H!HttpTransportTypeOK, H!SendPC, H!ClosePC, H!Verdict
    <2>1. Retries \in Nat /\ 0 \in 0 .. issued
        BY HttpSessionAssumption DEF H!HttpTransportAssumption
    <2>2. /\ reached' \in [Threads -> BOOLEAN] /\ carries' \in [Threads -> 0 .. issued]
          /\ opened' \in [Threads -> 0 .. issued] /\ adrift' \in Nat
          /\ UNCHANGED <<response, client, inbox, hclosed, sessionId, issued, named>>
        BY <1>1, <2>1 DEF H!Lost, H!Landed, H!learned, H!server, H!attempt
    <2>3. CASE tries[t] < Retries
        <3>1. hpc' = [hpc EXCEPT ![t] = "post"] /\ sendLock' = sendLock
            BY <1>1, <2>3 DEF H!Lost
        <3>2. tries[t] + 1 \in 0 .. Retries /\ tries' = [tries EXCEPT ![t] = tries[t] + 1]
            BY <1>1, <2>1, <2>3 DEF H!Lost
        <3>3. tries' \in [Threads -> 0 .. Retries]
            BY <3>2
        <3> QED
            BY <2>2, <3>1, <3>3 DEF PutsMessage
    <2>4. CASE ~(tries[t] < Retries)
        <3>1. hpc' = [hpc EXCEPT ![t] = "failed"] /\ sendLock' = Nobody
              /\ tries' = [tries EXCEPT ![t] = 0]
            BY <1>1, <2>4 DEF H!Lost, H!Releases
        <3>2. tries' \in [Threads -> 0 .. Retries]
            BY <2>1, <3>1
        <3> QED
            BY <2>2, <3>1, <3>2 DEF PutsMessage
    <2> QED
        BY <2>3, <2>4
<1>2. IsInitialize(t) \in BOOLEAN
    BY DEF IsInitialize, IsRequest
<1>3. ASSUME NEW r \in {[status |-> x, body |-> NoBody] : x \in {"success", "error"}}
                       \cup {[status |-> "error", body |-> Garbage]}
      PROVE  r \in H!Response
    BY DEF H!Response
<1>4. ASSUME NEW k \in Kinds, k \in AnswerKind => IsRequest(t)
      PROVE  [status |-> "success",
              body |-> [kind |-> k, id |-> IF k \in AnswerKind THEN call[t] ELSE 0]]
                 \in H!Response
    BY <1>4, WireBody DEF H!Response
<1>5. ASSUME NEW k \in Kinds
      PROVE  0 \in 0 .. issued /\ (IF k = "ignored" THEN 0 ELSE opened[t]) \in 0 .. issued
    BY DEF TransportInv, H!HttpTransportTypeOK
<1>6. ASSUME NEW k \in Kinds, k \in AnswerKind => IsRequest(t),
             H!Answer(t, IsInitialize(t),
                      [status |-> "success",
                       body |-> [kind |-> k, id |-> IF k \in AnswerKind THEN call[t] ELSE 0]],
                      IF k = "ignored" THEN 0 ELSE opened[t])
      PROVE  TransportInv'
    BY <1>2, <1>4, <1>5, <1>6, AnswerKeepsType
<1>7. ASSUME NEW r \in {[status |-> x, body |-> NoBody] : x \in {"success", "error"}}
                       \cup {[status |-> "error", body |-> Garbage]},
             H!Answer(t, IsInitialize(t), r, 0)
      PROVE  TransportInv'
    <2>1. 0 \in 0 .. issued
        BY DEF TransportInv, H!HttpTransportTypeOK
    <2> QED
        BY <1>2, <1>3, <1>7, <2>1, AnswerKeepsType
<1> QED
    BY <1>1, <1>6, <1>7 DEF Returned

LEMMA ReceiveKeepsType ==
    ASSUME TransportInv, (\E m : H!Receive(m)) \/ H!ReceiveNone
    PROVE  TransportInv'
<1>1. inbox # <<>> /\ inbox \in Seq(Wire \cup {EOF})
    BY DEF H!Receive, H!ReceiveNone, TransportInv, H!HttpTransportTypeOK
<1>2. Tail(inbox) \in Seq(Wire \cup {EOF}) /\ Append(Tail(inbox), EOF) \in Seq(Wire \cup {EOF})
    BY <1>1
<1> QED
    BY <1>2 DEF H!Receive, H!ReceiveNone, TransportInv, H!HttpTransportTypeOK, PutsMessage,
                H!perThread, H!learned, H!server, H!attempt

LEMMA TransportStep ==
    ASSUME ClientTypeOK, TransportInv, [Next]_vars
    PROVE  TransportInv'
<1> USE DEF H!Verdict
<1>1. CASE UNCHANGED httpVars
    BY <1>1 DEF httpVars, TransportInv, H!HttpTransportTypeOK, PutsMessage
<1>2. CASE H!Start
    BY <1>2 DEF H!Start, TransportInv, H!HttpTransportTypeOK, PutsMessage, H!perThread, H!learned, H!server, H!attempt
<1>3. ASSUME NEW c \in Callers, Begins(c) PROVE TransportInv'
    BY <1>1, <1>2, <1>3 DEF Begins, Opens
<1>4. ASSUME NEW t \in Threads, Sending(t) PROVE TransportInv'
    <2>1. IsInitialize(t) \in BOOLEAN
        BY DEF IsInitialize, IsRequest
    <2> QED
        BY <1>4, <2>1, CallKeepsType DEF Sending
<1>5. ASSUME NEW c \in Callers, CallerRuns(c) PROVE TransportInv'
    <2>1. c \in Threads
        BY DEF Threads
    <2>2. CASE CallerAlone(c) \/ Sending(c)
        BY <1>1, <1>4, <2>1, <2>2 DEF CallerAlone
    <2>3. CASE Sent(c) \/ NotSent(c) \/ Closing(c) \/ Closed(c)
        BY <2>1, <2>3, CallKeepsType DEF Sent, NotSent, Closing, Closed
    <2> QED
        BY <1>5, <2>2, <2>3 DEF CallerRuns
<1>6. CASE ReaderRuns
    <2>1. Reader \in Threads
        BY DEF Threads
    <2>2. CASE ReaderAlone \/ Sending(Reader)
        BY <1>1, <1>4, <2>1, <2>2 DEF ReaderAlone
    <2>3. CASE Replied
        BY <2>1, <2>3, CallKeepsType DEF Replied
    <2>4. CASE Receives \/ ReceivesNone
        BY <2>4, ReceiveKeepsType DEF Receives, ReceivesNone
    <2> QED
        BY <1>6, <2>2, <2>3, <2>4 DEF ReaderRuns
<1>7. CASE LateArrival
    <2>1. issued' \in Nat /\ adrift' \in Nat /\ issued <= issued'
        BY <1>7 DEF LateArrival, H!Arrives, TransportInv, H!HttpTransportTypeOK
    <2> QED
        BY <1>7, <2>1 DEF LateArrival, H!Arrives, TransportInv, H!HttpTransportTypeOK,
            PutsMessage, H!perThread, H!attempt
<1> QED
    BY <1>1, <1>3, <1>5, <1>6, <1>7, ReturnKeepsType DEF Next, vars

-----------------------------------------------------------------------------
(* Inside send() or close() only where the client calls it; the connector  *)
(* is busy.                                                                *)
LEMMA LinkStep ==
    ASSUME ClientTypeOK, TransportInv, Link, [Next]_vars
    PROVE  Link'
<1> USE DEF Goto, H!HGoto, H!HMoves
<1>1. /\ Reader \notin Callers /\ pc \in [Callers -> CallerPC]
      /\ hpc \in [Threads -> {"idle"} \cup H!SendPC \cup H!ClosePC \cup H!Verdict]
    BY ClientAssumption DEF ClientTypeOK, TransportInv, H!HttpTransportTypeOK
(* The client leaves the transport alone: where it stands, it calls neither. *)
<1>2. ASSUME NEW c \in Callers, pc[c] \notin {"send", "notify", "teardown"},
             UNCHANGED <<hpc, reader>>, \A d \in Callers \ {c} : pc'[d] = pc[d]
      PROVE  Link'
    BY <1>1, <1>2 DEF Link, MustSend, Threads
<1>3. ASSUME reader # "reply", UNCHANGED <<hpc, pc>> PROVE Link'
    BY <1>1, <1>3 DEF Link, MustSend
(* The thread gets on in the transport. *)
<1>4. ASSUME NEW t \in Threads, UNCHANGED <<pc, reader>>,
             \A u \in Threads \ {t} : hpc'[u] = hpc[u],
             hpc'[t] \in InSend => MustSend(t) \/ hpc[t] \in InSend,
             hpc'[t] \in InClose => hpc[t] \in InClose \/ (t # Reader /\ pc[t] = "teardown")
      PROVE  Link'
    BY <1>4 DEF Link, MustSend
(* It leaves the transport. *)
<1>5. ASSUME NEW c \in Callers, hpc'[c] = "idle", UNCHANGED reader,
             \A u \in Threads \ {c} : hpc'[u] = hpc[u],
             \A d \in Callers \ {c} : pc'[d] = pc[d]
      PROVE  Link'
    BY <1>1, <1>5 DEF Link, MustSend, Threads, InSend, InClose, H!SendPC, H!ClosePC
<1>6. ASSUME hpc'[Reader] = "idle", UNCHANGED pc,
             \A u \in Threads \ {Reader} : hpc'[u] = hpc[u]
      PROVE  Link'
    BY <1>6 DEF Link, MustSend, InSend, InClose, H!SendPC, H!ClosePC
<1> USE DEF InSend, InClose, H!SendPC, H!ClosePC
<1>7. ASSUME NEW c \in Callers, Begins(c) PROVE Link'
    <2>1. CASE CallTool(c) \/ BeginClose(c)
        BY <1>1, <1>2, <1>7, <2>1 DEF CallTool, BeginClose, OnlyMoves, Begins, Opens, httpVars, H!Start, H!perThread, H!attempt
    <2>2. CASE Opens(c)
        BY <1>1, <2>2 DEF Opens, Connect, H!Start, H!perThread, Link, MustSend, Threads
    <2> QED
        BY <1>7, <2>1, <2>2 DEF Begins
<1>8. ASSUME NEW t \in Threads, Sending(t) PROVE Link'
    BY <1>1, <1>4, <1>8 DEF Sending, clientVars, H!BeginSend, H!SendLocal, H!Acquire,
        H!PostRefused, H!Releases, H!Put, H!Post
<1>9. ASSUME NEW t \in Threads, Returned(t) PROVE Link'
    BY <1>1, <1>4, <1>9 DEF Returned, clientVars, H!Lost, H!Answer, H!Releases
<1>10. ASSUME NEW c \in Callers, CallerRuns(c) PROVE Link'
    <2>1. c \in Threads /\ c # Reader
        BY <1>1 DEF Threads
    <2>2. CASE CallerAlone(c)
        BY <1>1, <1>2, <2>2
        DEF CallerAlone, httpVars, CallerLocal, RefuseClosed, PassClosed, Register, Unsend,
            Forget, Answered, HandshakeAnswered, Expire, TimedOut, VersionOk, VersionBad, NoVersion,
            Ready, AlreadyClosed, NotYetClosed, Shut, CloserTakes, CloserTests, CloserFails,
            CloserDone, TestNext, Settle, OnlyMoves, OnlyReturns, Return
    <2>3. CASE Sent(c) \/ NotSent(c) \/ Closed(c)
        BY <1>1, <1>5, <2>1, <2>3
        DEF Sent, NotSent, Closed, SendOk, SendFails, NotifyOk, NotifyFails, Teardown,
            OnlyMoves, OnlyReturns, Return, H!Finish
    <2>4. CASE Closing(c)
        BY <1>1, <1>4, <2>1, <2>4 DEF Closing, clientVars, H!BeginShutdown, H!CloseLocal,
            H!TestClosed, H!SetClosed, H!CloseClient, H!PutEof
    <2> QED
        BY <1>8, <1>10, <2>1, <2>2, <2>3, <2>4 DEF CallerRuns
<1>11. CASE ReaderRuns
    <2>1. Reader \in Threads
        BY DEF Threads
    <2>2. CASE ReaderAlone
        BY <1>3, <2>2 DEF ReaderAlone, httpVars, ReaderLocal, ReaderTests, Resolve, ReaderTakes,
            ReaderFails, ReaderDone, ReaderMoves, TestNext, Settle
    <2>3. CASE Receives \/ ReceivesNone
        <3>1. UNCHANGED <<hpc, pc>> /\ reader = "receive"
            BY <2>3 DEF Receives, ReceivesNone, H!Receive, H!ReceiveNone, H!perThread, Handle,
                TakeAnswer, Drop, clientVars, TakeRequest, EndOfStream, ReaderMoves
        <3> QED
            BY <1>3, <3>1
    <2>4. CASE Replied
        BY <1>1, <1>6, <2>1, <2>4 DEF Replied, ReplyOk, ReplyFails, ReaderMoves, H!Finish
    <2> QED
        BY <1>8, <1>11, <2>1, <2>2, <2>3, <2>4 DEF ReaderRuns
<1>12. CASE LateArrival \/ UNCHANGED vars
    BY <1>12 DEF LateArrival, H!Arrives, H!perThread, vars, clientVars, httpVars, Link, MustSend
<1> QED
    BY <1>7, <1>9, <1>10, <1>11, <1>12 DEF Next

LEMMA ConnectorStep ==
    ASSUME ClientTypeOK, ConnectorBusy, [Next]_vars
    PROVE  ConnectorBusy'
<1> USE DEF Goto
<1>1. [ClientNext]_clientVars
    BY HttpSessionStep
<1>2. pc \in [Callers -> CallerPC] /\ connector \in Callers \cup {Nobody} /\ Nobody \notin Callers
    BY ClientAssumption DEF ClientTypeOK
<1>3. ASSUME UNCHANGED <<pc, connector>>, reader # "off" => reader' # "off" PROVE ConnectorBusy'
    BY <1>3 DEF ConnectorBusy
<1>4. CASE ReaderStep
    BY <1>3, <1>4 DEF ReaderStep, ReaderLocal, ReaderTests, Resolve, ReaderTakes, ReaderFails,
        ReaderDone, TakeAnswer, Drop, TakeRequest, ReplyOk, ReplyFails, EndOfStream, ReaderMoves,
        TestNext, Settle, clientVars
<1>5. CASE UNCHANGED clientVars
    BY <1>3, <1>5 DEF clientVars
<1>6. ASSUME NEW c \in Callers, CallerStep(c) PROVE ConnectorBusy'
    <2>1. CASE Connect(c)
        BY <1>2, <2>1 DEF Connect, ConnectorBusy
    <2>2. ASSUME NEW to \in CallerPC \ {"idle"}, pc' = [pc EXCEPT ![c] = to],
                 UNCHANGED <<connector, reader>>
          PROVE  ConnectorBusy'
        BY <1>2, <2>2 DEF ConnectorBusy
    <2>3. ASSUME Return(c), UNCHANGED reader PROVE ConnectorBusy'
        BY <1>2, <2>3 DEF ConnectorBusy, Return
    <2>4. ASSUME UNCHANGED <<pc, connector, reader>> PROVE ConnectorBusy'
        BY <2>4 DEF ConnectorBusy
    <2>5. CASE CallTool(c) \/ BeginClose(c) \/ SendOk(c) \/ SendFails(c) \/ NotifyOk(c) \/ Teardown(c)
        BY <2>2, <2>5 DEF CallTool, BeginClose, SendOk, SendFails, NotifyOk, Teardown, OnlyMoves, CallerPC
    <2>6. CASE NotifyFails(c)
        BY <2>3, <2>6 DEF NotifyFails, OnlyReturns
    <2>7. CASE \/ PassClosed(c) \/ Register(c) \/ HandshakeAnswered(c) \/ Expire(c) \/ VersionOk(c)
               \/ VersionBad(c) \/ NotYetClosed(c) \/ Shut(c) \/ CloserTakes(c)
        BY <2>2, <2>7 DEF PassClosed, Register, HandshakeAnswered, Expire, VersionOk, VersionBad,
            NotYetClosed, Shut, CloserTakes, OnlyMoves, CallerPC
    <2>8. CASE \/ RefuseClosed(c) \/ Unsend(c) \/ Answered(c) \/ TimedOut(c) \/ Ready(c)
               \/ AlreadyClosed(c) \/ CloserDone(c) \/ NoVersion(c)
        BY <2>3, <2>8 DEF RefuseClosed, Unsend, Answered, TimedOut, Ready, AlreadyClosed, CloserDone,
            NoVersion, Forget, OnlyReturns
    <2>9. CASE CloserTests(c) \/ CloserFails(c)
        BY <2>4, <2>9 DEF CloserTests, CloserFails, TestNext, Settle
    <2> QED
        BY <1>6, <2>1, <2>5, <2>6, <2>7, <2>8, <2>9 DEF CallerStep, CallerLocal
<1> QED
    BY <1>1, <1>4, <1>5, <1>6 DEF ClientNext

-----------------------------------------------------------------------------
(* Only an initialize on its way has opened a session, and the client goes *)
(* by the one it was told of.                                              *)
LEMMA OpeningStep ==
    ASSUME ClientTypeOK, TransportInv, Link, ConnectorBusy, Opening, [Next]_vars
    PROVE  Opening'
<1> USE DEF Goto, H!HGoto, H!HMoves, H!learned, H!server, H!attempt, H!perThread
<1>1. /\ Reader \notin Callers /\ Nobody \notin Callers /\ pc \in [Callers -> CallerPC]
      /\ connector \in Callers \cup {Nobody}
      /\ hpc \in [Threads -> {"idle"} \cup H!SendPC \cup H!ClosePC \cup H!Verdict]
      /\ opened \in [Threads -> 0 .. issued]
    BY ClientAssumption DEF ClientTypeOK, TransportInv, H!HttpTransportTypeOK
<1>2. sessionId = named
      /\ \A t \in Threads : opened[t] # 0 => hpc[t] = "flight" /\ IsInitialize(t)
    BY DEF Opening
(* Nothing in flight moves, nor do those that sent it. *)
<1>3. ASSUME UNCHANGED <<sessionId, named, opened>>,
             \A t \in Threads : hpc[t] = "flight" => hpc'[t] = "flight",
             \A c \in Callers : pc[c] = "send" /\ c = connector /\ hpc[c] = "flight"
                                 => pc'[c] = "send" /\ c = connector'
      PROVE  Opening'
    BY <1>2, <1>3 DEF Opening, IsInitialize, IsRequest, Threads
<1>4. ASSUME NEW c \in Callers, Begins(c) PROVE Opening'
    <2>1. CASE CallTool(c) \/ BeginClose(c)
        BY <1>1, <1>3, <1>4, <2>1 DEF Begins, Opens, H!Start, CallTool, BeginClose, OnlyMoves, httpVars
    <2>2. CASE Opens(c)
        <3>1. connector = Nobody /\ UNCHANGED <<sessionId, named, opened, hpc>>
            BY <1>1, <2>2 DEF Opens, Connect, ConnectorBusy, H!Start
        <3> QED
            BY <1>1, <1>3, <3>1
    <2> QED
        BY <1>4, <2>1, <2>2 DEF Begins
<1>5. ASSUME NEW t \in Threads, Sending(t) PROVE Opening'
    <2>1. UNCHANGED <<pc, connector, sessionId, named>>
        BY <1>5 DEF Sending, clientVars, H!BeginSend, H!SendLocal, H!Acquire, H!PostRefused, H!Put,
            H!Post
    <2>2. CASE H!BeginSend(t) \/ H!SendLocal(t)
        <3>1. UNCHANGED opened /\ \A u \in Threads : hpc[u] = "flight" => hpc'[u] = "flight"
            BY <1>1, <2>2 DEF H!BeginSend, H!SendLocal, H!Acquire, H!PostRefused, H!Releases, H!Put
        <3> QED
            BY <1>3, <2>1, <3>1
    <2>3. CASE H!Post(t, IsInitialize(t))
        <3>1. /\ hpc' = [hpc EXCEPT ![t] = "flight"]
              /\ \A u \in Threads : opened'[u] # 0 => opened[u] # 0 \/ (u = t /\ IsInitialize(t))
            BY <1>1, <2>3 DEF H!Post
        <3> QED
            BY <1>1, <1>2, <2>1, <3>1 DEF Opening, IsInitialize, IsRequest
    <2> QED
        BY <1>5, <2>2, <2>3 DEF Sending
<1>6. ASSUME NEW t \in Threads, Returned(t) PROVE Opening'
    <2>1. UNCHANGED <<pc, connector>>
        BY <1>6 DEF Returned, clientVars
    <2>2. hpc[t] = "flight" /\ opened' = [opened EXCEPT ![t] = 0]
          /\ \A u \in Threads \ {t} : hpc'[u] = hpc[u]
        BY <1>1, <1>6 DEF Returned, H!Lost, H!Answer, H!Landed, H!Releases
    <2>3. ASSUME NEW r, NEW n, n \in {0, opened[t]}, H!Answer(t, IsInitialize(t), r, n)
          PROVE  sessionId' = named'
        BY <1>2, <2>3 DEF H!Answer, H!Remember
    <2>4. sessionId' = named'
        BY <1>2, <1>6, <2>3 DEF Returned, H!Lost
    <2> QED
        BY <1>1, <1>2, <2>1, <2>2, <2>4 DEF Opening, IsInitialize, IsRequest
<1>7. ASSUME NEW c \in Callers, CallerRuns(c) PROVE Opening'
    <2>1. c \in Threads /\ c # Reader
        BY <1>1 DEF Threads
    <2>2. CASE CallerAlone(c)
        <3>1. /\ UNCHANGED <<hpc, sessionId, named, opened>>
              /\ \A d \in Callers \ {c} : pc'[d] = pc[d] /\ (d = connector => d = connector')
              /\ pc[c] # "send"
            BY <1>1, <2>2
            DEF CallerAlone, httpVars, CallerLocal, RefuseClosed, PassClosed, Register, Unsend,
                Forget, Answered, HandshakeAnswered, Expire, TimedOut, VersionOk, VersionBad,
                NoVersion, Ready, AlreadyClosed, NotYetClosed, Shut, CloserTakes, CloserTests,
                CloserFails, CloserDone, TestNext, Settle, OnlyMoves, OnlyReturns, Return
        <3> QED
            BY <1>3, <3>1
    <2>3. CASE Sent(c) \/ NotSent(c) \/ Closed(c)
        <3>1. /\ UNCHANGED <<sessionId, named, opened>> /\ hpc[c] # "flight"
              /\ \A u \in Threads \ {c} : hpc'[u] = hpc[u]
            BY <1>1, <2>1, <2>3 DEF Sent, NotSent, Closed, H!Finish
        <3>2. \A d \in Callers \ {c} : pc'[d] = pc[d] /\ (d = connector => d = connector')
            BY <1>1, <2>3
            DEF Sent, NotSent, Closed, SendOk, SendFails, NotifyOk, NotifyFails, Teardown,
                OnlyMoves, OnlyReturns, Return
        <3> QED
            BY <1>3, <3>1, <3>2
    <2>4. CASE Closing(c)
        <3>1. /\ UNCHANGED <<sessionId, named, opened, pc, connector>>
              /\ \A u \in Threads : hpc[u] = "flight" => hpc'[u] = "flight"
            BY <1>1, <2>1, <2>4 DEF Closing, clientVars, H!BeginShutdown, H!CloseLocal,
                H!TestClosed, H!SetClosed, H!CloseClient, H!PutEof
        <3> QED
            BY <1>3, <3>1
    <2> QED
        BY <1>5, <1>7, <2>1, <2>2, <2>3, <2>4 DEF CallerRuns
<1>8. CASE ReaderRuns
    <2>1. Reader \in Threads
        BY DEF Threads
    <2>2. CASE ReaderAlone
        BY <1>3, <2>2 DEF ReaderAlone, httpVars, ReaderLocal, ReaderTests, Resolve, ReaderTakes,
            ReaderFails, ReaderDone, ReaderMoves, TestNext, Settle
    <2>3. CASE Receives \/ ReceivesNone
        BY <1>3, <2>3 DEF Receives, ReceivesNone, H!Receive, H!ReceiveNone, Handle,
            TakeAnswer, Drop, clientVars, TakeRequest, EndOfStream, ReaderMoves
    <2>4. CASE Replied
        <3>1. /\ UNCHANGED <<sessionId, named, opened, pc, connector>>
              /\ \A u \in Threads : hpc[u] = "flight" => hpc'[u] = "flight"
            BY <1>1, <2>1, <2>4 DEF Replied, ReplyOk, ReplyFails, ReaderMoves, H!Finish
        <3> QED
            BY <1>3, <3>1
    <2> QED
        BY <1>5, <1>8, <2>1, <2>2, <2>3, <2>4 DEF ReaderRuns
<1>9. CASE LateArrival \/ UNCHANGED vars
    BY <1>3, <1>9 DEF LateArrival, H!Arrives, vars, clientVars, httpVars
<1> QED
    BY <1>4, <1>6, <1>7, <1>8, <1>9 DEF Next

-----------------------------------------------------------------------------
(* Once the session is known, what is sent carries it. *)
LEMMA KnownStep ==
    ASSUME ClientTypeOK, TransportInv, ConnectorBusy, Opening, CarriesSession, Known, [Next]_vars
    PROVE  Known' /\ CarriesSession'
<1> USE DEF Goto, H!HGoto, H!HMoves, H!learned, H!server, H!attempt, H!perThread, H!attempt
<1>1. /\ Reader \notin Callers /\ Nobody \notin Callers /\ pc \in [Callers -> CallerPC]
      /\ connector \in Callers \cup {Nobody}
      /\ hpc \in [Threads -> {"idle"} \cup H!SendPC \cup H!ClosePC \cup H!Verdict]
      /\ carries \in [Threads -> 0 .. issued]
    BY ClientAssumption DEF ClientTypeOK, TransportInv, H!HttpTransportTypeOK
<1>2. ASSUME NEW t \in Threads, hpc[t] \in {"post", "flight"} PROVE ~IsInitialize(t)
    BY <1>1, <1>2 DEF Known, IsInitialize, IsRequest, Threads
<1>3. \A t \in Threads : hpc[t] = "flight" => carries[t] = named
    BY <1>2 DEF CarriesSession
(* The session stands, and no new attempt is on its way. *)
<1>4. ASSUME UNCHANGED <<sessionId, named>>,
             \A t \in Threads : hpc'[t] = "flight" =>
                 \/ hpc[t] = "flight" /\ carries'[t] = carries[t]
                 \/ carries'[t] = named
      PROVE  CarriesSession'
    BY <1>3, <1>4 DEF CarriesSession
(* The connector stays past its initialize. *)
<1>5. ASSUME UNCHANGED <<sessionId, named>>, reader' # "off",
             UNCHANGED <<pc, connector>>,
             \A t \in Threads : hpc[t] \in {"put", "sent", "failed"} /\ hpc'[t] # hpc[t]
                 => hpc'[t] \in {"put", "sent", "failed"}
      PROVE  Known'
    BY <1>1, <1>5 DEF Known, Threads
<1>6. ASSUME NEW c \in Callers, UNCHANGED <<sessionId, named, reader>>,
             \A d \in Threads \ {c} : hpc'[d] = hpc[d],
             \A d \in Callers \ {c} : pc'[d] = pc[d],
             connector' \in {connector, Nobody},
             c = connector' => pc'[c] \notin {"check", "register", "send"}
      PROVE  Known'
    BY <1>1, <1>6 DEF Known, Threads
<1>7. ASSUME NEW c \in Callers, Begins(c) PROVE Known' /\ CarriesSession'
    <2>1. CASE (CallTool(c) \/ BeginClose(c)) /\ UNCHANGED httpVars
        <3>1. pc[c] = "idle" /\ UNCHANGED <<connector, reader>> /\ c # connector
              /\ \A d \in Callers \ {c} : pc'[d] = pc[d]
            BY <1>1, <2>1 DEF CallTool, BeginClose, OnlyMoves, ConnectorBusy
        <3>2. UNCHANGED <<hpc, carries, sessionId, named>>
            BY <2>1 DEF httpVars
        <3> QED
            BY <1>4, <1>6, <3>1, <3>2
    <2> QED
        BY <1>7, <2>1 DEF Begins, Opens, Connect, Known
<1>8. ASSUME NEW t \in Threads, Sending(t) PROVE Known' /\ CarriesSession'
    <2>1. UNCHANGED <<pc, connector, reader>>
        BY <1>8 DEF Sending, clientVars
    <2>2. CASE H!BeginSend(t) \/ H!SendLocal(t)
        <3>1. UNCHANGED <<carries, sessionId, named>>
              /\ \A u \in Threads \ {t} : hpc'[u] = hpc[u]
            BY <1>1, <2>2 DEF H!BeginSend, H!SendLocal, H!Acquire, H!PostRefused, H!Releases, H!Put
        <3>2. hpc'[t] # "flight" /\ (hpc[t] \in {"put", "sent", "failed"} => hpc'[t] \in {"put", "sent", "failed"})
            BY <1>1, <2>2 DEF H!BeginSend, H!SendLocal, H!Acquire, H!PostRefused, H!Releases, H!Put
        <3> QED
            BY <1>4, <1>5, <2>1, <3>1, <3>2 DEF Known
    <2>3. CASE H!Post(t, IsInitialize(t))
        <3>1. hpc[t] = "post" /\ ~IsInitialize(t)
            BY <1>2, <2>3 DEF H!Post
        <3>2. UNCHANGED <<sessionId, named>> /\ carries' = [carries EXCEPT ![t] = sessionId]
              /\ hpc' = [hpc EXCEPT ![t] = "flight"]
            BY <2>3, <3>1 DEF H!Post
        <3> QED
            BY <1>1, <1>4, <1>5, <2>1, <3>1, <3>2 DEF Known, Opening
    <2> QED
        BY <1>8, <2>2, <2>3 DEF Sending
<1>9. ASSUME NEW t \in Threads, Returned(t) PROVE Known' /\ CarriesSession'
    <2>1. UNCHANGED <<pc, connector, reader>>
        BY <1>9 DEF Returned, clientVars
    <2>2. hpc[t] = "flight" /\ hpc'[t] # "flight"
          /\ \A u \in Threads \ {t} : hpc'[u] = hpc[u] /\ carries'[u] = carries[u]
        BY <1>1, <1>9 DEF Returned, H!Lost, H!Answer, H!Landed, H!Releases
    <2>3. UNCHANGED <<sessionId, named>>
        <3>1. opened[t] = 0
            BY <1>2, <2>2 DEF Opening
        <3> QED
            BY <1>9, <3>1 DEF Returned, H!Lost, H!Answer, H!Remember
    <2> QED
        BY <1>4, <1>5, <2>1, <2>2, <2>3 DEF Known
<1>10. ASSUME NEW c \in Callers, CallerRuns(c) PROVE Known' /\ CarriesSession'
    <2>1. c \in Threads /\ c # Reader
        BY <1>1 DEF Threads
    <2>2. CASE CallerAlone(c)
        <3>1. UNCHANGED <<hpc, carries, sessionId, named>>
            BY <2>2 DEF CallerAlone, httpVars
        <3>2. CASE c = connector /\ (PassClosed(c) \/ Register(c))
            BY <3>2, <1>1 DEF Known, PassClosed, Register, OnlyMoves
        <3>3. CASE ~(c = connector /\ (PassClosed(c) \/ Register(c)))
            <4>1. UNCHANGED reader /\ connector' \in {connector, Nobody}
                  /\ \A d \in Callers \ {c} : pc'[d] = pc[d]
                BY <1>1, <2>2
                DEF CallerAlone, CallerLocal, RefuseClosed, PassClosed, Register, Unsend,
                    Forget, Answered, HandshakeAnswered, Expire, TimedOut, VersionOk, VersionBad, NoVersion,
                    Ready, AlreadyClosed, NotYetClosed, Shut, CloserTakes, CloserTests, CloserFails,
                    CloserDone, TestNext, Settle, OnlyMoves, OnlyReturns, Return
            <4>2. c = connector' => pc'[c] \notin {"check", "register", "send"}
                BY <1>1, <2>2, <3>3
                DEF CallerAlone, CallerLocal, RefuseClosed, PassClosed, Register, Unsend,
                    Forget, Answered, HandshakeAnswered, Expire, TimedOut, VersionOk, VersionBad, NoVersion,
                    Ready, AlreadyClosed, NotYetClosed, Shut, CloserTakes, CloserTests, CloserFails,
                    CloserDone, TestNext, Settle, OnlyMoves, OnlyReturns, Return
            <4> QED
                BY <1>4, <1>6, <3>1, <4>1, <4>2
        <3> QED
            BY <3>2, <3>3
    <2>3. CASE Sent(c) \/ NotSent(c) \/ Closed(c)
        <3>1. UNCHANGED <<carries, sessionId, named>> /\ hpc'[c] = "idle"
              /\ \A u \in Threads \ {c} : hpc'[u] = hpc[u]
            BY <1>1, <2>1, <2>3 DEF Sent, NotSent, Closed, H!Finish
        <3>2. UNCHANGED reader /\ connector' \in {connector, Nobody}
              /\ pc'[c] \notin {"check", "register", "send"}
              /\ \A d \in Callers \ {c} : pc'[d] = pc[d]
            BY <1>1, <2>3
            DEF Sent, NotSent, Closed, SendOk, SendFails, NotifyOk, NotifyFails, Teardown,
                OnlyMoves, OnlyReturns, Return
        <3> QED
            BY <1>4, <1>6, <3>1, <3>2
    <2>4. CASE Closing(c)
        <3>1. UNCHANGED <<carries, sessionId, named, pc, connector, reader>>
              /\ \A u \in Threads \ {c} : hpc'[u] = hpc[u]
            BY <1>1, <2>4 DEF Closing, clientVars, H!BeginShutdown, H!CloseLocal,
                H!TestClosed, H!SetClosed, H!CloseClient, H!PutEof
        <3>2. hpc'[c] # "flight" /\ hpc[c] \notin {"put", "sent", "failed"}
            BY <1>1, <2>1, <2>4 DEF Closing, H!BeginShutdown, H!CloseLocal,
                H!TestClosed, H!SetClosed, H!CloseClient, H!PutEof
        <3> QED
            BY <1>4, <1>5, <3>1, <3>2 DEF Known
    <2> QED
        BY <1>8, <1>10, <2>1, <2>2, <2>3, <2>4 DEF CallerRuns
<1>11. CASE ReaderRuns
    <2>1. Reader \in Threads
        BY DEF Threads
    <2>2. CASE ReaderAlone
        <3>1. UNCHANGED <<hpc, carries, sessionId, named, pc, connector>> /\ reader' # "off"
            BY <2>2 DEF ReaderAlone, httpVars, ReaderLocal, ReaderTests, Resolve, ReaderTakes,
                ReaderFails, ReaderDone, ReaderMoves, TestNext, Settle
        <3> QED
            BY <1>4, <1>5, <3>1
    <2>3. CASE Receives \/ ReceivesNone
        <3>1. UNCHANGED <<hpc, carries, sessionId, named>>
            BY <2>3 DEF Receives, ReceivesNone, H!Receive, H!ReceiveNone
        <3>2. UNCHANGED <<pc, connector>> /\ reader' # "off"
            BY <2>3 DEF Known, Receives, ReceivesNone, Handle, TakeAnswer, Drop, clientVars,
                TakeRequest, EndOfStream, ReaderMoves
        <3> QED
            BY <1>4, <1>5, <3>1, <3>2
    <2>4. CASE Replied
        <3>1. UNCHANGED <<carries, sessionId, named, pc, connector>> /\ reader' # "off"
              /\ hpc' = [hpc EXCEPT ![Reader] = "idle"]
            BY <2>4 DEF Replied, ReplyOk, ReplyFails, ReaderMoves, H!Finish
        <3>2. \A c \in Callers : hpc'[c] = hpc[c]
            BY <1>1, <3>1 DEF Threads
        <3>3. Known'
            BY <1>1, <3>1, <3>2 DEF Known
        <3> QED
            BY <1>1, <1>4, <3>1, <3>3
    <2> QED
        BY <1>8, <1>11, <2>1, <2>2, <2>3, <2>4 DEF ReaderRuns
<1>12. CASE LateArrival \/ UNCHANGED vars
    BY <1>4, <1>5, <1>12 DEF LateArrival, H!Arrives, vars, clientVars, httpVars, Known
<1> QED
    BY <1>7, <1>9, <1>10, <1>11, <1>12 DEF Next

-----------------------------------------------------------------------------
(* Until the server has spoken, only the initialize is under way ...       *)
LEMMA SilentSends ==
    ASSUME Link, Silent, NEW t \in Threads, hpc[t] \in InSend
    PROVE  IsInitialize(t)
BY DEF Link, Silent, MustSend, IsInitialize, IsRequest, Threads, Closers, Requesting

LEMMA SilentOutbox ==
    ASSUME Silent, TransportInv,
           UNCHANGED inbox \/ (inbox # <<>> /\ inbox' = Tail(inbox))
           \/ inbox' = Append(inbox, EOF) \/ (inbox # <<>> /\ inbox' = Append(Tail(inbox), EOF))
           \/ \E t \in Threads : hpc[t] = "put" /\ inbox' = Append(inbox, response[t].body)
    PROVE  \A k \in 1 .. Len(inbox') : inbox'[k] # EOF => inbox'[k].kind = "ignored"
<1> DEFINE Ignored(q) == \A k \in 1 .. Len(q) : q[k] # EOF => q[k].kind = "ignored"
<1>1. inbox \in Seq(Wire \cup {EOF}) /\ Ignored(inbox)
    BY DEF Silent, TransportInv, H!HttpTransportTypeOK
<1>2. ASSUME NEW q \in Seq(Wire \cup {EOF}), Ignored(q), NEW m \in Wire \cup {EOF},
             m # EOF => m.kind = "ignored"
      PROVE  Ignored(Append(q, m))
    BY <1>2
<1>3. inbox # <<>> => Tail(inbox) \in Seq(Wire \cup {EOF}) /\ Ignored(Tail(inbox))
    BY <1>1
<1>4. ASSUME NEW t \in Threads, hpc[t] = "put"
      PROVE  response[t].body \in Wire /\ response[t].body.kind = "ignored"
    BY <1>4 DEF Silent, TransportInv, PutsMessage
<1> HIDE DEF Ignored
<1>5. Ignored(inbox')
    BY <1>1, <1>2, <1>3, <1>4
<1> QED
    BY <1>5 DEF Ignored

(* ... and the first that the server says is the answer to it, after which *)
(* the client knows the session.                                           *)
LEMMA SilentReturned ==
    ASSUME ClientTypeOK, TransportInv, Link, ConnectorBusy, Silent,
           NEW t \in Threads, Returned(t)
    PROVE  Silent' \/ (Known' /\ \A u \in Threads : hpc'[u] # "flight")
<1> USE DEF H!HGoto
<1>1. /\ hpc \in [Threads -> {"idle"} \cup H!SendPC \cup H!ClosePC \cup H!Verdict]
      /\ response \in [Threads -> H!Response] /\ Nobody \notin Callers
    BY ClientAssumption DEF TransportInv, H!HttpTransportTypeOK
<1>2. UNCHANGED <<initialized, reader, lastId, future, pc, connector, inbox>> /\ hpc[t] = "flight"
    BY DEF Returned, clientVars, table, life, H!Lost, H!Answer
<1>3. IsInitialize(t)
    BY <1>2, SilentSends DEF InSend, H!SendPC
<1>4. t \in Callers /\ t = connector /\ pc[t] = "send" /\ reader # "off"
    BY <1>1, <1>3 DEF IsInitialize, IsRequest, Threads, ConnectorBusy
(* Nothing for the client. *)
<1>5. ASSUME \A u \in Threads : hpc'[u] = "put" => response'[u].body.kind = "ignored"
      PROVE  Silent'
    BY <1>2, <1>5 DEF Silent, Ids
<1>6. CASE H!Lost(t, IsInitialize(t))
    <2>1. response' = response /\ \A u \in Threads : hpc'[u] = "put" => hpc[u] = "put"
        BY <1>1, <1>6 DEF H!Lost, H!Releases
    <2> QED
        BY <1>5, <2>1 DEF Silent
<1>7. ASSUME NEW r, NEW n, H!Answer(t, IsInitialize(t), r, n)
      PROVE  /\ response' = [response EXCEPT ![t] = r]
             /\ \A u \in Threads \ {t} : hpc'[u] = hpc[u] /\ response'[u] = response[u]
             /\ hpc'[t] = "put" \/ hpc'[t] \in {"failed", "sent"}
             /\ hpc'[t] = "put" => r.body # NoBody
    BY <1>1, <1>3, <1>7 DEF H!Answer, H!Releases
<1>8. ASSUME NEW r, NEW n, H!Answer(t, IsInitialize(t), r, n), hpc'[t] # "put" \/ r.body.kind = "ignored"
      PROVE  Silent'
    BY <1>1, <1>5, <1>7, <1>8 DEF Silent
<1>9. ASSUME NEW r \in {[status |-> x, body |-> NoBody] : x \in {"success", "error"}}
                       \cup {[status |-> "error", body |-> Garbage]},
             H!Answer(t, IsInitialize(t), r, 0)
      PROVE  Silent'
    <2>1. r.body = NoBody \/ r.status = "error"
        OBVIOUS
    <2>2. hpc'[t] # "put"
        BY <1>1, <1>9, <2>1 DEF H!Answer, H!Releases
    <2> QED
        BY <1>8, <1>9, <2>2
<1>10. ASSUME NEW k \in Kinds, NEW i, NEW n,
              H!Answer(t, IsInitialize(t), [status |-> "success", body |-> [kind |-> k, id |-> i]], n)
       PROVE  Silent' \/ (Known' /\ \A u \in Threads : hpc'[u] # "flight")
    <2>1. CASE k = "ignored" \/ hpc'[t] # "put"
        BY <1>8, <1>10, <2>1
    <2>2. CASE hpc'[t] = "put"
        <3>2. \A u \in Threads \ {t} : hpc'[u] = hpc[u] /\ hpc[u] # "flight"
            <4>1. ASSUME NEW u \in Threads, hpc[u] = "flight" PROVE u = t
                BY <1>4, <4>1, SilentSends DEF InSend, H!SendPC, IsInitialize
            <4> QED
                BY <1>7, <1>10, <4>1
        <3> QED
            BY <1>2, <1>4, <2>2, <3>2 DEF Known
    <2> QED
        BY <1>10, <2>1, <2>2
<1> QED
    BY <1>6, <1>9, <1>10 DEF Returned

LEMMA SilentStep ==
    ASSUME ClientInv, TransportInv, Link, ConnectorBusy, Silent, [Next]_vars
    PROVE  Silent' \/ (Known' /\ \A t \in Threads : hpc'[t] # "flight")
<1> USE DEF Goto, H!HGoto, H!HMoves, H!learned, H!server, H!attempt, H!perThread, H!attempt
<1>1. /\ Reader \notin Callers /\ Nobody \notin Callers /\ pc \in [Callers -> CallerPC]
      /\ connector \in Callers \cup {Nobody} /\ future \in [Ids -> FutureState] /\ lastId \in Nat
      /\ aim \in [Threads -> 0 .. lastId]
      /\ hpc \in [Threads -> {"idle"} \cup H!SendPC \cup H!ClosePC \cup H!Verdict]
      /\ ClientTypeOK
    BY ClientAssumption DEF ClientInv, ClientTypeOK, TransportInv, H!HttpTransportTypeOK
<1>2. "lost" \notin AnswerKind /\ "waiting" \notin AnswerKind /\ "ignored" \notin AnswerKind
    BY DEF AnswerKind
(* The two halves of Silent: the client's, and the transport's. *)
<1> DEFINE ClientSilent ==
               /\ ~initialized /\ reader \notin {"resolve", "reply"}
               /\ \A i \in Ids : future[i] \notin AnswerKind
               /\ \A c \in Callers : pc[c] \in Closers \/ (c = connector /\ pc[c] \in Requesting)
           WireSilent ==
               /\ \A k \in 1 .. Len(inbox) : inbox[k] # EOF => inbox[k].kind = "ignored"
               /\ \A t \in Threads : hpc[t] = "put" => response[t].body.kind = "ignored"
<1>3. (ClientSilent' /\ WireSilent' => Silent') /\ ClientSilent /\ WireSilent
    BY DEF Silent
<1>4. UNCHANGED clientVars => ClientSilent'
    BY <1>3 DEF clientVars, table, life, Ids
<1>5. UNCHANGED httpVars => WireSilent'
    BY <1>3 DEF httpVars
(* One caller goes on, and no Future is settled with an answer. *)
<1>6. ASSUME NEW c \in Callers, UNCHANGED reader, initialized' = FALSE \/ UNCHANGED initialized,
             \A i \in Ids' : future'[i] \notin AnswerKind,
             \A d \in Callers \ {c} : pc'[d] = pc[d],
             \A d \in Callers \ {c} : d = connector => d = connector',
             pc'[c] \in Closers \/ (c = connector' /\ pc'[c] \in Requesting)
      PROVE  ClientSilent'
    BY <1>3, <1>6
<1>7. UNCHANGED <<lastId, future>> => \A i \in Ids' : future'[i] \notin AnswerKind
    BY <1>3 DEF Ids
<1>8. ASSUME NEW t \in Threads, Settle(t, "lost") PROVE \A i \in Ids' : future'[i] \notin AnswerKind
    BY <1>1, <1>2, <1>3, <1>8 DEF Settle, Ids
<1>9. ASSUME NEW t \in Threads, UNCHANGED response,
             hpc'[t] = "put" => hpc[t] = "put",
             \A u \in Threads \ {t} : hpc'[u] = hpc[u],
             UNCHANGED inbox \/ inbox' = Append(inbox, EOF)
                \/ (hpc[t] = "put" /\ inbox' = Append(inbox, response[t].body))
      PROVE  WireSilent'
    <2>1. \A k \in 1 .. Len(inbox') : inbox'[k] # EOF => inbox'[k].kind = "ignored"
        BY <1>9, SilentOutbox
    <2>2. \A u \in Threads : hpc'[u] = "put" => response'[u].body.kind = "ignored"
        BY <1>3, <1>9
    <2> QED
        BY <2>1, <2>2
<1>10. ASSUME NEW c \in Callers, Begins(c) PROVE Silent'
    <2>1. CASE CallTool(c)
        BY <1>3, <2>1 DEF CallTool
    <2>2. CASE BeginClose(c) /\ UNCHANGED httpVars
        <3>1. ClientSilent'
            BY <1>1, <1>6, <1>7, <2>2 DEF BeginClose, OnlyMoves, table, life, Closers
        <3> QED
            BY <1>3, <1>5, <2>2, <3>1
    <2>3. CASE Opens(c)
        <3>1. connector = Nobody /\ connector' = c /\ reader' = "receive" /\ pc' = [pc EXCEPT ![c] = "check"]
              /\ UNCHANGED <<initialized, lastId, future>>
            BY <1>1, <2>3 DEF Opens, Connect, ConnectorBusy, table, life
        <3>2. ClientSilent'
            BY <1>1, <1>3, <1>7, <3>1 DEF Requesting
        <3>3. WireSilent'
            BY <1>3, <2>3 DEF Opens, H!Start
        <3> QED
            BY <1>3, <3>2, <3>3
    <2> QED
        BY <1>10, <2>1, <2>2, <2>3 DEF Begins
<1>11. ASSUME NEW t \in Threads, Sending(t) PROVE Silent'
    <2>1. ClientSilent'
        BY <1>4, <1>11 DEF Sending
    <2>2. CASE H!BeginSend(t) \/ H!Acquire(t) \/ H!PostRefused(t) \/ H!Post(t, IsInitialize(t))
        BY <1>1, <1>3, <1>9, <2>1, <2>2 DEF H!BeginSend, H!Acquire, H!PostRefused, H!Releases, H!Post
    <2>3. CASE H!Put(t)
        BY <1>1, <1>3, <1>9, <2>1, <2>3 DEF H!Put
    <2> QED
        BY <1>11, <2>2, <2>3 DEF Sending, H!SendLocal
<1>12. ASSUME NEW c \in Callers, CallerRuns(c) PROVE Silent'
    <2>1. c \in Threads /\ c # Reader
        BY <1>1 DEF Threads
    <2>2. CASE CallerAlone(c)
        <3>1. pc[c] \in Closers \/ (c = connector /\ pc[c] \in Requesting)
            BY <1>3
        <3>2. CASE Register(c)
            <4>1. c = connector
                BY <3>1, <3>2 DEF Register, Closers
            <4>2. \A i \in Ids' : future'[i] \notin AnswerKind
                BY <1>1, <1>2, <1>3, <3>2 DEF Register, Ids
            <4> QED
                BY <1>1, <1>3, <1>5, <1>6, <2>2, <3>2, <4>1, <4>2
                DEF CallerAlone, Register, life, Requesting
        <3>3. CASE \/ PassClosed(c) \/ Expire(c) \/ NotYetClosed(c) \/ CloserTakes(c) \/ Shut(c)
            <4>1. ClientSilent'
                BY <1>1, <1>6, <1>7, <3>1, <3>3
                DEF PassClosed, Expire, NotYetClosed, CloserTakes, Shut, OnlyMoves, table, life,
                    Closers, Requesting
            <4> QED
                BY <1>3, <1>5, <2>2, <4>1 DEF CallerAlone
        <3>4. CASE \/ RefuseClosed(c) \/ Unsend(c) \/ Answered(c) \/ TimedOut(c)
                   \/ AlreadyClosed(c) \/ CloserDone(c)
            <4>1. ClientSilent'
                BY <1>1, <1>6, <1>7, <3>4
                DEF RefuseClosed, Unsend, Answered, TimedOut, AlreadyClosed, CloserDone, Forget,
                    OnlyReturns, Return, table, life, Closers
            <4> QED
                BY <1>3, <1>5, <2>2, <4>1 DEF CallerAlone
        <3>5. CASE HandshakeAnswered(c)
            <4>1. call[c] \in Ids
                BY <3>5 DEF HandshakeAnswered, OnlyMoves, ClientInv, OwnId, InRequest
            <4> QED
                BY <1>3, <3>5, <4>1 DEF HandshakeAnswered, AnswerKind
        <3>6. CASE VersionOk(c) \/ VersionBad(c) \/ NoVersion(c) \/ Ready(c)
            BY <3>1, <3>6 DEF VersionOk, VersionBad, NoVersion, Ready, OnlyMoves, OnlyReturns,
                Closers, Requesting
        <3>7. CASE CloserTests(c)
            <4>1. ClientSilent'
                BY <1>3, <1>7, <3>7 DEF CloserTests, TestNext, table, life
            <4> QED
                BY <1>3, <1>5, <2>2, <4>1 DEF CallerAlone
        <3>8. CASE CloserFails(c)
            <4>1. ClientSilent'
                BY <1>3, <1>8, <2>1, <3>8 DEF CloserFails, Settle, life
            <4> QED
                BY <1>3, <1>5, <2>2, <4>1 DEF CallerAlone
        <3> QED
            BY <2>2, <3>2, <3>3, <3>4, <3>5, <3>6, <3>7, <3>8 DEF CallerAlone, CallerLocal
    <2>3. CASE Sent(c) \/ NotSent(c) \/ Closed(c)
        <3>1. pc[c] \in Closers \/ (c = connector /\ pc[c] \in Requesting)
            BY <1>3
        <3>2. ClientSilent'
            <4>1. SendOk(c) \/ SendFails(c) \/ Teardown(c)
                BY <2>3, <3>1 DEF Sent, NotSent, Closed, NotifyOk, NotifyFails, OnlyMoves,
                    OnlyReturns, Closers, Requesting
            <4> QED
                BY <1>1, <1>6, <1>7, <3>1, <4>1
                DEF SendOk, SendFails, Teardown, OnlyMoves, table, life, Closers, Requesting
        <3>3. /\ \A u \in Threads : hpc'[u] = "put" => hpc[u] = "put" /\ response'[u] = response[u]
              /\ UNCHANGED inbox
            BY <1>1, <2>1, <2>3 DEF Sent, NotSent, Closed, H!Finish, TransportInv, H!HttpTransportTypeOK
        <3> QED
            BY <1>3, <3>2, <3>3
    <2>4. CASE Closing(c)
        <3>1. ClientSilent'
            BY <1>4, <2>4 DEF Closing
        <3> QED
            BY <1>1, <1>3, <1>9, <2>1, <2>4, <3>1 DEF Closing, H!BeginShutdown, H!CloseLocal,
                H!TestClosed, H!SetClosed, H!CloseClient, H!PutEof
    <2> QED
        BY <1>11, <1>12, <2>1, <2>2, <2>3, <2>4 DEF CallerRuns
<1>13. CASE ReaderRuns
    <2>1. Reader \in Threads
        BY DEF Threads
    <2>2. CASE ReaderAlone
        <3>1. ClientSilent'
            <4>1. CASE ReaderTests \/ ReaderTakes \/ ReaderDone
                BY <1>3, <1>7, <4>1 DEF ReaderTests, ReaderTakes, ReaderDone, TestNext, ReaderMoves,
                    table, life
            <4>2. CASE ReaderFails
                BY <1>3, <1>8, <2>1, <4>2 DEF ReaderFails, Settle, life
            <4> QED
                BY <1>3, <2>2, <4>1, <4>2 DEF ReaderAlone, ReaderLocal, Resolve
        <3> QED
            BY <1>3, <1>5, <2>2, <3>1 DEF ReaderAlone
    <2>3. CASE Receives
        <3>1. inbox # <<>> /\ Head(inbox) # EOF /\ inbox' = Tail(inbox) /\ UNCHANGED <<hpc, response>>
            BY <2>3 DEF Receives, H!Receive
        <3>2. Head(inbox).kind = "ignored"
            <4>1. inbox \in Seq(Wire \cup {EOF})
                BY DEF TransportInv, H!HttpTransportTypeOK
            <4>2. 1 \in 1 .. Len(inbox) /\ Head(inbox) = inbox[1]
                BY <3>1, <4>1
            <4> QED
                BY <1>3, <3>1, <4>2
        <3>3. UNCHANGED clientVars
            BY <1>2, <2>3, <3>2 DEF Receives, Handle, Drop
        <3>4. WireSilent'
            BY <1>3, <3>1, SilentOutbox
        <3> QED
            BY <1>3, <1>4, <3>3, <3>4
    <2>4. CASE ReceivesNone
        <3>1. ClientSilent'
            BY <1>3, <1>7, <2>4 DEF ReceivesNone, EndOfStream, ReaderMoves, table, life
        <3>2. WireSilent'
            BY <1>3, <2>4, SilentOutbox DEF ReceivesNone, H!ReceiveNone
        <3> QED
            BY <1>3, <3>1, <3>2
    <2>5. CASE Replied
        BY <1>3, <2>5 DEF Replied, ReplyOk, ReplyFails, ReaderMoves
    <2> QED
        BY <1>11, <1>13, <2>1, <2>2, <2>3, <2>4, <2>5 DEF ReaderRuns
<1>14. CASE LateArrival
    BY <1>3, <1>4, <1>14 DEF LateArrival, H!Arrives
<1>15. CASE UNCHANGED vars
    BY <1>3, <1>4, <1>5, <1>15 DEF vars
<1> QED
    BY <1>1, <1>10, <1>12, <1>13, <1>14, <1>15, SilentReturned DEF Next

LEMMA CarriesInit == Init => CarriesInv
<1> SUFFICES ASSUME Init PROVE CarriesInv
    OBVIOUS
<1>1. ClientInv /\ TransportInv
    BY ClientInvInit, TransportInit DEF Init
<1>2. /\ \A t \in Threads : hpc[t] = "idle"
      /\ sessionId = 0 /\ named = 0 /\ \A t \in Threads : opened[t] = 0
      /\ inbox = <<>> /\ connector = Nobody /\ ~initialized /\ reader = "off" /\ lastId = 0
      /\ \A c \in Callers : pc[c] = "idle"
    BY DEF Init, ClientInit, H!HttpTransportInit
<1>3. Link /\ ConnectorBusy /\ Opening /\ CarriesSession
    BY <1>2 DEF Link, Opening, ConnectorBusy, CarriesSession, InSend, InClose, H!SendPC, H!ClosePC
<1>4. Silent
    BY <1>2 DEF Silent, Ids, Closers
<1> QED
    BY <1>1, <1>3, <1>4 DEF CarriesInv, Init

LEMMA CarriesStep == CarriesInv /\ [Next]_vars => CarriesInv'
<1> SUFFICES ASSUME CarriesInv, [Next]_vars PROVE CarriesInv'
    OBVIOUS
<1> USE DEF CarriesInv
<1>1. ClientTypeOK /\ [ClientNext]_clientVars
    BY HttpSessionStep DEF ClientInv
<1>2. ClientInv' /\ TransportInv' /\ Link' /\ ConnectorBusy' /\ Opening'
    BY <1>1, ClientInvStep, TransportStep, LinkStep, ConnectorStep, OpeningStep
<1>3. bodies' \in Nat
    BY DEF Next, vars, Begins, Opens, CallerRuns, CallerAlone, Sending, Sent, NotSent, Closing,
        Closed, ReaderRuns, ReaderAlone, Receives, ReceivesNone, Replied, Returned, LateArrival
<1>4. CASE Known
    BY <1>1, <1>2, <1>3, <1>4, KnownStep
<1>5. CASE Silent
    <2>1. CASE Silent'
        <3>1. \A t \in Threads : hpc'[t] = "flight" => IsInitialize(t)'
            BY <1>2, <2>1 DEF Link, Silent, MustSend, IsInitialize, IsRequest, Threads,
                Closers, Requesting, InSend, H!SendPC
        <3> QED
            BY <1>2, <1>3, <2>1, <3>1 DEF CarriesSession
    <2>2. CASE Known' /\ \A t \in Threads : hpc'[t] # "flight"
        BY <1>2, <1>3, <2>2 DEF CarriesSession
    <2> QED
        BY <1>5, <2>1, <2>2, SilentStep
<1> QED
    BY <1>4, <1>5

(* Whatever is lost, retried, late or answered by something in between, a  *)
(* POST other than the initialize carries the session that the answer to   *)
(* the initialize named, and client and transport keep their types.        *)
THEOREM HttpCarriesSession == Spec => [](TypeOK /\ CarriesSession)
<1>1. Spec => []CarriesInv
    BY CarriesInit, CarriesStep, PTL DEF Spec
<1>2. CarriesInv => TypeOK /\ CarriesSession
    BY DEF CarriesInv, TransportInv, ClientInv, TypeOK
<1> QED
    BY <1>1, <1>2, PTL
=============================================================================
