-------------------------- MODULE StdioSessionProofs --------------------------
(***************************************************************************)
(* What MCPClientProofs shows of any session holds of the one over a       *)
(* child's pipes: its callers and its reader take the client's steps.      *)
(***************************************************************************)
EXTENDS StdioSession, MCPClientProofs

(* Each step of the composition is a step of the client or leaves it alone. *)
LEMMA SessionStep ==
    ASSUME ClientTypeOK, [Next]_vars
    PROVE  [ClientNext]_clientVars
<1>1. ASSUME NEW c \in Callers, Begins(c) PROVE ClientNext
    BY <1>1 DEF Begins, Opens, ClientNext, CallerStep
<1>2. ASSUME NEW c \in Callers, CallerRuns(c) PROVE ClientNext \/ UNCHANGED clientVars
    BY <1>2 DEF CallerRuns, CallerAlone, Sending, Sent, NotSent, Closing, Closed,
                ClientNext, CallerStep
<1>3. CASE ReaderAlone \/ ReceivesNone \/ Replied \/ Sending(Reader)
    BY <1>3 DEF ReaderAlone, ReceivesNone, Replied, Sending, ClientNext, ReaderStep
<1>4. ASSUME NEW m, Handle(m) PROVE ClientNext
    <2>1. CASE m.kind \in AnswerKind /\ TakeAnswer(m.id, m.kind)
        <3>1. m.id \in Ids
            BY <2>1 DEF TakeAnswer, ClientTypeOK
        <3> QED
            BY <2>1, <3>1 DEF ClientNext, ReaderStep
    <2> QED
        BY <1>4, <2>1 DEF Handle, ClientNext, ReaderStep
<1>5. CASE Pumps \/ ChildSteps \/ UNCHANGED vars
    BY <1>5 DEF Pumps, ChildSteps, vars
<1> QED
    BY <1>1, <1>2, <1>3, <1>4, <1>5 DEF Next, ReaderRuns, Receives

(* Whatever the child and its pipes do, the callers and the reader thread  *)
(* go through the steps of MCPClient.                                      *)
LEMMA StdioImplementsClient == Spec => ClientSpec
<1>1. Init => ClientInit
    BY DEF Init
<1>2. Init => ClientInv
    BY <1>1, ClientInvInit
<1>3. ClientInv /\ [Next]_vars => [ClientNext]_clientVars
    BY SessionStep DEF ClientInv
<1>4. ClientInv /\ [Next]_vars => ClientInv'
    BY <1>3, ClientInvStep
<1>5. Init /\ [][Next]_vars => []ClientInv
    BY <1>2, <1>4, PTL
<1> QED
    BY <1>1, <1>3, <1>5, PTL DEF Spec, ClientSpec

(* And so no caller over a real pipe is orphaned or settled twice,         *)
(* whatever it was told stands, and it is told of a lost connection only   *)
(* once it is.                                                             *)
THEOREM StdioSessionSafety ==
    Spec => SettledOnce /\ [](OneSettler /\ NoOrphan /\ PendingIsLive /\ LostOnlyWhenOver)
BY StdioImplementsClient, ClientSafety, ClientSettledOnce, PTL
-----------------------------------------------------------------------------
(* The transport under the session is the transport of StdioTransportProofs. *)
P == INSTANCE StdioTransportProofs WITH Users <- Threads, Message <- Wire, NoThread <- Nobody

LEMMA TransportCalls ==
    ASSUME NEW t \in Threads
    PROVE  /\ T!BeginSend(t) => P!BeginSend(t)
           /\ T!SendLocal(t) => P!SendLocal(t)
           /\ \A m \in Wire : T!Write(t, m) => P!Write(t, m)
           /\ T!BeginShutdown(t) => P!BeginShutdown(t)
           /\ T!CloseLocal(t) => P!CloseLocal(t)
           /\ \A v : T!Finish(t, v) => P!Finish(t, v)
<1>1. T!BeginSend(t) => P!BeginSend(t)
    BY DEF T!BeginSend, P!BeginSend, T!TGoto, P!TGoto, T!process, P!process
<1>2. T!SendLocal(t) => P!SendLocal(t)
    BY DEF T!SendLocal, P!SendLocal, T!Acquire, P!Acquire, T!Poll, P!Poll, T!Block, P!Block,
           T!WriteFails, P!WriteFails, T!TGoto, P!TGoto, T!process, P!process
<1>3. \A m \in Wire : T!Write(t, m) => P!Write(t, m)
    BY DEF T!Write, P!Write, T!TGoto, P!TGoto, T!process, P!process
<1>4. T!BeginShutdown(t) => P!BeginShutdown(t)
    BY DEF T!BeginShutdown, P!BeginShutdown, T!TGoto, P!TGoto, T!process, P!process
<1>5. T!CloseLocal(t) => P!CloseLocal(t)
    BY DEF T!CloseLocal, P!CloseLocal, T!TestClosed, P!TestClosed, T!SetClosed, P!SetClosed,
           T!CloseStdin, P!CloseStdin, T!AwaitExit, P!AwaitExit, T!PutEof, P!PutEof,
           T!TGoto, P!TGoto, T!process, P!process
<1>6. \A v : T!Finish(t, v) => P!Finish(t, v)
    BY DEF T!Finish, P!Finish, T!TGoto, P!TGoto, T!process, P!process
<1> QED
    BY <1>1, <1>2, <1>3, <1>4, <1>5, <1>6

LEMMA OutgoingIsWire ==
    ASSUME ClientTypeOK, NEW t \in Threads
    PROVE  Outgoing(t) \in Wire
BY DEF Outgoing, Wire, Kinds, AnswerKind, ClientTypeOK, Threads

SessionInv == ClientInv /\ P!EofInv /\ asked \subseteq Nat

(* Each step of the composition is a step of the transport or leaves it    *)
(* alone.                                                                  *)
LEMMA TransportStep ==
    ASSUME SessionInv, [Next]_vars
    PROVE  [P!StdioNext]_(P!stdioVars)
<1> USE DEF P!stdioVars, P!process, stdioVars
<1>1. ASSUME NEW c \in Callers, Begins(c) PROVE P!StdioNext \/ UNCHANGED P!stdioVars
    <2>1. T!Start => P!Start
        BY DEF T!Start, P!Start, T!process, P!process
    <2> QED
        BY <1>1, <2>1 DEF Begins, Opens, P!StdioNext
<1>2. ASSUME NEW t \in Threads, Sending(t) PROVE P!StdioNext
    BY <1>2, TransportCalls, OutgoingIsWire DEF Sending, P!StdioNext, SessionInv, ClientInv
<1>3. ASSUME NEW t \in Threads, NEW v \in P!Verdict, T!Finish(t, v) PROVE P!StdioNext
    BY <1>3, TransportCalls DEF P!StdioNext
<1>4. ASSUME NEW c \in Callers, CallerRuns(c) PROVE P!StdioNext \/ UNCHANGED P!stdioVars
    <2>1. c \in Threads
        BY DEF Threads
    <2>2. CASE CallerAlone(c)
        BY <2>2 DEF CallerAlone
    <2>3. CASE Sending(c)
        BY <2>1, <2>3, <1>2
    <2>4. CASE Sent(c) \/ NotSent(c) \/ Closed(c)
        BY <2>1, <2>4, <1>3 DEF Sent, NotSent, Closed, P!Verdict
    <2>5. CASE Closing(c)
        BY <2>1, <2>5, TransportCalls DEF Closing, P!StdioNext
    <2> QED
        BY <1>4, <2>2, <2>3, <2>4, <2>5 DEF CallerRuns
<1>5. CASE ReaderRuns
    <2>1. Reader \in Threads
        BY DEF Threads
    <2>2. CASE ReaderAlone
        BY <2>2 DEF ReaderAlone
    <2>3. CASE Receives
        <3>1. Head(inbox) # EOF /\ inbox # <<>>
            BY <2>3 DEF Receives, T!Receive
        <3>2. Head(inbox) \in Wire
            BY <3>1 DEF SessionInv, P!EofInv, P!StdioTypeOK
        <3>3. P!Receive(Head(inbox))
            BY <2>3 DEF Receives, T!Receive, P!Receive, T!process, P!process
        <3> QED
            BY <3>2, <3>3 DEF P!StdioNext
    <2>4. CASE ReceivesNone
        BY <2>4 DEF ReceivesNone, P!StdioNext, T!ReceiveNone, P!ReceiveNone, T!process, P!process
    <2>5. CASE Sending(Reader)
        BY <2>1, <2>5, <1>2
    <2>6. CASE Replied
        BY <2>1, <2>6, <1>3 DEF Replied, P!Verdict
    <2> QED
        BY <1>5, <2>2, <2>3, <2>4, <2>5, <2>6 DEF ReaderRuns
<1>6. CASE Pumps
    BY <1>6 DEF Pumps, P!StdioNext, T!PumpEnds, P!PumpEnds, T!process, P!process
<1>7. CASE ChildSteps
    <2>1. ASSUME NEW m \in Wire, T!ChildWrites(m) PROVE P!ChildWrites(m)
        BY <2>1 DEF T!ChildWrites, P!ChildWrites, T!process, P!process
    <2>2. \A i \in asked \cup {0}, k \in Kinds : [kind |-> k, id |-> i] \in Wire
        BY DEF Wire, SessionInv
    <2>3. T!ChildReads => P!ChildReads
        BY DEF T!ChildReads, P!ChildReads, T!process, P!process
    <2>4. T!ChildClosesStdout \/ T!ChildExits => P!ChildClosesStdout \/ P!ChildExits
        BY DEF T!ChildClosesStdout, P!ChildClosesStdout, T!ChildExits, P!ChildExits,
               T!process, P!process
    <2> QED
        BY <1>7, <2>1, <2>2, <2>3, <2>4 DEF ChildSteps, P!StdioNext, Kinds
<1>8. CASE UNCHANGED vars
    BY <1>8 DEF vars
<1> QED
    BY <1>1, <1>4, <1>5, <1>6, <1>7, <1>8 DEF Next

LEMMA AskedStep ==
    ASSUME SessionInv, [Next]_vars
    PROVE  (asked \subseteq Nat)'
<1>1. CASE T!ChildReads /\ asked' = asked \cup (IF Head(stdin).kind = "request"
                                                THEN {Head(stdin).id} ELSE {})
    <2>1. Head(stdin) \in Wire
        BY <1>1 DEF T!ChildReads, SessionInv, P!EofInv, P!StdioTypeOK
    <2> QED
        BY <1>1, <2>1 DEF Wire, SessionInv
<1>2. CASE asked' = asked
    BY <1>2 DEF SessionInv
<1> QED
    BY <1>1, <1>2 DEF Next, vars, Begins, Opens, CallerRuns, CallerAlone, Sending, Sent,
                      NotSent, Closing, Closed, ReaderRuns, ReaderAlone, Receives,
                      ReceivesNone, Replied, Pumps, ChildSteps

(* Whatever the client does with it, the transport is that of              *)
(* StdioTransportProofs: the reader thread is told that the stream is over *)
(* only when it is, and with nothing left to read.                         *)
THEOREM StdioSessionEof == Spec => [](TypeOK /\ NothingBehindEof /\ EofMeansOver)
<1>1. P!StdioAssumption
    BY StdioSessionAssumption DEF T!StdioAssumption, P!StdioAssumption
<1>2. Init => SessionInv
    <2>1. Init => P!StdioInit
        BY DEF Init, T!StdioInit, P!StdioInit
    <2> QED
        BY <1>1, <2>1, ClientInvInit, P!EofInvInit DEF Init, SessionInv
<1>3. SessionInv /\ [Next]_vars => SessionInv'
    <2> SUFFICES ASSUME SessionInv, [Next]_vars PROVE SessionInv'
        OBVIOUS
    <2>1. P!EofInv' /\ (asked \subseteq Nat)'
        BY <1>1, TransportStep, AskedStep, P!EofInvStep DEF SessionInv
    <2>2. ClientInv'
        BY SessionStep, ClientInvStep DEF SessionInv, ClientInv
    <2> QED
        BY <2>1, <2>2 DEF SessionInv
<1>4. SessionInv => TypeOK
    <2>1. P!StdioTypeOK => T!StdioTypeOK
        BY DEF P!StdioTypeOK, T!StdioTypeOK, P!SendPC, P!ClosePC, P!Verdict, T!SendPC,
            T!ClosePC, T!Verdict
    <2> QED
        BY <2>1 DEF SessionInv, ClientInv, P!EofInv, TypeOK
<1>5. SessionInv => NothingBehindEof /\ EofMeansOver
    BY DEF SessionInv, P!EofInv, P!Ended, P!HasEof, NothingBehindEof, EofMeansOver,
           T!NothingBehindEof, T!EofMeansOver
<1> QED
    BY <1>2, <1>3, <1>4, <1>5, PTL DEF Spec

=============================================================================
