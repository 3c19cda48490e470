----------------------------- MODULE StdioSession -----------------------------
(***************************************************************************)
(* An MCPClient over a StdioTransport: the two modules composed.  A step   *)
(* is one of the client's, one of the transport's, or one of each where    *)
(* the client calls the transport (start, send, receive, close) or learns  *)
(* how the call ended.                                                     *)
(***************************************************************************)
EXTENDS MCPClient, Sequences

CONSTANTS EOF, PipeSize, MaxOutput

VARIABLES tpc, sendLock, stdinOpen, stdin, child, stdoutOpen, written,
          pumping, inbox, tclosed,
          asked      \* requests the child has read and may answer

(* What travels, by kind.  "ignored": a notification, or an envelope that  *)
(* parse_message refuses.  "untraceable": one of those with an id that is  *)
(* a JSON array or object besides, which McpLogger cannot use as a key, so *)
(* that on_message raises TypeError.                                       *)
Kinds == AnswerKind \cup {"request", "ignored", "untraceable"}
Wire == [kind : Kinds, id : Nat]

T == INSTANCE StdioTransport WITH Users <- Threads, Message <- Wire, NoThread <- Nobody

ASSUME StdioSessionAssumption == T!StdioAssumption

stdioVars == <<tpc, sendLock, stdinOpen, stdin, child, stdoutOpen, written,
               pumping, inbox, tclosed>>
vars == <<clientVars, stdioVars, asked>>

TypeOK == /\ ClientTypeOK /\ T!StdioTypeOK
          /\ asked \subseteq Nat

Init == ClientInit /\ T!StdioInit /\ asked = {}

-----------------------------------------------------------------------------
(* connect() reaches transport.start(). *)
Opens(c) == Connect(c) /\ T!Start /\ UNCHANGED asked

CallerAlone(c) == CallerLocal(c) /\ UNCHANGED <<stdioVars, asked>>

(* Thread t is at a transport.send(), and what it sends there. *)
MustSend(t) == IF t = Reader THEN reader = "reply" ELSE pc[t] \in {"send", "notify"}

Outgoing(t) == IF t = Reader THEN [kind |-> "rpcError", id |-> 0]
               ELSE IF pc[t] = "notify" THEN [kind |-> "ignored", id |-> 0]
               ELSE [kind |-> "request", id |-> call[t]]

Sending(t) ==
    /\ \/ MustSend(t) /\ T!BeginSend(t)
       \/ T!SendLocal(t)
       \/ T!Write(t, Outgoing(t))
    /\ UNCHANGED <<clientVars, asked>>

Sent(c) == (SendOk(c) \/ NotifyOk(c)) /\ T!Finish(c, "sent") /\ UNCHANGED asked

NotSent(c) ==
    /\ SendFails(c) \/ NotifyFails(c)
    /\ \E v \in {"TransportError", "ValueError"} : T!Finish(c, v)
    /\ UNCHANGED asked

(* close() reaches transport.close(). *)
Closing(c) ==
    /\ \/ pc[c] = "teardown" /\ T!BeginShutdown(c)
       \/ T!CloseLocal(c)
    /\ UNCHANGED <<clientVars, asked>>

Closed(c) == Teardown(c) /\ T!Finish(c, "shutdown") /\ UNCHANGED asked

-----------------------------------------------------------------------------
ReaderAlone == ReaderLocal /\ UNCHANGED <<stdioVars, asked>>

(* The trace, parse_message and _handle, on one message. *)
Handle(m) ==
    \/ m.kind \in AnswerKind /\ TakeAnswer(m.id, m.kind)
    \/ m.kind \in AnswerKind /\ m.id \notin pending /\ Drop
    \/ m.kind = "ignored" /\ Drop
    \/ m.kind = "request" /\ TakeRequest
    \/ m.kind = "untraceable" /\ EndOfStream

Receives == /\ inbox # <<>> /\ T!Receive(Head(inbox)) /\ Handle(Head(inbox))
            /\ UNCHANGED asked

ReceivesNone == T!ReceiveNone /\ EndOfStream /\ UNCHANGED asked

Replied ==
    /\ \/ ReplyOk /\ T!Finish(Reader, "sent")
       \/ ReplyFails /\ \E v \in {"TransportError", "ValueError"} : T!Finish(Reader, v)
    /\ UNCHANGED asked

-----------------------------------------------------------------------------
Pumps == T!PumpEnds /\ UNCHANGED <<clientVars, asked>>

(* The child answers only what it was asked, though perhaps again, late,   *)
(* or in another order; or it speaks unasked.                              *)
ChildSteps ==
    /\ UNCHANGED clientVars
    /\ \/ T!ChildReads /\ asked' = asked \cup (IF Head(stdin).kind = "request"
                                               THEN {Head(stdin).id} ELSE {})
       \/ /\ \/ \E i \in asked, k \in AnswerKind : T!ChildWrites([kind |-> k, id |-> i])
             \/ \E k \in Kinds \ AnswerKind : T!ChildWrites([kind |-> k, id |-> 0])
             \/ T!ChildClosesStdout
             \/ T!ChildExits
          /\ UNCHANGED asked

-----------------------------------------------------------------------------
(* A new operation of a caller: the host decides when. *)
Begins(c) == \/ (CallTool(c) \/ BeginClose(c)) /\ UNCHANGED <<stdioVars, asked>>
             \/ Opens(c)

(* A caller carries on with the operation it is in. *)
CallerRuns(c) == \/ CallerAlone(c) \/ Sending(c) \/ Sent(c) \/ NotSent(c)
                 \/ Closing(c) \/ Closed(c)

ReaderRuns == ReaderAlone \/ Receives \/ ReceivesNone \/ Sending(Reader) \/ Replied

Next == \/ \E c \in Callers : Begins(c) \/ CallerRuns(c)
        \/ ReaderRuns
        \/ Pumps
        \/ ChildSteps

(* Threads run: the scheduler owes each of them its next step, and a       *)
(* future.result(timeout) does run out.  Nothing is owed by the child, nor *)
(* by the host beginning anything.                                         *)
Fairness == /\ \A c \in Callers : WF_vars(CallerRuns(c))
            /\ WF_vars(ReaderRuns)
            /\ WF_vars(Pumps)

Spec == Init /\ [][Next]_vars /\ Fairness

-----------------------------------------------------------------------------
(* A live child that has stopped reading, its pipe full, and a thread      *)
(* inside the write: no time limit covers that.                            *)
Wedged == \E t \in Threads : tpc[t] = "blocked"

(* Every request ends, by an answer, an error or its timeout, whatever the *)
(* child does and whoever closes the session - unless a write is wedged.   *)
RequestsEnd ==
    \A c \in Callers : pc[c] = "check" ~> (pc[c] = "idle" \/ Wedged)

(* When the child dies the reader thread ends, having failed all it found. *)
DeathEndsReader == child = "dead" ~> (reader = "done" \/ Wedged)

(* close() leaves neither a child process nor a reader thread behind.      *)
CloseEndsAll == closed ~> ((reader = "done" /\ child = "dead") \/ Wedged)

(* What the transport keeps by itself (StdioTransport), it keeps here. *)
NothingBehindEof == T!NothingBehindEof
EofMeansOver == T!EofMeansOver
=============================================================================
