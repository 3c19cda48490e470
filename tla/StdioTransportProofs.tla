------------------------- MODULE StdioTransportProofs -------------------------
(***************************************************************************)
(* The end-of-stream discipline of StdioTransport, for any number of       *)
(* threads, messages and any pipe size.                                    *)
(***************************************************************************)
EXTENDS StdioTransport, TLAPS

HasEof(q) == \E i \in 1 .. Len(q) : q[i] = EOF
Ended(q) == \A i, j \in 1 .. Len(q) : i < j /\ q[i] = EOF => q[j] = EOF

(* What may end the stream exists only once the child does, and ends it    *)
(* only after the child has.                                               *)
EndingOrder ==
    /\ stdoutOpen => child = "alive"
    /\ pumping => child # "none"
    /\ child = "none" => ~HasEof(inbox)
    /\ \A t \in Users : tpc[t] \in {"stdin", "await", "eof"} => child # "none"
    /\ \A t \in Users : tpc[t] = "eof" => ~stdoutOpen

EofInv == StdioTypeOK /\ EndingOrder /\ Ended(inbox) /\ (HasEof(inbox) => ~stdoutOpen)

-----------------------------------------------------------------------------
(* Putting a message where there is no EOF, or an EOF anywhere. *)
LEMMA PutMessage ==
    ASSUME StdioAssumption, NEW q \in Seq(Message \cup {EOF}), NEW m \in Message, ~HasEof(q)
    PROVE  /\ Append(q, m) \in Seq(Message \cup {EOF})
           /\ Ended(Append(q, m)) /\ ~HasEof(Append(q, m))
BY DEF StdioAssumption, HasEof, Ended

LEMMA PutSentinel ==
    ASSUME NEW q \in Seq(Message \cup {EOF}), Ended(q)
    PROVE  /\ Append(q, EOF) \in Seq(Message \cup {EOF})
           /\ Ended(Append(q, EOF)) /\ HasEof(Append(q, EOF))
<1>1. Len(Append(q, EOF)) = Len(q) + 1 /\ Append(q, EOF)[Len(q) + 1] = EOF
    OBVIOUS
<1> QED
    BY <1>1 DEF HasEof, Ended

LEMMA TakeHead ==
    ASSUME NEW q \in Seq(Message \cup {EOF}), Ended(q), q # <<>>
    PROVE  /\ Tail(q) \in Seq(Message \cup {EOF})
           /\ Ended(Tail(q)) /\ (HasEof(Tail(q)) => HasEof(q))
           /\ Head(q) # EOF => (HasEof(q) => HasEof(Tail(q)))
<1>1. Tail(q) \in Seq(Message \cup {EOF}) /\ Len(Tail(q)) = Len(q) - 1
      /\ \A i \in 1 .. Len(Tail(q)) : Tail(q)[i] = q[i + 1]
    OBVIOUS
<1>2. Ended(Tail(q)) /\ (HasEof(Tail(q)) => HasEof(q))
    BY <1>1 DEF HasEof, Ended
<1>3. Head(q) # EOF => (HasEof(q) => HasEof(Tail(q)))
    <2> SUFFICES ASSUME Head(q) # EOF, NEW i \in 1 .. Len(q), q[i] = EOF
                 PROVE  HasEof(Tail(q))
        BY DEF HasEof
    <2>1. i # 1 /\ i - 1 \in 1 .. Len(Tail(q)) /\ Tail(q)[i - 1] = q[i]
        BY <1>1
    <2> QED
        BY <2>1 DEF HasEof
<1> QED
    BY <1>1, <1>2, <1>3
-----------------------------------------------------------------------------
LEMMA EofInvInit == ASSUME StdioAssumption, StdioInit PROVE EofInv
<1> USE DEF StdioAssumption, StdioInit
<1>1. tpc \in [Users -> {"idle"} \cup SendPC \cup ClosePC \cup Verdict]
    OBVIOUS
<1>2. inbox = <<>> /\ inbox \in Seq(Message \cup {EOF}) /\ stdin \in Seq(Message)
    OBVIOUS
<1>3. StdioTypeOK
    BY <1>1, <1>2 DEF StdioTypeOK
<1>4. ~HasEof(inbox) /\ Ended(inbox)
    BY <1>2 DEF HasEof, Ended
<1>5. EndingOrder
    BY <1>4 DEF EndingOrder
<1> QED
    BY <1>3, <1>4, <1>5 DEF EofInv

LEMMA EofInvStep == ASSUME StdioAssumption, EofInv, [StdioNext]_stdioVars PROVE EofInv'
<1> USE DEF EofInv, StdioTypeOK, EndingOrder, TGoto, process, SendPC, ClosePC, Verdict
<1>1. CASE Start
    BY <1>1 DEF Start
<1>2. ASSUME NEW t \in Users, BeginSend(t) \/ SendLocal(t) PROVE EofInv'
    <2>1. CASE BeginSend(t) \/ Poll(t)
        BY <2>1 DEF BeginSend, Poll
    <2>2. CASE Acquire(t) \/ Block(t)
        BY <2>2 DEF Acquire, Block
    <2>3. CASE WriteFails(t)
        <3>1. tpc' = [tpc EXCEPT ![t] = IF stdinOpen THEN "TransportError" ELSE "ValueError"]
            BY <2>3 DEF WriteFails
        <3> QED
            BY <2>3, <3>1 DEF WriteFails
    <2> QED
        BY <1>2, <2>1, <2>2, <2>3 DEF SendLocal
<1>3. ASSUME NEW t \in Users, NEW m \in Message, Write(t, m) PROVE EofInv'
    BY <1>3 DEF Write
<1>4. ASSUME NEW t \in Users, BeginShutdown(t) \/ TestClosed(t) PROVE EofInv'
    BY <1>4 DEF BeginShutdown, TestClosed
<1>5. ASSUME NEW t \in Users, SetClosed(t) \/ CloseStdin(t) \/ AwaitExit(t) PROVE EofInv'
    <2>1. CASE SetClosed(t)
        BY <2>1 DEF SetClosed
    <2>2. CASE CloseStdin(t)
        BY <2>2 DEF CloseStdin
    <2>3. CASE AwaitExit(t)
        BY <2>3 DEF AwaitExit
    <2> QED
        BY <1>5, <2>1, <2>2, <2>3
<1>6. ASSUME NEW t \in Users, PutEof(t) PROVE EofInv'
    <2>1. inbox' = Append(inbox, EOF) /\ ~stdoutOpen /\ child # "none"
        BY <1>6 DEF PutEof
    <2> QED
        BY <1>6, <2>1, PutSentinel DEF PutEof
<1>7. ASSUME NEW t \in Users, NEW v \in Verdict, Finish(t, v) PROVE EofInv'
    BY <1>7 DEF Finish
<1>8. CASE PumpEnds
    BY <1>8, PutSentinel DEF PumpEnds
<1>9. ASSUME NEW m \in Message, Receive(m) PROVE EofInv'
    BY <1>9, TakeHead DEF Receive
<1>10. CASE ReceiveNone
    <2>1. HasEof(inbox)
        BY <1>10 DEF ReceiveNone, HasEof
    <2>2. Tail(inbox) \in Seq(Message \cup {EOF}) /\ Ended(Tail(inbox))
        BY <1>10, TakeHead DEF ReceiveNone
    <2> QED
        BY <1>10, <2>1, <2>2, PutSentinel DEF ReceiveNone
<1>11. CASE ChildReads
    BY <1>11 DEF ChildReads
<1>12. ASSUME NEW m \in Message, ChildWrites(m) PROVE EofInv'
    BY <1>12, PutMessage DEF ChildWrites
<1>13. CASE ChildClosesStdout \/ ChildExits
    BY <1>13 DEF ChildClosesStdout, ChildExits
<1>14. CASE UNCHANGED stdioVars
    BY <1>14 DEF stdioVars
<1> QED
    BY <1>1, <1>2, <1>3, <1>4, <1>5, <1>6, <1>7, <1>8, <1>9, <1>10, <1>11, <1>12,
       <1>13, <1>14 DEF StdioNext, CloseLocal

-----------------------------------------------------------------------------
(* receive() returns None only once the child can say nothing more, and    *)
(* never with a message still behind it.                                   *)
THEOREM StdioEndOfStream ==
    ASSUME StdioAssumption
    PROVE  StdioSpec => [](StdioTypeOK /\ NothingBehindEof /\ EofMeansOver)
<1>1. StdioSpec => []EofInv
    <2>1. StdioInit => EofInv
        BY EofInvInit
    <2>2. EofInv /\ [StdioNext]_stdioVars => EofInv'
        BY EofInvStep
    <2> QED
        BY <2>1, <2>2, PTL DEF StdioSpec
<1>2. EofInv => StdioTypeOK /\ NothingBehindEof /\ EofMeansOver
    BY DEF EofInv, Ended, HasEof, NothingBehindEof, EofMeansOver
<1> QED
    BY <1>1, <1>2, PTL

(* An _EOF, once put, is never taken away: every later receive() returns.  *)
THEOREM StdioEofStays ==
    ASSUME StdioAssumption
    PROVE  StdioSpec => EofStays
<1>1. ASSUME EofInv, [StdioNext]_stdioVars, HasEof(inbox) PROVE HasEof(inbox')
    <2> USE <1>1 DEF EofInv, StdioTypeOK
    <2>1. CASE UNCHANGED inbox
        BY <2>1
    <2>2. CASE inbox' = Append(inbox, EOF)
        BY <2>2, PutSentinel
    <2>3. ASSUME NEW m \in Message, Receive(m) PROVE HasEof(inbox')
        BY <2>3, TakeHead DEF Receive
    <2>4. CASE ReceiveNone
        BY <2>4, TakeHead, PutSentinel DEF ReceiveNone
    <2>5. ASSUME NEW m \in Message, ChildWrites(m) PROVE FALSE
        BY <2>5 DEF ChildWrites
    <2> QED
        <3>1. CASE Start
            BY <3>1, <2>1 DEF Start
        <3>2. ASSUME NEW t \in Users, BeginSend(t) \/ SendLocal(t) PROVE UNCHANGED inbox
            BY <3>2 DEF BeginSend, SendLocal, Poll, Acquire, Block, WriteFails
        <3>3. ASSUME NEW t \in Users, NEW m \in Message, Write(t, m) PROVE UNCHANGED inbox
            BY <3>3 DEF Write
        <3>4. ASSUME NEW t \in Users, BeginShutdown(t) \/ TestClosed(t) \/ SetClosed(t)
                                       \/ CloseStdin(t) \/ AwaitExit(t)
              PROVE  UNCHANGED inbox
            BY <3>4 DEF BeginShutdown, TestClosed, SetClosed, CloseStdin, AwaitExit
        <3>5. ASSUME NEW t \in Users, PutEof(t) PROVE inbox' = Append(inbox, EOF)
            BY <3>5 DEF PutEof
        <3>6. ASSUME NEW t \in Users, NEW v \in Verdict, Finish(t, v) PROVE UNCHANGED inbox
            BY <3>6 DEF Finish
        <3>7. CASE PumpEnds
            BY <3>7, <2>2 DEF PumpEnds
        <3>8. CASE ChildReads \/ ChildClosesStdout \/ ChildExits
            BY <3>8, <2>1 DEF ChildReads, ChildClosesStdout, ChildExits
        <3>9. CASE UNCHANGED stdioVars
            BY <3>9, <2>1 DEF stdioVars
        <3> QED
            BY <1>1, <2>1, <2>2, <2>3, <2>4, <2>5, <3>1, <3>2, <3>3, <3>4, <3>5, <3>6,
               <3>7, <3>8, <3>9 DEF StdioNext, CloseLocal
<1>2. StdioSpec => []EofInv
    <2>1. StdioInit => EofInv
        BY EofInvInit
    <2>2. EofInv /\ [StdioNext]_stdioVars => EofInv'
        BY EofInvStep
    <2> QED
        BY <2>1, <2>2, PTL DEF StdioSpec
<1>3. EofInv /\ [StdioNext]_stdioVars => [HasEof(inbox) => HasEof(inbox')]_stdioVars
    BY <1>1
<1>4. [HasEof(inbox) => HasEof(inbox')]_stdioVars
      => [(\E i \in 1 .. Len(inbox) : inbox[i] = EOF)
            => \E i \in 1 .. Len(inbox') : inbox'[i] = EOF]_stdioVars
    BY DEF HasEof
<1> QED
    BY <1>2, <1>3, <1>4, PTL DEF StdioSpec, EofStays
=============================================================================
