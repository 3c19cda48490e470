--------------------------- MODULE MCPClientProofs ---------------------------
(***************************************************************************)
(* What MCPClient guarantees over any transport, for any number of         *)
(* callers and requests.                                                   *)
(***************************************************************************)
EXTENDS MCPClient, TLAPS

(* Every Future that is on the table or in some thread's hands is open. *)
OpenInHand ==
    /\ \A i \in pending : future[i] = "waiting"
    /\ \A t \in Threads : \A i \in taken[t] : future[i] = "waiting"
    /\ \A t \in Threads : aim[t] # 0 => future[aim[t]] = "waiting"

(* A thread has Futures in its hands only where the code can put them. *)
Hands ==
    /\ \A t \in Threads : aim[t] \notin taken[t]
    /\ \A c \in Callers : pc[c] # "failing" => taken[c] = {} /\ aim[c] = 0
    /\ reader \notin {"resolve", "failing"} => taken[Reader] = {} /\ aim[Reader] = 0
    /\ reader = "resolve" =>
           \E i \in Ids :
               \/ taken[Reader] = {i} /\ aim[Reader] = 0
               \/ taken[Reader] = {} /\ aim[Reader] = i

(* A request has an id, and no other request has the same one. *)
OwnId ==
    /\ \A c \in Callers : InRequest(c) => call[c] \in Ids
    /\ \A c, d \in Callers : InRequest(c) /\ InRequest(d) /\ call[c] = call[d] => c = d

(* Only a thread that has set _closed gets to fail what is pending. *)
ClosersClosed ==
    \A c \in Callers : pc[c] \in {"teardown", "grab", "failing"} => closed

ClientInv == /\ ClientTypeOK /\ OneSettler /\ OpenInHand /\ Hands
             /\ OwnId /\ NoOrphan /\ PendingIsLive
             /\ ClosersClosed /\ LostOnlyWhenOver

-----------------------------------------------------------------------------
(* The invariant holds initially. *)
LEMMA ClientInvInit == ClientInit => ClientInv
<1> SUFFICES ASSUME ClientInit PROVE ClientInv
    OBVIOUS
<1> USE ClientAssumption DEF ClientInit, Threads, Ids
<1>1. ClientTypeOK
    <2>1. future \in [1 .. lastId -> FutureState]
        BY DEF FutureState
    <2>2. call \in [Callers -> 0 .. lastId] /\ aim \in [Threads -> 0 .. lastId]
        OBVIOUS
    <2>3. pending \subseteq Ids /\ taken \in [Threads -> SUBSET Ids]
        OBVIOUS
    <2> QED
        BY <2>1, <2>2, <2>3 DEF ClientTypeOK, AnswerKind, CallerPC, ReaderPC
<1>2. OneSettler /\ OpenInHand /\ Hands
    BY DEF OneSettler, OpenInHand, Hands, Holds
<1>3. OwnId /\ NoOrphan /\ PendingIsLive
    BY DEF OwnId, NoOrphan, PendingIsLive, InRequest
<1>4. ClosersClosed /\ LostOnlyWhenOver
    BY DEF ClosersClosed, LostOnlyWhenOver
<1> QED
    BY <1>1, <1>2, <1>3, <1>4 DEF ClientInv

(* A step that leaves the table and every hand alone preserves the         *)
(* invariant, provided a request that ends by it ends with its Future      *)
(* settled, and hands are empty wherever a thread comes to.                *)
LEMMA QuietStep ==
    ASSUME ClientInv, UNCHANGED <<table, settling>>,
           pc' \in [Callers -> CallerPC],
           connector' \in Callers \cup {Nobody},
           reader' \in ReaderPC, initialized' \in BOOLEAN, closed' \in BOOLEAN,
           closed => closed',
           \A d \in Callers : InRequest(d)' => InRequest(d),
           \A d \in Callers : InRequest(d) /\ ~InRequest(d)' => future[call[d]] # "waiting",
           \A d \in Callers : pc'[d] # "failing" => taken[d] = {} /\ aim[d] = 0,
           \A d \in Callers : pc'[d] \in {"teardown", "grab", "failing"} => closed',
           reader' \notin {"resolve", "failing"} => taken[Reader] = {} /\ aim[Reader] = 0,
           reader' = "resolve" => reader = "resolve",
           reader \in {"failing", "done"} => reader' \in {"failing", "done"}
    PROVE  ClientInv'
<1> USE DEF ClientInv, table, settling
<1>1. ClientTypeOK'
    BY DEF ClientTypeOK, Ids, Threads
<1>2. OneSettler' /\ OpenInHand'
    BY DEF OneSettler, OpenInHand, Holds, Ids, Threads
<1>3. Hands'
    BY DEF Hands, Ids
<1>4. OwnId'
    BY DEF OwnId, Ids
<1>5. NoOrphan'
    BY DEF NoOrphan, Responsible, Holds, Threads
<1>6. PendingIsLive'
    BY DEF PendingIsLive, OpenInHand
<1>7. ClosersClosed' /\ LostOnlyWhenOver'
    BY DEF ClosersClosed, LostOnlyWhenOver, Ids
<1> QED
    BY <1>1, <1>2, <1>3, <1>4, <1>5, <1>6, <1>7

(* The program counters at which a request is registered. *)
RequestPC == {"send", "unsend", "wait", "expired"}

LEMMA MoveStep ==
    ASSUME ClientInv, NEW c \in Callers, NEW from, NEW to \in CallerPC,
           OnlyMoves(c, from, to),
           from # "failing", to # "failing",
           to \in {"teardown", "grab"} => closed,
           to \in RequestPC => from \in RequestPC,
           from \in RequestPC /\ to \notin RequestPC => future[call[c]] # "waiting"
    PROVE  ClientInv'
<1> USE DEF OnlyMoves, Goto
<1>1. ClientTypeOK
    BY DEF ClientInv
<1>2. pc' = [pc EXCEPT ![c] = to] /\ pc[c] = from
    OBVIOUS
<1>3. /\ UNCHANGED <<table, settling>>
      /\ pc' \in [Callers -> CallerPC]
      /\ connector' = connector /\ reader' = reader
      /\ initialized' = initialized /\ closed' = closed
    BY <1>1 DEF ClientTypeOK, life
<1>4. \A d \in Callers : InRequest(d)' => InRequest(d)
    BY <1>1, <1>2 DEF ClientTypeOK, InRequest, RequestPC
<1>5. \A d \in Callers : InRequest(d) /\ ~InRequest(d)' => future[call[d]] # "waiting"
    BY <1>1, <1>2 DEF ClientTypeOK, InRequest, RequestPC
<1>6. \A d \in Callers : pc'[d] # "failing" => taken[d] = {} /\ aim[d] = 0
    BY <1>1, <1>2 DEF ClientTypeOK, ClientInv, Hands
<1>7. \A d \in Callers : pc'[d] \in {"teardown", "grab", "failing"} => closed'
    BY <1>1, <1>2, <1>3 DEF ClientTypeOK, ClientInv, ClosersClosed
<1> QED
    BY <1>1, <1>3, <1>4, <1>5, <1>6, <1>7, QuietStep DEF ClientTypeOK, ClientInv, Hands

LEMMA ReturnStep ==
    ASSUME ClientInv, NEW c \in Callers, NEW from, pc[c] = from, Return(c),
           UNCHANGED <<table, settling, closed, reader>>, initialized' \in BOOLEAN,
           from = "failing" => taken[c] = {} /\ aim[c] = 0,
           from \in RequestPC => future[call[c]] # "waiting"
    PROVE  ClientInv'
<1> USE DEF Return
<1>1. ClientTypeOK
    BY DEF ClientInv
<1>2. pc' = [pc EXCEPT ![c] = "idle"] /\ pc[c] = from
    OBVIOUS
<1>3. pc' \in [Callers -> CallerPC] /\ connector' \in Callers \cup {Nobody}
    BY <1>1 DEF ClientTypeOK, CallerPC
<1>4. \A d \in Callers : InRequest(d)' => InRequest(d)
    BY <1>1, <1>2 DEF ClientTypeOK, InRequest, RequestPC
<1>5. \A d \in Callers : InRequest(d) /\ ~InRequest(d)' => future[call[d]] # "waiting"
    BY <1>1, <1>2 DEF ClientTypeOK, InRequest, RequestPC
<1>6. \A d \in Callers : pc'[d] # "failing" => taken[d] = {} /\ aim[d] = 0
    BY <1>1, <1>2 DEF ClientTypeOK, ClientInv, Hands
<1>7. \A d \in Callers : pc'[d] \in {"teardown", "grab", "failing"} => closed'
    BY <1>1, <1>2, <1>3 DEF ClientTypeOK, ClientInv, ClosersClosed
<1> QED
    BY <1>1, <1>3, <1>4, <1>5, <1>6, <1>7, QuietStep DEF ClientTypeOK, ClientInv, Hands

LEMMA ReaderMoveStep ==
    ASSUME ClientInv, NEW from, NEW to \in ReaderPC \ {"resolve"}, ReaderMoves(from, to),
           from \in {"resolve", "failing"} => taken[Reader] = {} /\ aim[Reader] = 0,
           from \in {"failing", "done"} => to \in {"failing", "done"}
    PROVE  ClientInv'
<1> USE DEF ReaderMoves
<1>1. ClientTypeOK
    BY DEF ClientInv
<1>2. pc' = pc /\ connector' = connector /\ UNCHANGED <<table, settling>>
      /\ initialized' = initialized /\ closed' = closed
    BY DEF life
<1>3. \A d \in Callers : InRequest(d)' <=> InRequest(d)
    BY <1>2 DEF InRequest
<1> QED
    BY <1>1, <1>2, <1>3, QuietStep DEF ClientTypeOK, ClientInv, Hands, ClosersClosed

-----------------------------------------------------------------------------
(* done() moves a Future from one hand of a thread to the other. *)
LEMMA TestStep ==
    ASSUME ClientInv, NEW t \in Threads, TestNext(t)
    PROVE  ClientInv'
<1> USE DEF ClientInv, table, life
<1>1. PICK i \in taken[t] : /\ taken' = [taken EXCEPT ![t] = @ \ {i}]
                           /\ aim' = IF future[i] = "waiting"
                                     THEN [aim EXCEPT ![t] = i] ELSE aim
    BY DEF TestNext
<1>2. /\ aim[t] = 0
      /\ UNCHANGED <<lastId, future, pending, call, answer, closed, initialized,
                     pc, connector, reader>>
    BY DEF TestNext
<1>3. i \in Ids /\ i # 0 /\ future[i] = "waiting"
    BY DEF ClientTypeOK, OpenInHand, Ids
<1>4. aim' = [aim EXCEPT ![t] = i]
    BY <1>1, <1>3
<1>5. \A u \in Threads, j \in Ids : Holds(u, j)' <=> Holds(u, j)
    BY <1>1, <1>2, <1>3, <1>4 DEF Holds, ClientTypeOK, Ids
<1>6. ClientTypeOK'
    BY <1>1, <1>2, <1>3, <1>4 DEF ClientTypeOK, Ids, Threads
<1>7. OneSettler'
    BY <1>2, <1>5 DEF OneSettler, ClientTypeOK, Ids
<1>8. OpenInHand'
    BY <1>1, <1>2, <1>3, <1>4 DEF OpenInHand, ClientTypeOK, Ids
<1>9. Hands'
    BY <1>1, <1>2, <1>3, <1>4, ClientAssumption DEF Hands, ClientTypeOK, Ids, Threads
<1>10. OwnId' /\ PendingIsLive' /\ ClosersClosed' /\ LostOnlyWhenOver'
    BY <1>2 DEF OwnId, PendingIsLive, ClosersClosed, LostOnlyWhenOver, InRequest, Ids
<1>11. NoOrphan'
    BY <1>2, <1>5 DEF NoOrphan, Responsible, OwnId, InRequest, Ids
<1> QED
    BY <1>6, <1>7, <1>8, <1>9, <1>10, <1>11

(* Settling a Future takes it out of every hand. *)
LEMMA SettleStep ==
    ASSUME ClientInv, NEW t \in Threads, NEW value \in FutureState \ {"waiting"},
           Settle(t, value), reader' \in ReaderPC,
           reader' # reader => t = Reader /\ reader = "resolve" /\ reader' = "receive",
           reader' = "resolve" => t # Reader,
           t # Reader => pc[t] = "failing",
           value = "lost" => closed \/ reader' = "failing"
    PROVE  ClientInv'
<1> USE DEF ClientInv, life
<1>1. /\ aim[t] # 0
      /\ future' = [future EXCEPT ![aim[t]] = value]
      /\ aim' = [aim EXCEPT ![t] = 0]
      /\ UNCHANGED <<lastId, pending, call, answer, taken, closed, initialized,
                     pc, connector>>
    BY DEF Settle
<1> DEFINE i == aim[t]
<1>2. i \in Ids /\ future[i] = "waiting" /\ Holds(t, i)
    BY <1>1 DEF ClientTypeOK, OpenInHand, Ids, Holds
<1>3. i \notin pending /\ \A u \in Threads : i \notin taken[u] /\ (u # t => aim[u] # i)
    BY <1>1, <1>2 DEF OneSettler, Hands, Holds
<1>4. ClientTypeOK'
    BY <1>1, <1>2 DEF ClientTypeOK, Ids, Threads
<1>5. OneSettler'
    BY <1>1, <1>2 DEF OneSettler, Holds, ClientTypeOK, Ids
<1>6. OpenInHand'
    BY <1>1, <1>2, <1>3 DEF OpenInHand, ClientTypeOK, Ids
<1>7. Hands'
    BY <1>1, <1>2, ClientAssumption DEF Hands, ClientTypeOK, Ids, Threads
<1>8. OwnId' /\ PendingIsLive' /\ ClosersClosed'
    BY <1>1 DEF OwnId, PendingIsLive, ClosersClosed, InRequest, Ids
<1>9. NoOrphan'
    <2> SUFFICES ASSUME NEW c \in Callers, InRequest(c), future'[call[c]] = "waiting"
                 PROVE  Responsible(call[c])'
        BY <1>1 DEF NoOrphan, InRequest
    <2>1. call[c] \in Ids /\ call[c] # i /\ future[call[c]] = "waiting"
        BY <1>1, <1>2 DEF OwnId, ClientTypeOK
    <2>2. Responsible(call[c])
        BY <2>1 DEF NoOrphan
    <2> QED
        BY <1>1, <2>1, <2>2 DEF Responsible, Holds, ClientTypeOK, Ids
<1>10. LostOnlyWhenOver'
    BY <1>1, <1>2 DEF LostOnlyWhenOver, ClientTypeOK, Ids
<1> QED
    BY <1>4, <1>5, <1>6, <1>7, <1>8, <1>9, <1>10

(* Clearing the table into a thread's empty hands. *)
LEMMA TakePendingStep ==
    ASSUME ClientInv, NEW t \in Threads, TakePending(t), taken[t] = {}, aim[t] = 0,
           UNCHANGED <<lastId, future, call, answer, aim, life>>,
           connector' = connector,
           IF t = Reader THEN pc' = pc /\ reader = "grab" /\ reader' = "failing"
           ELSE reader' = reader /\ pc[t] = "grab" /\ pc' = [pc EXCEPT ![t] = "failing"]
    PROVE  ClientInv'
<1> USE DEF ClientInv, life
<1>1. taken' = [taken EXCEPT ![t] = pending] /\ pending' = {}
    BY DEF TakePending
<1>2. pc' \in [Callers -> CallerPC] /\ reader' \in ReaderPC
    BY ClientAssumption DEF ClientTypeOK, Threads, CallerPC, ReaderPC
<1>3. \A c \in Callers : InRequest(c)' <=> InRequest(c)
    BY ClientAssumption DEF ClientTypeOK, InRequest, Threads
<1>4. ClientTypeOK'
    BY <1>1, <1>2 DEF ClientTypeOK, Ids, Threads
<1>5. \A u \in Threads, i \in Ids :
          Holds(u, i)' <=> (Holds(u, i) \/ (u = t /\ i \in pending))
    BY <1>1 DEF Holds, ClientTypeOK, Ids
<1>6. OneSettler'
    BY <1>1, <1>5 DEF OneSettler, ClientTypeOK, Ids
<1>7. OpenInHand'
    BY <1>1 DEF OpenInHand, ClientTypeOK, Ids
<1>8. Hands'
    BY <1>1, ClientAssumption DEF Hands, ClientTypeOK, Ids, Threads
<1>9. OwnId' /\ PendingIsLive'
    BY <1>1, <1>3 DEF OwnId, PendingIsLive, Ids
<1>10. NoOrphan'
    BY <1>1, <1>3, <1>5 DEF NoOrphan, Responsible, OwnId, Ids
<1>11. ClosersClosed' /\ LostOnlyWhenOver'
    BY <1>1, ClientAssumption DEF ClosersClosed, LostOnlyWhenOver, ClientTypeOK, Ids, Threads
<1> QED
    BY <1>4, <1>6, <1>7, <1>8, <1>9, <1>10, <1>11

(* The reader pops the Future a response is for. *)
LEMMA TakeAnswerStep ==
    ASSUME ClientInv, NEW i \in Ids, NEW kind \in AnswerKind, TakeAnswer(i, kind)
    PROVE  ClientInv'
<1> USE DEF ClientInv, life
<1>1. /\ reader = "receive" /\ reader' = "resolve" /\ i \in pending
      /\ pending' = pending \ {i}
      /\ taken' = [taken EXCEPT ![Reader] = {i}]
      /\ answer' = kind
      /\ UNCHANGED <<lastId, future, call, aim, closed, initialized, pc, connector>>
    BY DEF TakeAnswer
<1>2. Reader \in Threads /\ taken[Reader] = {} /\ aim[Reader] = 0
    BY <1>1 DEF Hands, Threads
<1>3. \A u \in Threads, j \in Ids :
          Holds(u, j)' <=> (Holds(u, j) \/ (u = Reader /\ j = i))
    BY <1>1, <1>2 DEF Holds, ClientTypeOK, Ids
<1>4. ClientTypeOK'
    BY <1>1, <1>2 DEF ClientTypeOK, Ids, Threads, ReaderPC
<1>5. OneSettler'
    BY <1>1, <1>3 DEF OneSettler, ClientTypeOK, Ids
<1>6. OpenInHand'
    BY <1>1 DEF OpenInHand, ClientTypeOK, Ids
<1>7. Hands'
    BY <1>1, <1>2, ClientAssumption DEF Hands, ClientTypeOK, Ids, Threads
<1>8. OwnId' /\ PendingIsLive' /\ ClosersClosed' /\ LostOnlyWhenOver'
    BY <1>1 DEF OwnId, PendingIsLive, ClosersClosed, LostOnlyWhenOver, InRequest, Ids
<1>9. NoOrphan'
    BY <1>1, <1>2, <1>3 DEF NoOrphan, Responsible, OwnId, InRequest, Ids
<1> QED
    BY <1>4, <1>5, <1>6, <1>7, <1>8, <1>9

(* request() takes its entry back and raises. *)
LEMMA ForgetStep ==
    ASSUME ClientInv, NEW c \in Callers, NEW at \in {"unsend", "expired"}, Forget(c, at)
    PROVE  ClientInv'
<1> USE DEF ClientInv, settling, life
<1>1. /\ pc[c] = at /\ pc' = [pc EXCEPT ![c] = "idle"]
      /\ connector' \in Callers \cup {Nobody}
      /\ pending' = pending \ {call[c]}
      /\ UNCHANGED <<lastId, future, call, answer, taken, aim, closed,
                     initialized, reader>>
    BY DEF Forget, Return, ClientTypeOK
<1>2. \A d \in Callers : InRequest(d)' <=> (InRequest(d) /\ d # c)
    BY <1>1 DEF ClientTypeOK, InRequest
<1>3. InRequest(c) /\ \A d \in Callers : d # c /\ InRequest(d) => call[d] # call[c]
    BY <1>1 DEF InRequest, OwnId
<1>4. ClientTypeOK'
    BY <1>1 DEF ClientTypeOK, Ids, CallerPC
<1>5. OneSettler' /\ OpenInHand'
    BY <1>1 DEF OneSettler, OpenInHand, Holds, Ids
<1>6. Hands'
    BY <1>1 DEF Hands, ClientTypeOK, Ids
<1>7. OwnId' /\ PendingIsLive'
    BY <1>1, <1>2, <1>3 DEF OwnId, PendingIsLive, Ids
<1>8. NoOrphan'
    BY <1>1, <1>2, <1>3 DEF NoOrphan, Responsible, Holds
<1>9. ClosersClosed' /\ LostOnlyWhenOver'
    BY <1>1 DEF ClosersClosed, LostOnlyWhenOver, ClientTypeOK, Ids
<1> QED
    BY <1>4, <1>5, <1>6, <1>7, <1>8, <1>9

(* A fresh id goes on the table. *)
LEMMA RegisterStep ==
    ASSUME ClientInv, NEW c \in Callers, Register(c)
    PROVE  ClientInv'
<1> USE DEF ClientInv, settling, life
<1> DEFINE n == lastId + 1
<1>1. /\ pc[c] = "register" /\ pc' = [pc EXCEPT ![c] = "send"]
      /\ lastId' = n
      /\ future' = [i \in 1 .. n |-> IF i \in Ids THEN future[i] ELSE "waiting"]
      /\ pending' = pending \cup {n}
      /\ call' = [call EXCEPT ![c] = n]
      /\ UNCHANGED <<answer, taken, aim, closed, initialized, connector, reader>>
    BY DEF Register, Goto
<1>2. n \in Nat /\ n \notin Ids /\ n # 0 /\ Ids' = Ids \cup {n} /\ Ids \subseteq Ids'
    BY <1>1 DEF ClientTypeOK, Ids
<1>3. future'[n] = "waiting" /\ \A i \in Ids : future'[i] = future[i]
    BY <1>1, <1>2 DEF Ids
<1>4. \A d \in Callers : InRequest(d)' <=> (InRequest(d) \/ d = c)
    BY <1>1 DEF ClientTypeOK, InRequest
<1>5. call'[c] = n /\ \A d \in Callers : d # c => call'[d] = call[d]
    BY <1>1 DEF ClientTypeOK
<1>6. ClientTypeOK'
    <2>1. future' \in [Ids' -> FutureState]
        BY <1>1, <1>2 DEF ClientTypeOK, FutureState, Ids
    <2>2. call' \in [Callers -> 0 .. n] /\ aim \in [Threads -> 0 .. n]
        BY <1>1, <1>2 DEF ClientTypeOK
    <2>3. pending' \subseteq Ids' /\ taken \in [Threads -> SUBSET Ids']
        BY <1>1, <1>2 DEF ClientTypeOK
    <2> QED
        BY <1>1, <1>2, <2>1, <2>2, <2>3 DEF ClientTypeOK, CallerPC, Threads
<1>7. OneSettler'
    BY <1>1, <1>2 DEF OneSettler, Holds, ClientTypeOK, Ids
<1>8. OpenInHand'
    BY <1>1, <1>2, <1>3 DEF OpenInHand, ClientTypeOK, Ids
<1>9. Hands'
    BY <1>1, <1>2 DEF Hands, ClientTypeOK
<1>10. OwnId'
    BY <1>2, <1>4, <1>5 DEF OwnId
<1>11. PendingIsLive'
    <2> SUFFICES ASSUME NEW i \in pending'
                 PROVE  \E d \in Callers : InRequest(d)' /\ call'[d] = i
        BY DEF PendingIsLive
    <2>1. CASE i = n
        BY <1>4, <1>5, <2>1
    <2>2. CASE i \in pending
        <3>1. PICK d \in Callers : InRequest(d) /\ call[d] = i
            BY <2>2 DEF PendingIsLive
        <3>2. d # c
            BY <1>1, <3>1 DEF InRequest
        <3> QED
            BY <1>4, <1>5, <3>1, <3>2
    <2> QED
        BY <1>1, <2>1, <2>2
<1>12. NoOrphan'
    BY <1>1, <1>2, <1>3, <1>4, <1>5 DEF NoOrphan, Responsible, Holds, OwnId
<1>13. ClosersClosed' /\ LostOnlyWhenOver'
    BY <1>1, <1>2, <1>3 DEF ClosersClosed, LostOnlyWhenOver, ClientTypeOK
<1> QED
    BY <1>6, <1>7, <1>8, <1>9, <1>10, <1>11, <1>12, <1>13

-----------------------------------------------------------------------------
(* Every step of a caller preserves the invariant ... *)
LEMMA CallerPreserves ==
    ASSUME ClientInv, NEW c \in Callers, CallerStep(c)
    PROVE  ClientInv'
<1> USE DEF CallerPC, ReaderPC, RequestPC
<1>1. CASE PassClosed(c)
    BY <1>1, MoveStep DEF PassClosed
<1>2. CASE HandshakeAnswered(c)
    BY <1>2, MoveStep DEF HandshakeAnswered
<1>3. CASE Expire(c)
    BY <1>3, MoveStep DEF Expire
<1>4. CASE VersionOk(c)
    BY <1>4, MoveStep DEF VersionOk
<1>5. CASE VersionBad(c)
    BY <1>5, MoveStep DEF VersionBad
<1>6. CASE NotYetClosed(c)
    BY <1>6, MoveStep DEF NotYetClosed
<1>7. CASE CallTool(c)
    BY <1>7, MoveStep DEF CallTool
<1>8. CASE BeginClose(c)
    BY <1>8, MoveStep DEF BeginClose
<1>9. CASE SendOk(c)
    BY <1>9, MoveStep DEF SendOk
<1>10. CASE SendFails(c)
    BY <1>10, MoveStep DEF SendFails
<1>11. CASE NotifyOk(c)
    BY <1>11, MoveStep DEF NotifyOk
<1>12. CASE Teardown(c)
    BY <1>12, MoveStep DEF Teardown, OnlyMoves, Goto, ClientInv, ClosersClosed
<1>13. CASE RefuseClosed(c)
    BY <1>13, ReturnStep DEF RefuseClosed, OnlyReturns, life, ClientInv, ClientTypeOK
<1>14. CASE Answered(c)
    BY <1>14, ReturnStep DEF Answered, OnlyReturns, life, ClientInv, ClientTypeOK
<1>15. CASE NotifyFails(c)
    BY <1>15, ReturnStep DEF NotifyFails, OnlyReturns, life, ClientInv, ClientTypeOK
<1>25. CASE NoVersion(c)
    BY <1>25, ReturnStep DEF NoVersion, OnlyReturns, life, ClientInv, ClientTypeOK
<1>16. CASE AlreadyClosed(c)
    BY <1>16, ReturnStep DEF AlreadyClosed, OnlyReturns, life, ClientInv, ClientTypeOK
<1>17. CASE CloserDone(c)
    BY <1>17, ReturnStep DEF CloserDone, OnlyReturns, life, ClientInv, ClientTypeOK
<1>18. CASE Ready(c)
    BY <1>18, ReturnStep DEF Ready
<1>19. CASE Register(c)
    BY <1>19, RegisterStep
<1>20. CASE Unsend(c) \/ TimedOut(c)
    BY <1>20, ForgetStep DEF Unsend, TimedOut
<1>21. CASE Connect(c) \/ Shut(c)
    BY <1>21, QuietStep
    DEF Connect, Shut, Goto, life, table, settling, InRequest, ClientInv, ClientTypeOK,
        Hands, ClosersClosed
<1>22. CASE CloserTakes(c)
    BY <1>22, TakePendingStep, ClientAssumption
    DEF CloserTakes, Goto, life, ClientInv, ClientTypeOK, Hands, Threads
<1>23. CASE CloserTests(c)
    BY <1>23, TestStep DEF CloserTests, Threads
<1>24. CASE CloserFails(c)
    BY <1>24, SettleStep, ClientAssumption
    DEF CloserFails, Settle, FutureState, AnswerKind, Threads, ClientInv, ClientTypeOK,
        ClosersClosed
<1> QED
    BY <1>1, <1>2, <1>3, <1>4, <1>5, <1>6, <1>7, <1>8, <1>9, <1>10, <1>11, <1>12, <1>13, <1>14, <1>15, <1>16, <1>17, <1>18, <1>19, <1>20, <1>21, <1>22, <1>23, <1>24, <1>25 DEF CallerStep, CallerLocal

(* ... and every step of the reader thread. *)
LEMMA ReaderPreserves == ClientInv /\ ReaderStep => ClientInv'
<1> SUFFICES ASSUME ClientInv, ReaderStep PROVE ClientInv'
    OBVIOUS
<1> USE DEF ReaderPC
<1>1. CASE \E i \in Ids, kind \in AnswerKind : TakeAnswer(i, kind)
    BY <1>1, TakeAnswerStep
<1>2. CASE ReaderTests
    BY <1>2, TestStep DEF ReaderTests, Threads
<1>3. CASE Resolve
    BY <1>3, SettleStep DEF Resolve, Settle, FutureState, AnswerKind, Threads, ClientInv, ClientTypeOK
<1>4. CASE ReaderTakes
    BY <1>4, TakePendingStep, ClientAssumption
    DEF ReaderTakes, life, ClientInv, ClientTypeOK, Hands, Threads
<1>5. CASE ReaderFails
    BY <1>5, SettleStep, ClientAssumption
    DEF ReaderFails, Settle, FutureState, AnswerKind, Threads, ClientInv, ClientTypeOK
<1>6. CASE ReaderDone
    BY <1>6, ReaderMoveStep DEF ReaderDone
<1>7. CASE Drop
    BY <1>7, QuietStep
    DEF Drop, clientVars, life, table, settling, InRequest, ClientInv, ClientTypeOK,
        Hands, ClosersClosed
<1>8. CASE TakeRequest \/ ReplyOk \/ EndOfStream \/ ReplyFails
    BY <1>8, ReaderMoveStep DEF TakeRequest, ReplyOk, EndOfStream, ReplyFails
<1> QED
    BY <1>1, <1>2, <1>3, <1>4, <1>5, <1>6, <1>7, <1>8 DEF ReaderStep, ReaderLocal

LEMMA ClientInvStep == ClientInv /\ [ClientNext]_clientVars => ClientInv'
<1> SUFFICES ASSUME ClientInv, [ClientNext]_clientVars PROVE ClientInv'
    OBVIOUS
<1>1. CASE UNCHANGED clientVars
    BY <1>1, QuietStep
    DEF clientVars, life, table, settling, InRequest, ClientInv, ClientTypeOK, Hands,
        ClosersClosed
<1> QED
    BY <1>1, CallerPreserves, ReaderPreserves DEF ClientNext

-----------------------------------------------------------------------------
(* The inductive invariant, and with it: type correctness, no Future due   *)
(* to be settled twice (_resolve against _fail_all_pending), no caller     *)
(* orphaned, no entry of _pending outliving its request, and "connection   *)
(* closed" told only once it is.                                           *)
THEOREM ClientSafety == ClientSpec => [](/\ ClientTypeOK /\ OneSettler /\ NoOrphan
                                        /\ PendingIsLive /\ LostOnlyWhenOver)
<1>1. ClientSpec => []ClientInv
    BY ClientInvInit, ClientInvStep, PTL DEF ClientSpec
<1>2. ClientInv => /\ ClientTypeOK /\ OneSettler /\ NoOrphan
                  /\ PendingIsLive /\ LostOnlyWhenOver
    BY DEF ClientInv
<1> QED
    BY <1>1, <1>2, PTL

(* A step never changes what a settled Future holds. *)
LEMMA SettledStep ==
    ASSUME ClientInv, [ClientNext]_clientVars,
           NEW i \in Ids, future[i] # "waiting"
    PROVE  future'[i] = future[i]
<1> USE DEF ClientInv, ClientTypeOK
<1>1. CASE future' = future
    BY <1>1
<1>2. ASSUME NEW c \in Callers, Register(c) PROVE future'[i] = future[i]
    BY <1>2 DEF Register, Ids
<1>3. ASSUME NEW t \in Threads, NEW value, Settle(t, value)
      PROVE  future'[i] = future[i]
    BY <1>3 DEF Settle, OpenInHand
<1>4. ASSUME NEW c \in Callers, CallerStep(c) PROVE future'[i] = future[i]
    BY <1>1, <1>2, <1>3, <1>4
    DEF CallerStep, CallerLocal, CallTool, Connect, BeginClose, SendOk, SendFails,
        NotifyOk, NotifyFails, Teardown, RefuseClosed, PassClosed, Unsend, Answered,
        HandshakeAnswered, Expire, TimedOut, VersionOk, VersionBad, NoVersion, Ready,
        AlreadyClosed, NotYetClosed, Shut, CloserTakes, CloserTests, CloserFails,
        CloserDone, Forget, TestNext, OnlyMoves, OnlyReturns, table, Threads
<1>5. CASE ReaderStep
    BY <1>1, <1>3, <1>5
    DEF ReaderStep, ReaderLocal, ReaderTests, Resolve, ReaderTakes, ReaderFails,
        ReaderDone, TakeAnswer, Drop, TakeRequest, ReplyOk, ReplyFails, EndOfStream,
        TestNext, ReaderMoves, table, clientVars, Threads
<1> QED
    BY <1>1, <1>4, <1>5 DEF ClientNext, clientVars, table

(* A late, duplicate or racing response or close() changes no outcome. *)
THEOREM ClientSettledOnce == ClientSpec => SettledOnce
<1>1. ClientSpec => []ClientInv
    BY ClientInvInit, ClientInvStep, PTL DEF ClientSpec
<1>2. ClientInv /\ [ClientNext]_clientVars
        => [\A i \in Ids : future[i] # "waiting" => future'[i] = future[i]]_clientVars
    BY SettledStep
<1> QED
    BY <1>1, <1>2, PTL DEF ClientSpec, SettledOnce
=============================================================================
