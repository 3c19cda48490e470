--------------------------- MODULE ConformanceProofs ---------------------------
(***************************************************************************)
(* The server over HTTP, for every cap, every number of sessions and of    *)
(* messages in its hands at once; the server on its pipes, for every line  *)
(* a client may send; and what the probe that shares no code with the host *)
(* may conclude from either.                                               *)
(***************************************************************************)
EXTENDS Conformance, FiniteSetTheorems, SequenceTheorems, WellFoundedInduction, TLAPS

-----------------------------------------------------------------------------
(***************************************************************************)
(* The HTTP server.                                                        *)
(***************************************************************************)

(* Where the handling of a message is says what was seen of its session.   *)
InHand(x) ==
    /\ at[x] = "tool" => Here(x) \in ready /\ job[x].message.kind = "request"
    /\ at[x] = "confirm" => Here(x) \in received /\ job[x].message.kind = "notification"
    /\ at[x] # "idle" => Here(x) \in Session

HttpInv ==
    /\ HttpTypeOK
    /\ HandshakeFirst
    /\ \A x \in Exchanges : InHand(x)
    /\ Capped
    /\ EvictedByNewer

(* A step of the handling answers the message, or goes on with it.         *)
Moves(x) ==
    \/ \E given \in Reply : Returns(x, given)
    \/ GoesOn(x, "tool") /\ Here(x) \in ready /\ job[x].message.kind = "request"
    \/ GoesOn(x, "confirm") /\ Here(x) \in received /\ job[x].message.kind = "notification"

-----------------------------------------------------------------------------
(* A set of sessions has an oldest one. *)
LEMMA Oldest ==
    ASSUME NEW n \in Nat, NEW S, S \subseteq 1 .. n, S # {}
    PROVE  Min(S) \in S /\ \A s \in S : Min(S) <= s
<1> DEFINE R == OpToRel(<, Nat)
<1>1. \A s \in Nat, t \in Nat : s < t => <<s, t>> \in R
    BY DEF OpToRel
<1>2. IsWellFoundedOn(R, Nat) /\ S \subseteq Nat
    BY NatLessThanWellFounded DEF OpToRel
<1> HIDE DEF R
<1>3. PICK s \in S : \A t \in S : <<t, s>> \notin R
    BY <1>2, WFMin
<1>4. ASSUME NEW t \in S PROVE s <= t
    <2>1. s \in Nat /\ t \in Nat /\ <<t, s>> \notin R
        BY <1>2, <1>3
    <2>2. ~ t < s
        BY <1>1, <2>1
    <2> QED
        BY <2>1, <2>2
<1> QED
    BY <1>4 DEF Min

(* What is left after an eviction has room for one more, and nothing but a *)
(* session with MaxSessions - 1 newer ones beside it in the table has gone. *)
LEMMA EvictMakesRoom ==
    ASSUME NEW n \in Nat, NEW S, S \subseteq 1 .. n, Cardinality(S) <= MaxSessions
    PROVE  /\ Evict(S) \subseteq S
           /\ IsFiniteSet(Evict(S)) /\ Cardinality(Evict(S)) + 1 <= MaxSessions
           /\ \A s \in S \ Evict(S) : s + MaxSessions <= n + 1
<1> USE HttpAssumption
<1>1. IsFiniteSet(S) /\ Cardinality(S) \in Nat
    <2>1. IsFiniteSet(1 .. n)
        BY FS_Interval
    <2>2. IsFiniteSet(S)
        BY <2>1, FS_Subset
    <2> QED
        BY <2>2, FS_CardinalityType
<1>2. CASE Cardinality(S) < MaxSessions
    <2>1. Evict(S) = S
        BY <1>1, <1>2 DEF Evict
    <2> QED
        BY <1>1, <1>2, <2>1
<1>3. CASE Cardinality(S) = MaxSessions
    <2>1. S # {}
        BY <1>1, <1>3, FS_EmptySet
    <2>2. Min(S) \in S /\ \A s \in S : Min(S) <= s
        BY <2>1, Oldest
    <2>3. Evict(S) = S \ {Min(S)}
        BY <1>1, <1>3 DEF Evict
    <2>4. IsFiniteSet(Evict(S)) /\ Cardinality(Evict(S)) = MaxSessions - 1
        BY <1>1, <1>3, <2>2, <2>3, FS_RemoveElement
    <2>5. Min(S) + MaxSessions <= n + 1
        <3> DEFINE m == Min(S)
        <3>0. m \in 1 .. n /\ \A s \in S : m <= s
            BY <2>2
        <3> HIDE DEF m
        <3>1. S \subseteq m .. n
            BY <3>0
        <3>2. IsFiniteSet(m .. n) /\ Cardinality(m .. n) = n - m + 1
            BY <3>0, FS_Interval
        <3>3. Cardinality(S) <= n - m + 1
            BY <3>1, <3>2, FS_Subset
        <3>4. m + MaxSessions <= n + 1
            BY <1>1, <1>3, <3>0, <3>3
        <3> QED
            BY <3>4 DEF m
    <2> QED
        BY <1>1, <2>3, <2>4, <2>5
<1> QED
    BY <1>1, <1>2, <1>3

-----------------------------------------------------------------------------
LEMMA HeededIs ==
    /\ Heeded["request"] = {"initialize", "ping", "tools/list", "tools/call"}
    /\ Heeded["notification"] = {"initialize", "notifications/initialized"}
    /\ Heeded["success"] = {} /\ Heeded["error"] = {} /\ Heeded["invalid"] = {"initialize"}
BY DEF Heeded

LEMMA NoJobType == NoJob \in [message : Message, session : {0}]
<1> DEFINE raw == [version |-> "bad", id |-> "absent", method |-> "absent",
                   params |-> "absent", result |-> "absent", error |-> "absent"]
<1>1. raw \in Raw
    BY DEF Raw, Method
<1>2. ~ Called(raw) /\ ~ Answers(raw) /\ raw.method = "absent"
    BY DEF Called, Answers
<1>3. Parse(raw) = "invalid"
    BY <1>2 DEF Parse
<1>4. Named(raw) = "other"
    BY <1>2, <1>3, HeededIs DEF Named
<1> HIDE DEF raw
<1>5. [kind |-> "invalid", method |-> "other"] \in Message
    BY <1>1, <1>3, <1>4 DEF Message
<1> QED
    BY <1>5 DEF NoJob

LEMMA HttpInvInit == HttpInit => HttpInv
<1> SUFFICES ASSUME HttpInit PROVE HttpInv
    OBVIOUS
<1> USE DEF HttpInit
<1>1. HttpTypeOK
    <2>1. job \in [Exchanges -> [message : Message, session : 0 .. created]]
        BY NoJobType
    <2>2. /\ status \in [Exchanges -> Status] /\ reply \in [Exchanges -> Reply]
          /\ odd \in [Exchanges -> {"nothing", "id", "text"}] /\ stained \in BOOLEAN
        BY DEF Status, Reply
    <2> QED
        BY <2>1, <2>2 DEF HttpTypeOK, Session
<1>2. \A x \in Exchanges : InHand(x)
    BY DEF InHand
<1>3. Capped
    BY FS_EmptySet, HttpAssumption DEF Capped
<1> QED
    BY <1>1, <1>2, <1>3 DEF HttpInv, HandshakeFirst, EvictedByNewer, Session

-----------------------------------------------------------------------------
(* A step that handles a message leaves the table alone, and answers it or *)
(* goes on; the handshake flags only go up, each after the one before it.  *)
LEMMA ExchangeStep ==
    ASSUME HttpInv, NEW x \in Exchanges,
           /\ received \subseteq received' /\ ready \subseteq ready' /\ served \subseteq served'
           /\ received' \subseteq Session /\ served' \subseteq ready' /\ ready' \subseteq received'
           /\ at[x] # "idle"
           /\ Moves(x)
           /\ UNCHANGED <<table, created, dropped>>
           /\ status' \in [Exchanges -> Status]
           /\ odd' \in [Exchanges -> {"nothing", "id", "text"}] /\ stained' \in BOOLEAN
    PROVE  HttpInv'
<1> USE DEF HttpInv
<1>1. Session' = Session
    BY DEF Session
<1>2. /\ at' \in [Exchanges -> {"idle", "handle", "tool", "confirm"}]
      /\ job' \in [Exchanges -> [message : Message, session : 0 .. created]]
      /\ reply' \in [Exchanges -> Reply]
    <2>1. /\ at \in [Exchanges -> {"idle", "handle", "tool", "confirm"}]
          /\ job \in [Exchanges -> [message : Message, session : 0 .. created]]
          /\ reply \in [Exchanges -> Reply] /\ created \in Nat
        BY DEF HttpTypeOK
    <2>2. NoJob \in [message : Message, session : 0 .. created]
        BY <2>1, NoJobType
    <2>3. CASE \E given \in Reply : Returns(x, given)
        BY <2>1, <2>2, <2>3 DEF Returns
    <2>4. CASE GoesOn(x, "tool") \/ GoesOn(x, "confirm")
        BY <2>1, <2>4 DEF GoesOn
    <2> QED
        BY <2>3, <2>4 DEF Moves
<1>3. HttpTypeOK'
    BY <1>1, <1>2 DEF HttpTypeOK, HandshakeFirst
<1>4. ASSUME NEW y \in Exchanges PROVE InHand(y)'
    <2>1. CASE y = x
        BY <1>1, <2>1 DEF InHand, Moves, Returns, GoesOn, HttpTypeOK, Here
    <2>2. CASE y # x
        <3>1. at'[y] = at[y] /\ job'[y] = job[y]
            BY <2>2 DEF Moves, Returns, GoesOn, HttpTypeOK
        <3> QED
            BY <1>1, <3>1 DEF InHand, Here
    <2> QED
        BY <2>1, <2>2
<1>5. Capped' /\ EvictedByNewer'
    BY <1>1 DEF Capped, EvictedByNewer
<1> QED
    BY <1>3, <1>4, <1>5 DEF HandshakeFirst

LEMMA HandlePreserves ==
    ASSUME HttpInv, NEW x \in Exchanges, Runs(x)
    PROVE  HttpInv'
<1> USE DEF HttpInv
<1>1. UNCHANGED <<table, created, dropped>>
    BY DEF Runs, registry
<1>2. /\ status' \in [Exchanges -> Status]
      /\ odd' \in [Exchanges -> {"nothing", "id", "text"}] /\ stained' \in BOOLEAN
    <2>1. Codes(x) \subseteq {200, 500}
        BY DEF Codes
    <2>2. \A code \in {200, 500} : Outcome(code, at'[x], reply'[x]) \in Status
        BY DEF Outcome, Status
    <2>3. \E c \in Status : status' = [status EXCEPT ![x] = c]
        BY <2>1, <2>2 DEF Runs
    <2>4. status \in [Exchanges -> Status] /\ odd \in [Exchanges -> {"nothing", "id", "text"}]
        BY DEF HttpTypeOK
    <2>5. odd' \in [Exchanges -> {"nothing", "id", "text"}]
        BY <2>4 DEF Runs
    <2>6. stained' \in BOOLEAN
        BY DEF Runs, HttpTypeOK
    <2> QED
        BY <2>3, <2>4, <2>5, <2>6
<1>3. received \subseteq Session /\ served \subseteq ready /\ ready \subseteq received
    BY DEF HttpTypeOK, HandshakeFirst
<1>4. at[x] # "idle" => Here(x) \in Session
    BY DEF InHand
<1>5. ASSUME HandleInvalid(x) \/ HandlePing(x) \/ HandleUnknown(x) \/ Ignore(x)
      PROVE  HttpInv'
    <2>1. /\ UNCHANGED <<received, ready, served>> /\ at[x] # "idle"
          /\ Moves(x)
        BY <1>5 DEF HandleInvalid, HandlePing, HandleUnknown, Ignore, Handles, Reply, Moves
    <2> QED
        BY <1>1, <1>2, <1>3, <2>1, ExchangeStep
<1>6. CASE HandleInitialize(x)
    <2>1. /\ received' = received \cup {Here(x)} /\ UNCHANGED <<ready, served>>
          /\ at[x] # "idle" /\ Moves(x)
        BY <1>6 DEF HandleInitialize, Handles, Reply, Moves
    <2> QED
        BY <1>1, <1>2, <1>3, <1>4, <2>1, ExchangeStep
<1>7. CASE RequireInitialized(x)
    <2>1. /\ UNCHANGED <<received, ready, served>> /\ at[x] # "idle"
          /\ Moves(x)
        BY <1>7 DEF RequireInitialized, Handles, Reply, Moves
    <2> QED
        BY <1>1, <1>2, <1>3, <2>1, ExchangeStep
<1>8. CASE RunTool(x)
    <2>1. /\ served' = served \cup {Here(x)} /\ UNCHANGED <<received, ready>>
          /\ at[x] = "tool" /\ Moves(x)
        BY <1>8 DEF RunTool, Reply, Moves
    <2>2. Here(x) \in ready /\ at[x] # "idle"
        BY <2>1 DEF InHand
    <2>3. /\ served \subseteq served' /\ served' \subseteq ready'
          /\ received' \subseteq Session /\ ready' \subseteq received'
        BY <1>3, <2>1, <2>2
    <2> QED
        BY <1>1, <1>2, <2>1, <2>2, <2>3, ExchangeStep
<1>9. CASE HandleInitialized(x)
    <2>1. /\ UNCHANGED <<received, ready, served>> /\ at[x] # "idle"
          /\ Moves(x)
        BY <1>9 DEF HandleInitialized, Handles, Reply, Moves
    <2> QED
        BY <1>1, <1>2, <1>3, <2>1, ExchangeStep
<1>10. CASE Confirm(x)
    <2>1. /\ ready' = ready \cup {Here(x)} /\ UNCHANGED <<received, served>>
          /\ at[x] = "confirm" /\ Moves(x)
        BY <1>10 DEF Confirm, Reply, Moves
    <2>2. Here(x) \in received /\ at[x] # "idle"
        BY <2>1 DEF InHand
    <2>3. /\ ready \subseteq ready' /\ ready' \subseteq received'
          /\ received' \subseteq Session /\ served' \subseteq ready'
        BY <1>3, <2>1, <2>2
    <2> QED
        BY <1>1, <1>2, <2>1, <2>2, <2>3, ExchangeStep
<1> QED
    BY <1>5, <1>6, <1>7, <1>8, <1>9, <1>10 DEF Runs, HandleMessage

(* The endpoint answers by itself: only a DELETE touches the table. *)
LEMMA AnswerPreserves ==
    ASSUME HttpInv, NEW x \in Exchanges, NEW code \in {204, 400, 404, 500},
           NEW given \in {"nothing", "rpcError"}, Answer(x, code, given),
           \/ UNCHANGED <<table, dropped>>
           \/ \E s \in table : table' = table \ {s} /\ dropped' = dropped \cup {s}
    PROVE  HttpInv'
<1> USE DEF HttpInv
<1>1. /\ UNCHANGED <<received, ready, served, created, at, job, odd, stained>>
      /\ Session' = Session
      /\ reply' \in [Exchanges -> Reply]
      /\ status' \in [Exchanges -> Status]
    BY DEF Answer, netops, Session, HttpTypeOK, Reply, Status
<1>2. /\ table' \subseteq table /\ dropped \subseteq dropped' /\ dropped' \subseteq Session
      /\ table' \cap dropped' = {} /\ table \ table' \subseteq dropped'
    BY DEF HttpTypeOK, EvictedByNewer
<1>3. HttpTypeOK'
    BY <1>1, <1>2 DEF HttpTypeOK
<1>4. ASSUME NEW y \in Exchanges PROVE InHand(y)'
    <2>1. InHand(y)
        OBVIOUS
    <2> QED
        BY <1>1, <2>1 DEF InHand, Here
<1>5. Capped'
    <2>0. created \in Nat /\ table \subseteq 1 .. created
        BY DEF HttpTypeOK, Session
    <2>1. IsFiniteSet(table)
        <3>1. IsFiniteSet(1 .. created)
            BY <2>0, FS_Interval
        <3> QED
            BY <2>0, <3>1, FS_Subset
    <2>2. /\ Cardinality(table') <= Cardinality(table)
          /\ Cardinality(table) \in Nat /\ Cardinality(table') \in Nat
        BY <1>2, <2>1, FS_Subset, FS_CardinalityType
    <2> QED
        BY <2>2, HttpAssumption DEF Capped
<1>6. EvictedByNewer'
    BY <1>1, <1>2 DEF EvictedByNewer
<1> QED
    BY <1>1, <1>3, <1>4, <1>5, <1>6 DEF HandshakeFirst

(* A message goes to its session, old or new. *)
LEMMA HandOverPreserves ==
    ASSUME HttpInv, NEW x \in Exchanges, NEW m \in Message, NEW s \in 1 .. created',
           HandOver(x, m, s), created' \in Nat, created <= created',
           table' \subseteq 1 .. created', table' \cap dropped = {},
           Capped', EvictedByNewer'
    PROVE  HttpInv'
<1> USE DEF HttpInv
<1>1. created \in Nat /\ Session \subseteq Session'
    BY DEF HttpTypeOK, Session
<1>2. /\ UNCHANGED <<received, ready, served, dropped>>
      /\ at' = [at EXCEPT ![x] = "handle"]
      /\ job' = [job EXCEPT ![x] = [message |-> m, session |-> s]]
      /\ reply' = [reply EXCEPT ![x] = "none"]
      /\ status' = [status EXCEPT ![x] = 0] /\ stained' = stained
    BY DEF HandOver, netops
<1>3. job' \in [Exchanges -> [message : Message, session : 0 .. created']]
    <2>1. job \in [Exchanges -> [message : Message, session : 0 .. created']]
        BY <1>1 DEF HttpTypeOK
    <2>2. [message |-> m, session |-> s] \in [message : Message, session : 0 .. created']
        OBVIOUS
    <2> QED
        BY <1>2, <2>1, <2>2
<1>4. /\ at' \in [Exchanges -> {"idle", "handle", "tool", "confirm"}]
      /\ reply' \in [Exchanges -> Reply]
      /\ status' \in [Exchanges -> Status] /\ stained' \in BOOLEAN
    BY <1>2 DEF HttpTypeOK, Reply, Status
<1>41. odd' \in [Exchanges -> {"nothing", "id", "text"}]
    <2>1. Odd(m) \subseteq {"nothing", "id", "text"}
        BY DEF Odd
    <2>2. \E part \in {"nothing", "id", "text"} : odd' = [odd EXCEPT ![x] = part]
        BY <2>1 DEF HandOver
    <2> QED
        BY <2>2 DEF HttpTypeOK
<1>5. /\ received' \subseteq Session' /\ ready' \subseteq Session' /\ served' \subseteq Session'
      /\ dropped' \subseteq Session' /\ table' \subseteq Session'
    BY <1>1, <1>2 DEF HttpTypeOK, Session
<1>6. HttpTypeOK'
    BY <1>3, <1>4, <1>41, <1>5 DEF HttpTypeOK
<1>7. ASSUME NEW y \in Exchanges PROVE InHand(y)'
    <2>1. CASE y = x
        BY <1>2, <2>1 DEF InHand, Here, Session, HttpTypeOK
    <2>2. CASE y # x
        <3>1. at'[y] = at[y] /\ job'[y] = job[y]
            BY <1>2, <2>2 DEF HttpTypeOK
        <3> QED
            BY <1>1, <1>2, <3>1 DEF InHand, Here
    <2> QED
        BY <2>1, <2>2
<1> QED
    BY <1>2, <1>6, <1>7 DEF HandshakeFirst

LEMMA NewSessionPreserves ==
    ASSUME HttpInv, NEW x \in Exchanges, NEW m \in Message, ToNewSession(x, m)
    PROVE  HttpInv'
<1> USE DEF HttpInv
<1> DEFINE n == created + 1
<1>1. /\ created \in Nat /\ created' = n /\ HandOver(x, m, n)
      /\ table' = Evict(table) \cup {n} /\ dropped' = dropped
    BY DEF ToNewSession, HandOver, HttpTypeOK
<1>0. table \subseteq 1 .. created /\ dropped \subseteq 1 .. created
    BY DEF HttpTypeOK, Session
<1>2. /\ Evict(table) \subseteq table
      /\ IsFiniteSet(Evict(table)) /\ Cardinality(Evict(table)) + 1 <= MaxSessions
      /\ \A s \in table \ Evict(table) : s + MaxSessions <= created + 1
    BY <1>0, <1>1, EvictMakesRoom DEF Capped
<1>3. table' \subseteq 1 .. created' /\ table' \cap dropped = {}
    <2>1. table \cap dropped = {} /\ n \notin dropped
        BY <1>0, <1>1 DEF EvictedByNewer
    <2>2. n \in 1 .. created' /\ 1 .. created \subseteq 1 .. created'
        BY <1>1
    <2> QED
        BY <1>0, <1>1, <1>2, <2>1, <2>2
<1>4. Capped'
    <2>1. n \notin Evict(table)
        BY <1>0, <1>1, <1>2
    <2>2. Cardinality(table') = Cardinality(Evict(table)) + 1
        BY <1>1, <1>2, <2>1, FS_AddElement
    <2> QED
        BY <1>2, <2>2 DEF Capped
<1>5. EvictedByNewer'
    <2>1. ASSUME NEW s \in Session', s \notin table', s \notin dropped'
          PROVE  created' >= s + MaxSessions
        <3>1. s \in 1 .. created /\ s \notin dropped /\ s \notin Evict(table)
            BY <1>1, <2>1 DEF Session
        <3>2. CASE s \in table
            BY <1>1, <1>2, <3>1, <3>2, HttpAssumption
        <3>3. CASE s \notin table
            <4>1. created >= s + MaxSessions
                BY <3>1, <3>3 DEF EvictedByNewer, Session
            <4> QED
                BY <1>1, <3>1, <4>1, HttpAssumption
        <3> QED
            BY <3>2, <3>3
    <2> QED
        BY <1>1, <1>3, <2>1 DEF EvictedByNewer
<1>6. n \in 1 .. created' /\ created' \in Nat /\ created <= created'
    BY <1>1
<1> QED
    BY <1>1, <1>3, <1>4, <1>5, <1>6, HandOverPreserves

LEMMA ArrivesPreserves ==
    ASSUME HttpInv, NEW x \in Exchanges, Arrives(x)
    PROVE  HttpInv'
<1>1. ASSUME NEW m \in Message, ToNewSession(x, m) PROVE HttpInv'
    BY <1>1, NewSessionPreserves
<1>2. ASSUME NEW m \in Message, NEW s \in 0 .. created, ToSession(x, m, s) PROVE HttpInv'
    <2>1. /\ HandOver(x, m, s) /\ UNCHANGED <<table, created, dropped>> /\ s \in table
          /\ created \in Nat /\ table \subseteq 1 .. created
        BY <1>2 DEF ToSession, HandOver, HttpInv, HttpTypeOK, Session
    <2>2. /\ s \in 1 .. created' /\ created' \in Nat /\ created <= created'
          /\ table' \subseteq 1 .. created'
        BY <2>1
    <2>3. Capped' /\ EvictedByNewer' /\ table' \cap dropped = {}
        BY <2>1 DEF HttpInv, Capped, EvictedByNewer, Session
    <2> QED
        BY <2>1, <2>2, <2>3, HandOverPreserves
<1>3. ASSUME BadRequest(x) \/ \E s \in 0 .. created : NoSession(x, s)
      PROVE  HttpInv'
    <2>1. /\ \/ Answer(x, 400, "rpcError") \/ Answer(x, 404, "rpcError")
             \/ Answer(x, 500, "nothing")
          /\ UNCHANGED <<table, dropped>>
        BY <1>3 DEF BadRequest, NoSession, Error
    <2> QED
        BY <2>1, AnswerPreserves
<1>4. ASSUME NEW s \in 0 .. created, EndSession(x, s) \/ EndUnknown(x, s) PROVE HttpInv'
    <2>1. \/ Answer(x, 404, "nothing") /\ UNCHANGED <<table, dropped>>
          \/ /\ Answer(x, 204, "nothing")
             /\ s \in table /\ table' = table \ {s} /\ dropped' = dropped \cup {s}
        BY <1>4 DEF EndSession, EndUnknown
    <2> QED
        BY <2>1, AnswerPreserves
<1> QED
    BY <1>1, <1>2, <1>3, <1>4 DEF Arrives

LEMMA HttpInvStep == HttpInv /\ [HttpNext]_httpVars => HttpInv'
<1> SUFFICES ASSUME HttpInv, [HttpNext]_httpVars PROVE HttpInv'
    OBVIOUS
<1>1. CASE UNCHANGED httpVars
    <2>1. /\ UNCHANGED <<received, ready, served, at, job, reply, table, created, dropped, status,
                        odd, stained>>
          /\ Session' = Session
        BY <1>1 DEF httpVars, Session
    <2>2. ASSUME NEW x \in Exchanges PROVE InHand(x)'
        <3>1. InHand(x)
            BY DEF HttpInv
        <3> QED
            BY <2>1, <3>1 DEF InHand, Here
    <2>3. HttpTypeOK' /\ HandshakeFirst' /\ Capped' /\ EvictedByNewer'
        BY <2>1 DEF HttpInv, HttpTypeOK, HandshakeFirst, Capped, EvictedByNewer
    <2> QED
        BY <2>2, <2>3 DEF HttpInv
<1> QED
    BY <1>1, HandlePreserves, ArrivesPreserves DEF HttpNext

-----------------------------------------------------------------------------
(* Whatever is in flight, a tool is reached only behind both halves of the *)
(* handshake, in order; the table keeps to its cap, and nothing leaves it  *)
(* but by a DELETE or for MaxSessions newer sessions.                      *)
THEOREM HttpSafety == HttpSpec => [](HttpTypeOK /\ HandshakeFirst /\ Capped /\ EvictedByNewer)
<1>1. HttpSpec => []HttpInv
    BY HttpInvInit, HttpInvStep, PTL DEF HttpSpec
<1>2. HttpInv => HttpTypeOK /\ HandshakeFirst /\ Capped /\ EvictedByNewer
    BY DEF HttpInv
<1> QED
    BY <1>1, <1>2, PTL

LEMMA GoneStep ==
    HttpInv /\ [HttpNext]_httpVars => \A s \in Session \ table : s \notin table'
<1> SUFFICES ASSUME HttpInv, [HttpNext]_httpVars, NEW s \in Session, s \notin table
             PROVE  s \notin table'
    OBVIOUS
<1>1. created \in Nat /\ s \in 1 .. created
    BY DEF HttpInv, HttpTypeOK, Session
<1>2. ASSUME NEW x \in Exchanges, NEW m \in Message, ToNewSession(x, m)
      PROVE  s \notin table'
    <2>1. Evict(table) \subseteq table
        BY DEF Evict
    <2> QED
        BY <1>1, <1>2, <2>1 DEF ToNewSession
<1>3. ASSUME NEW x \in Exchanges, Runs(x) PROVE s \notin table'
    BY <1>3 DEF Runs, registry
<1>4. ASSUME NEW x \in Exchanges, Arrives(x) PROVE s \notin table'
    BY <1>2, <1>4 DEF Arrives, BadRequest, NoSession, Error, ToSession, EndSession, EndUnknown
<1>5. CASE UNCHANGED httpVars
    BY <1>5 DEF httpVars
<1> QED
    BY <1>3, <1>4, <1>5 DEF HttpNext

(* A session id that a client was told is gone is never honoured again.    *)
THEOREM HttpGoneStaysGone == HttpSpec => GoneStaysGone
<1>1. HttpSpec => []HttpInv
    BY HttpInvInit, HttpInvStep, PTL DEF HttpSpec
<1> QED
    BY <1>1, GoneStep, PTL DEF HttpSpec, GoneStaysGone

-----------------------------------------------------------------------------
LEMMA OwedStep ==
    ASSUME HttpInv, [HttpNext]_httpVars, NEW x \in Exchanges, at[x] # "idle", at'[x] = "idle"
    PROVE  CASE job[x].message.kind \in {"request", "invalid"} ->
                    /\ job[x].message.kind = "invalid" => reply'[x] = "rpcError"
                    /\ \/ status'[x] = 200
                       \/ status'[x] = 500 /\ odd[x] # "nothing"
                       \/ status'[x] = 500 /\ job[x].message.method = "tools/call" /\ stained
             [] OTHER -> status'[x] = 202
<1> DEFINE kind == job[x].message.kind
<1>1. /\ at \in [Exchanges -> {"idle", "handle", "tool", "confirm"}]
      /\ reply \in [Exchanges -> Reply]
      /\ status \in [Exchanges -> Status]
    BY DEF HttpInv, HttpTypeOK
<1>2. Runs(x)
    <2>1. ASSUME NEW y \in Exchanges, Arrives(y) PROVE at'[x] = at[x] \/ at'[x] # "idle"
        <3>1. UNCHANGED at \/ at' = [at EXCEPT ![y] = "handle"]
            BY <2>1 DEF Arrives, BadRequest, NoSession, Error, ToSession, ToNewSession,
                        EndSession, EndUnknown, Answer, HandOver
        <3> QED
            BY <1>1, <3>1
    <2>2. ASSUME NEW y \in Exchanges, Runs(y), y # x PROVE at'[x] = at[x]
        <3>1. \E to \in {"idle", "tool", "confirm"} : at' = [at EXCEPT ![y] = to]
            BY <2>2 DEF Runs, HandleMessage, HandleInvalid, HandleInitialize, HandlePing,
                        RequireInitialized, RunTool, HandleUnknown, HandleInitialized,
                        Confirm, Ignore, Returns, GoesOn
        <3> QED
            BY <1>1, <2>2, <3>1
    <2> QED
        BY <2>1, <2>2 DEF HttpNext, httpVars
<1>3. /\ reply'[x] = "nothing" => status'[x] = 202
      /\ reply'[x] # "nothing" /\ status'[x] # 200 =>
            status'[x] = 500 /\ (Unwritable(x) \/ PerhapsUnwritable(x))
    <2>1. \E code \in Codes(x) : status'[x] = Outcome(code, "idle", reply'[x])
        BY <1>1, <1>2 DEF Runs
    <2>2. \A code \in Codes(x) : code = 200 \/ (code = 500 /\ (Unwritable(x) \/ PerhapsUnwritable(x)))
        BY DEF Codes
    <2> QED
        BY <2>1, <2>2 DEF Outcome
<1>4. \/ kind = "request" /\ reply'[x] \in {"result", "rpcError"}
      \/ kind = "invalid" /\ reply'[x] = "rpcError"
      \/ kind \in {"notification", "success", "error"} /\ reply'[x] = "nothing"
    <2>1. InHand(x)
        BY DEF HttpInv
    <2>2. \A given : Returns(x, given) => reply'[x] = given
        BY <1>1 DEF Returns
    <2>3. \A to \in {"tool", "confirm"} : ~ GoesOn(x, to)
        BY <1>1 DEF GoesOn
    <2>4. CASE HandleInvalid(x)
        BY <2>2, <2>4 DEF HandleInvalid, Handles
    <2>5. CASE HandleInitialize(x) \/ HandlePing(x) \/ HandleUnknown(x)
        BY <2>2, <2>5 DEF HandleInitialize, HandlePing, HandleUnknown, Handles
    <2>6. CASE RequireInitialized(x)
        BY <2>2, <2>3, <2>6 DEF RequireInitialized, Handles
    <2>7. CASE RunTool(x)
        BY <2>1, <2>2, <2>7 DEF RunTool, InHand
    <2>8. CASE HandleInitialized(x) \/ Ignore(x)
        BY <2>2, <2>3, <2>8 DEF HandleInitialized, Ignore, Handles
    <2>9. CASE Confirm(x)
        BY <2>1, <2>2, <2>9 DEF Confirm, InHand
    <2> QED
        BY <1>2, <2>4, <2>5, <2>6, <2>7, <2>8, <2>9 DEF Runs, HandleMessage
<1>5. Unwritable(x) \/ PerhapsUnwritable(x) =>
          odd[x] # "nothing" \/ (job[x].message.method = "tools/call" /\ stained)
    BY DEF Unwritable, PerhapsUnwritable, RunsCall
<1> QED
    BY <1>3, <1>4, <1>5

(* Every message gets the answer it is owed, and only that one; no message *)
(* that can be written back loses its answer to what other clients have    *)
(* sent, but for a tools/call that may show a ticket of theirs.            *)
THEOREM HttpOwedAnswer == HttpSpec => OwedAnswer
<1>1. HttpSpec => []HttpInv
    BY HttpInvInit, HttpInvStep, PTL DEF HttpSpec
<1>2. HttpInv /\ [HttpNext]_httpVars =>
          \A x \in Exchanges : at[x] # "idle" /\ at'[x] = "idle" =>
              CASE job[x].message.kind \in {"request", "invalid"} ->
                      /\ job[x].message.kind = "invalid" => reply'[x] = "rpcError"
                      /\ \/ status'[x] = 200
                         \/ status'[x] = 500 /\ odd[x] # "nothing"
                         \/ status'[x] = 500 /\ job[x].message.method = "tools/call" /\ stained
                [] OTHER -> status'[x] = 202
    BY OwedStep
<1> QED
    BY <1>1, <1>2, PTL DEF HttpSpec, OwedAnswer

-----------------------------------------------------------------------------
(***************************************************************************)
(* The server on its pipes, and the probe.                                 *)
(***************************************************************************)
MessageOf(raw) == [kind |-> Parse(raw), method |-> Named(raw)]

(* What the pump has in its hands, while it has something. *)
Handling(raw, s) ==
    /\ job[Pump] = [message |-> MessageOf(raw), session |-> s]
    /\ at[Pump] = "tool" => Parse(raw) = "request" /\ raw.method \in {"tools/list", "tools/call"}
    /\ at[Pump] = "confirm" => Parse(raw) = "notification"
                               /\ raw.method = "notifications/initialized"

(* What a client of the pipes may send: any line, the script's among them. *)
Sendable == Line \cup {Script[n].line : n \in DOMAIN Script}

(* The pipes: the pump is busy with the line in its hands, and with no     *)
(* other.                                                                  *)
PipesInv ==
    /\ stdin \in Seq(Sendable) /\ stdout \in Seq([id : ValidId \cup {"null", "bad"}, body : Body])
    /\ at \in [Exchanges -> {"idle", "handle", "tool", "confirm"}]
    /\ job \in [Exchanges -> [message : Message, session : {0, 1}]]
    /\ reply \in [Exchanges -> Reply]
    /\ IF hand = NoLine THEN at[Pump] = "idle"
       ELSE /\ hand \in Sendable /\ hand.text = "envelope"
            /\ at[Pump] # "idle" /\ Handling(hand.raw, 1)

(* The lines the server has not dealt with. *)
Pending(lines) ==
    \/ hand = NoLine /\ stdin = lines
    \/ hand # NoLine /\ lines # <<>> /\ hand = Head(lines) /\ stdin = Tail(lines)

(* On its pipes the probe waits for one reply at a time, and it is the     *)
(* only thing that can come back; only the notification may still be       *)
(* before the server when the next message is sent.                        *)
Sequel(before) ==
    /\ step >= 3 => before # <<>> \/ 1 \in ready
    /\ before # <<>> => before = <<Script[2].line>> /\ step = 3
    /\ \/ ~waiting /\ stdout = <<>> /\ Pending(before)
       \/ waiting /\ stdout = <<>> /\ Pending(Append(before, Current.line))
       \/ /\ waiting /\ before = <<>> /\ Pending(<<>>) /\ 1 \in received
          /\ \E b \in Current.expected : stdout = <<[id |-> SomeId, body |-> b]>>

StdioInv ==
    /\ ~failed
    /\ step >= 2 => 1 \in received
    /\ waiting => phase = "script" /\ step # 2
    /\ phase # "script" => step = 9
    /\ \E before \in {<<>>, <<Script[2].line>>} : Sequel(before)

(* Over HTTP: the probe's session has been pushed out, or all is as the    *)
(* probe expects.                                                          *)
Gone == sid # 0 /\ sid \notin table \cup dropped

Posted ==
    IF at[Pump] = "idle"
    THEN /\ step = 1 => sid \in received
         /\ step = 2 => sid \in ready \/ Gone
         /\ HasReply => body \in Current.expected \/ Gone
    ELSE Handling(Current.line.raw, sid)

OverHttpInv ==
    /\ sid \in 0 .. created
    /\ sid # 0 <=> step >= 2 \/ waiting
    /\ step >= 2 => sid \in received
    /\ step >= 3 => sid \in ready \/ Gone
    /\ failed => Gone
    /\ IF phase = "script" /\ waiting THEN Posted ELSE at[Pump] = "idle"
    /\ phase # "script" => step = 9
    /\ phase \in {"script", "closing"} => sid \notin dropped
    /\ phase = "closing" => ~waiting
    /\ phase = "refused" => ~failed /\ sid \in dropped /\ (waiting => body = "invalid_request")
    /\ phase = "done" => failed \/ sid \in dropped

ConformanceInv ==
    /\ way \in {"stdio", "http", "lines"} /\ phase \in {"script", "closing", "refused", "done"}
    /\ step \in 1 .. 9 /\ waiting \in BOOLEAN
    /\ way = "http" => hand = NoLine /\ HttpInv /\ OverHttpInv
    /\ way # "http" => PipesInv
    /\ way = "stdio" => StdioInv
    /\ way = "lines" => ~failed

-----------------------------------------------------------------------------
(* What the probe sends, as parse_message sees it, and what it expects.    *)
LEMMA ScriptIs ==
    /\ Len(Script) = 9 /\ DOMAIN Script = 1 .. 9
    /\ Script[1] = Asks("initialize", {"result"})
    /\ Script[2] = [line |-> Envelope([Request("notifications/initialized", "absent")
                                         EXCEPT !.id = "absent"], Nameless), expected |-> {}]
    /\ Script[3] = Asks("ping", {"result"})
    /\ Script[4] = Asks("tools/list", {"result"})
    /\ Script[5] = CallsTool("lookup_account", Account("known"), {"result"})
    /\ Script[6] = CallsTool("lookup_account", Account("unknown"), {"isError"})
    /\ Script[7] = CallsTool("check_service_status", NoArguments, {"invalid_params"})
    /\ Script[8] = Asks("other", {"method_not_found"})
    /\ Script[9] = [line |-> Envelope(Request("tools/call", "bad"), Nameless),
                    expected |-> Body \ {"result", "isError"}]
BY DEF Script

LEMMA SomeIdIs == /\ SomeId \in Id /\ SomeId \in ValidId
                    /\ SomeId \notin {"absent", "null", "bad", "halved", "?"}
BY ConformanceAssumption, IdAssumption DEF SomeId, ValidId

(* The kinds of parse_message exclude each other. *)
LEMMA ParseIs ==
    ASSUME NEW raw
    PROVE  /\ Parse(raw) = "request" <=> Called(raw) /\ raw.id \in ValidId
           /\ Parse(raw) = "notification" <=> Called(raw) /\ raw.id = "absent"
           /\ Parse(raw) = "success" <=> Answers(raw) /\ raw.result = "given" /\ raw.id \in ValidId
           /\ Parse(raw) = "error" <=> Answers(raw) /\ raw.error = "object" /\ raw.id # "bad"
           /\ Parse(raw) \in {"request", "notification", "success", "error", "invalid"}
<1>1. Called(raw) => ~ Answers(raw)
    BY DEF Called, Answers, Method
<1>2. "absent" \notin ValidId
    BY IdAssumption DEF ValidId
<1>3. Answers(raw) /\ raw.result = "given" => raw.error # "object"
    BY DEF Answers
<1> HIDE DEF Called, Answers
<1> QED
    BY <1>1, <1>2, <1>3 DEF Parse

(* A request that is one. *)
LEMMA Asked ==
    ASSUME NEW method \in Method \ {"notifications/initialized"}, NEW params \in {"absent", "structured"}
    PROVE  /\ Request(method, params) \in Raw
           /\ MessageOf(Request(method, params)) = [kind |-> "request", method |-> method]
           /\ Request(method, params).id = SomeId
<1> DEFINE raw == Request(method, params)
<1>1. /\ raw \in Raw /\ raw.id = SomeId /\ raw.method = method /\ raw.version = "2.0"
      /\ raw.params = params
    BY SomeIdIs DEF Request, Raw
<1> HIDE DEF raw
<1>2. Parse(raw) = "request"
    BY <1>1, SomeIdIs, ParseIs DEF Called
<1>3. MessageOf(raw) = [kind |-> "request", method |-> method]
    BY <1>1, <1>2, HeededIs DEF MessageOf, Named, Method
<1> QED
    BY <1>1, <1>3 DEF raw

LEMMA Notified ==
    LET raw == [Request("notifications/initialized", "absent") EXCEPT !.id = "absent"]
    IN  /\ raw \in Raw
        /\ MessageOf(raw) = [kind |-> "notification", method |-> "notifications/initialized"]
<1> DEFINE raw == [Request("notifications/initialized", "absent") EXCEPT !.id = "absent"]
<1>1. /\ raw \in Raw /\ raw.id = "absent" /\ raw.method = "notifications/initialized"
      /\ raw.version = "2.0" /\ raw.params = "absent"
    BY DEF Request, Raw, Method
<1> HIDE DEF raw
<1>2. Parse(raw) = "notification"
    BY <1>1, ParseIs DEF Called, Method
<1>3. MessageOf(raw) = [kind |-> "notification", method |-> "notifications/initialized"]
    BY <1>1, <1>2, HeededIs DEF MessageOf, Named, Method
<1> QED
    BY <1>1, <1>3 DEF raw

LEMMA Malformed ==
    /\ Request("tools/call", "bad") \in Raw
    /\ MessageOf(Request("tools/call", "bad")) = [kind |-> "invalid", method |-> "other"]
    /\ Request("tools/call", "bad").id = SomeId
<1> DEFINE raw == Request("tools/call", "bad")
<1>1. /\ raw \in Raw /\ raw.id = SomeId /\ raw.method = "tools/call" /\ raw.params = "bad"
    BY SomeIdIs DEF Request, Raw, Method
<1> HIDE DEF raw
<1>2. Parse(raw) = "invalid"
    BY <1>1, ParseIs DEF Called, Answers
<1>3. MessageOf(raw) = [kind |-> "invalid", method |-> "other"]
    BY <1>1, <1>2, HeededIs DEF MessageOf, Named, Method
<1> QED
    BY <1>1, <1>3 DEF raw

(* What one message of the script is. *)
IsEnvelope(n, id, method) ==
    /\ Script[n].line.text = "envelope" /\ Script[n].line.raw \in Raw
    /\ Script[n].line.raw.id = id /\ Script[n].line.raw.method = method
    /\ Script[n].expected \subseteq Body

Expects(n, kind, method, call, expected) ==
    /\ IsEnvelope(n, SomeId, method)
    /\ MessageOf(Script[n].line.raw) =
           [kind |-> kind, method |-> IF kind = "request" THEN method ELSE "other"]
    /\ Script[n].line.call = call /\ Script[n].expected = expected

LEMMA ScriptLines ==
    /\ Expects(1, "request", "initialize", Nameless, {"result"})
    /\ IsEnvelope(2, "absent", "notifications/initialized")
    /\ MessageOf(Script[2].line.raw) =
          [kind |-> "notification", method |-> "notifications/initialized"]
    /\ Script[2].expected = {}
    /\ Expects(3, "request", "ping", Nameless, {"result"})
    /\ Expects(4, "request", "tools/list", Nameless, {"result"})
    /\ Expects(5, "request", "tools/call",
               [name |-> "lookup_account", arguments |-> Account("known")], {"result"})
    /\ Expects(6, "request", "tools/call",
               [name |-> "lookup_account", arguments |-> Account("unknown")], {"isError"})
    /\ Expects(7, "request", "tools/call",
               [name |-> "check_service_status", arguments |-> NoArguments], {"invalid_params"})
    /\ Expects(8, "request", "other", Nameless, {"method_not_found"})
    /\ Expects(9, "invalid", "tools/call", Nameless, Body \ {"result", "isError"})
<1>1. ASSUME NEW n, NEW method \in Method \ {"notifications/initialized"}, NEW params \in {"absent", "structured"},
             NEW call, NEW expected \in SUBSET Body,
             Script[n] = [line |-> Envelope(Request(method, params), call), expected |-> expected]
      PROVE  Expects(n, "request", method, call, expected)
    <2>1. Request(method, params).method = method
        BY DEF Request
    <2> QED
        BY <1>1, <2>1, Asked DEF Envelope, Expects, IsEnvelope
<1>2. {"result"} \in SUBSET Body /\ {"isError"} \in SUBSET Body
      /\ {"invalid_params"} \in SUBSET Body /\ {"method_not_found"} \in SUBSET Body
    BY DEF Body
<1>3. Expects(1, "request", "initialize", Nameless, {"result"})
    BY <1>1, <1>2, ScriptIs DEF Asks, Method
<1>4. Expects(3, "request", "ping", Nameless, {"result"})
    BY <1>1, <1>2, ScriptIs DEF Asks, Method
<1>5. Expects(4, "request", "tools/list", Nameless, {"result"})
    BY <1>1, <1>2, ScriptIs DEF Asks, Method
<1>6. Expects(5, "request", "tools/call",
              [name |-> "lookup_account", arguments |-> Account("known")], {"result"})
    BY <1>1, <1>2, ScriptIs DEF CallsTool, Method
<1>7. Expects(6, "request", "tools/call",
              [name |-> "lookup_account", arguments |-> Account("unknown")], {"isError"})
    BY <1>1, <1>2, ScriptIs DEF CallsTool, Method
<1>8. Expects(7, "request", "tools/call",
              [name |-> "check_service_status", arguments |-> NoArguments], {"invalid_params"})
    BY <1>1, <1>2, ScriptIs DEF CallsTool, Method
<1>9. Expects(8, "request", "other", Nameless, {"method_not_found"})
    BY <1>1, <1>2, ScriptIs DEF Asks, Method
<1>10. Expects(9, "invalid", "tools/call", Nameless, Body \ {"result", "isError"})
    <2>1. Request("tools/call", "bad").method = "tools/call"
        BY DEF Request
    <2> QED
        BY <2>1, ScriptIs, Malformed DEF Envelope, Expects, IsEnvelope
<1>11. /\ IsEnvelope(2, "absent", "notifications/initialized") /\ Script[2].expected = {}
       /\ MessageOf(Script[2].line.raw) =
             [kind |-> "notification", method |-> "notifications/initialized"]
    <2> DEFINE raw == [Request("notifications/initialized", "absent") EXCEPT !.id = "absent"]
    <2>1. raw.id = "absent" /\ raw.method = "notifications/initialized"
        BY DEF Request
    <2>2. Script[2] = [line |-> Envelope(raw, Nameless), expected |-> {}]
        BY ScriptIs
    <2>3. raw \in Raw /\ MessageOf(raw) =
              [kind |-> "notification", method |-> "notifications/initialized"]
        BY Notified
    <2> HIDE DEF raw
    <2> QED
        BY <2>1, <2>2, <2>3 DEF Envelope, IsEnvelope
<1> QED
    BY <1>3, <1>4, <1>5, <1>6, <1>7, <1>8, <1>9, <1>10, <1>11

(* How the script's calls end. *)
LEMMA ScriptCalls ==
    /\ Ends([name |-> "lookup_account", arguments |-> Account("known")]) = {"result"}
    /\ Ends([name |-> "lookup_account", arguments |-> Account("unknown")]) = {"isError"}
    /\ Ends([name |-> "check_service_status", arguments |-> NoArguments]) = {"invalid_params"}
<1>1. ASSUME NEW value \in {"known", "unknown"}
      PROVE  Dispatch([name |-> "lookup_account", arguments |-> Account(value)]) =
                 IF value = "known" THEN "result" ELSE "isError"
    <2> DEFINE args == Account(value)
    <2>1. /\ DOMAIN args = {"account_id"} /\ args["account_id"] = value
          /\ args # NotAnObject
        <3>1. DOMAIN args = {"account_id"} /\ args["account_id"] = value
            BY DEF Account
        <3>2. DOMAIN NotAnObject = {"arguments"}
            BY DEF NotAnObject
        <3> QED
            BY <3>1, <3>2
    <2> HIDE DEF args
    <2>2. "lookup_account" \in Tool /\ Required["lookup_account"] = {}
        BY DEF Tool, Required, Properties
    <2>3. Keywords["account_id"] = {"type", "minLength"}
        BY DEF Keywords
    <2>4. Valid("lookup_account", args)
        BY <2>1, <2>2, <2>3 DEF Valid
    <2>5. OneOf(args) = {"account_id"}
        BY <2>1 DEF OneOf
    <2>6. Cardinality(OneOf(args)) = 1 /\ (CHOOSE name \in OneOf(args) : TRUE) = "account_id"
        BY <2>5, FS_Singleton
    <2>7. Handler("lookup_account", args) = Find("account_id", args, "result")
        BY <2>6 DEF Handler
    <2>8. Find("account_id", args, "result") = IF value = "known" THEN "result" ELSE "isError"
        BY <2>1 DEF Find, Text
    <2> QED
        BY <2>2, <2>4, <2>7, <2>8 DEF Dispatch, args
<1>2. Dispatch([name |-> "check_service_status", arguments |-> NoArguments]) = "invalid_params"
    <2>1. DOMAIN NoArguments = {}
        BY DEF NoArguments
    <2>2. "account_id" \in Required["check_service_status"]
        BY DEF Required, Properties
    <2>3. ~ Valid("check_service_status", NoArguments)
        BY <2>1, <2>2 DEF Valid
    <2> QED
        BY <2>3 DEF Dispatch
<1> QED
    BY <1>1, <1>2 DEF Ends, Saves

-----------------------------------------------------------------------------
(* One step with the message in the pump's hands: a request is answered in *)
(* the end, an invalid message refused, and nothing else is said.          *)
Owed(raw) ==
    CASE Parse(raw) = "request" -> {"result", "rpcError"}
      [] Parse(raw) = "invalid" -> {"rpcError"}
      [] OTHER -> {"nothing"}

LEMMA PumpStep ==
    ASSUME NEW raw, NEW s, NEW J, NoJob \in J, job \in [Exchanges -> J],
           at \in [Exchanges -> {"idle", "handle", "tool", "confirm"}],
           reply \in [Exchanges -> Reply],
           at[Pump] # "idle", Handling(raw, s), HandleMessage(Pump)
    PROVE  /\ job' \in [Exchanges -> J]
           /\ at' \in [Exchanges -> {"idle", "handle", "tool", "confirm"}]
           /\ reply' \in [Exchanges -> Reply]
           /\ received \subseteq received' /\ ready \subseteq ready'
           /\ at'[Pump] = "idle" => reply'[Pump] \in Owed(raw)
           /\ at'[Pump] # "idle" => Handling(raw, s)' /\ at'[Pump] # at[Pump]
<1> DEFINE kind == Parse(raw)
           method == Named(raw)
<1>1. /\ Pump \in Exchanges /\ job[Pump].message.kind = kind /\ job[Pump].message.method = method
      /\ method # "other" => method = raw.method
    BY StdioServerAssumption DEF Handling, MessageOf, Named
<1>2. kind \in {"request", "notification", "success", "error", "invalid"}
    BY ParseIs
<1>3. ASSUME NEW given \in Reply, Returns(Pump, given), given \in Owed(raw)
      PROVE  /\ job' \in [Exchanges -> J]
             /\ at' \in [Exchanges -> {"idle", "handle", "tool", "confirm"}]
             /\ reply' \in [Exchanges -> Reply]
             /\ at'[Pump] = "idle" /\ reply'[Pump] \in Owed(raw)
    BY <1>1, <1>3 DEF Returns
<1>4. ASSUME NEW to \in {"tool", "confirm"}, GoesOn(Pump, to), at[Pump] = "handle",
             to = "tool" => kind = "request" /\ method \in {"tools/list", "tools/call"},
             to = "confirm" => kind = "notification" /\ method = "notifications/initialized"
      PROVE  /\ job' \in [Exchanges -> J]
             /\ at' \in [Exchanges -> {"idle", "handle", "tool", "confirm"}]
             /\ reply' \in [Exchanges -> Reply]
             /\ at'[Pump] = to /\ Handling(raw, s)'
    BY <1>1, <1>4 DEF GoesOn, Handling
<1>5. CASE HandleInvalid(Pump)
    <2>1. Returns(Pump, "rpcError") /\ kind = "invalid"
        BY <1>1, <1>5 DEF HandleInvalid, Handles
    <2>2. "rpcError" \in Owed(raw) /\ "rpcError" \in Reply
        BY <2>1 DEF Owed, Reply
    <2> QED
        BY <1>3, <1>5, <2>1, <2>2 DEF HandleInvalid
<1>6. CASE HandleInitialize(Pump) \/ HandlePing(Pump)
    <2>1. Returns(Pump, "result") /\ kind = "request"
        BY <1>1, <1>6 DEF HandleInitialize, HandlePing, Handles
    <2>2. "result" \in Owed(raw) /\ "result" \in Reply
        BY <2>1 DEF Owed, Reply
    <2> QED
        BY <1>3, <1>6, <2>1, <2>2 DEF HandleInitialize, HandlePing
<1>7. CASE HandleUnknown(Pump)
    <2>1. Returns(Pump, "rpcError") /\ kind = "request"
        BY <1>1, <1>7 DEF HandleUnknown, Handles
    <2>2. "rpcError" \in Owed(raw) /\ "rpcError" \in Reply
        BY <2>1 DEF Owed, Reply
    <2> QED
        BY <1>3, <1>7, <2>1, <2>2 DEF HandleUnknown
<1>8. CASE RequireInitialized(Pump)
    <2>1. /\ kind = "request" /\ method \in {"tools/list", "tools/call"} /\ at[Pump] = "handle"
          /\ GoesOn(Pump, "tool") \/ Returns(Pump, "rpcError")
        BY <1>1, <1>8 DEF RequireInitialized, Handles
    <2>2. "rpcError" \in Owed(raw) /\ "rpcError" \in Reply
        BY <2>1 DEF Owed, Reply
    <2>3. CASE GoesOn(Pump, "tool")
        BY <1>4, <1>8, <2>1, <2>3 DEF RequireInitialized
    <2>4. CASE Returns(Pump, "rpcError")
        BY <1>3, <1>8, <2>2, <2>4 DEF RequireInitialized
    <2> QED
        BY <2>1, <2>3, <2>4
<1>9. CASE RunTool(Pump)
    <2>1. /\ kind = "request"
          /\ Returns(Pump, "result") \/ Returns(Pump, "rpcError")
        BY <1>1, <1>9 DEF RunTool, Handling
    <2>2. {"result", "rpcError"} \subseteq Owed(raw) /\ {"result", "rpcError"} \subseteq Reply
        BY <2>1 DEF Owed, Reply
    <2> QED
        BY <1>3, <1>9, <2>1, <2>2 DEF RunTool
<1>10. CASE HandleInitialized(Pump)
    <2>1. /\ kind = "notification" /\ method = "notifications/initialized" /\ at[Pump] = "handle"
          /\ GoesOn(Pump, "confirm") \/ Returns(Pump, "nothing")
        BY <1>1, <1>10 DEF HandleInitialized, Handles
    <2>2. "nothing" \in Owed(raw) /\ "nothing" \in Reply
        BY <2>1 DEF Owed, Reply
    <2>3. CASE GoesOn(Pump, "confirm")
        BY <1>4, <1>10, <2>1, <2>3 DEF HandleInitialized
    <2>4. CASE Returns(Pump, "nothing")
        BY <1>3, <1>10, <2>2, <2>4 DEF HandleInitialized
    <2> QED
        BY <2>1, <2>3, <2>4
<1>11. CASE Confirm(Pump) \/ Ignore(Pump)
    <2>1. Returns(Pump, "nothing") /\ kind \in {"notification", "success", "error"}
        BY <1>1, <1>11 DEF Confirm, Ignore, Handles, Handling
    <2>2. "nothing" \in Owed(raw) /\ "nothing" \in Reply
        BY <2>1 DEF Owed, Reply
    <2> QED
        BY <1>3, <1>11, <2>1, <2>2 DEF Confirm, Ignore
<1> QED
    BY <1>5, <1>6, <1>7, <1>8, <1>9, <1>10, <1>11 DEF HandleMessage

(* What is asked of a step that handles a message of the script. *)
Served(n, s, b) ==
    at'[Pump] = "idle" =>
        /\ IF n = 2 THEN reply'[Pump] = "nothing"
                    ELSE reply'[Pump] \in {"result", "rpcError"} /\ b \in Script[n].expected
        /\ n = 1 => s \in received'
        /\ n = 2 => s \in ready'

LEMMA AsExpected ==
    ASSUME NEW n \in 1 .. 9, NEW s, NEW b,
           at \in [Exchanges -> {"idle", "handle", "tool", "confirm"}],
           reply \in [Exchanges -> Reply],
           at[Pump] # "idle", Handling(Script[n].line.raw, s),
           Works(Pump, Script[n].line, b),
           n >= 2 => s \in received,
           n >= 3 => s \in ready
    PROVE  Served(n, s, b)
<1> DEFINE m == job[Pump].message
           raw == Script[n].line.raw
<1> USE StdioServerAssumption
<1>1. /\ Here(Pump) = s /\ m = MessageOf(raw) /\ HandleMessage(Pump)
      /\ b \in Bodies(Pump, Script[n].line)
      /\ at[Pump] \in {"handle", "tool", "confirm"}
      /\ at[Pump] = "tool" => Parse(raw) = "request" /\ raw.method \in {"tools/list", "tools/call"}
      /\ at[Pump] = "confirm" => Parse(raw) = "notification"
    BY DEF Handling, Here, Works
<1>2. m.kind = Parse(raw)
    BY <1>1 DEF MessageOf
<1> HIDE DEF m
<1>3. \A given : Returns(Pump, given) => reply'[Pump] = given
    BY DEF Returns
<1>4. \A to \in {"tool", "confirm"} : GoesOn(Pump, to) => at'[Pump] = to
    BY DEF GoesOn
<1>5. \A kinds, methods : Handles(Pump, kinds, methods) =>
          at[Pump] = "handle" /\ m.kind \in kinds /\ m.method \in methods
    BY DEF Handles, m
<1> HIDE DEF raw
<1>6. CASE n = 1
    <2>1. m.kind = "request" /\ m.method = "initialize" /\ Script[n].expected = {"result"}
          /\ raw.method = "initialize"
        BY <1>1, <1>6, ScriptLines DEF Expects, IsEnvelope, raw
    <2>2. at[Pump] = "handle"
        BY <1>1, <1>2, <2>1
    <2>3. b = "result"
        BY <1>1, <2>1, <2>2 DEF Bodies, m
    <2>4. HandleInitialize(Pump)
        BY <1>1, <1>5, <2>1, <2>2 DEF HandleMessage, HandleInvalid, HandlePing, HandleUnknown,
               RequireInitialized, RunTool, HandleInitialized, Confirm, Ignore
    <2> QED
        BY <1>1, <1>3, <1>6, <2>1, <2>3, <2>4 DEF HandleInitialize, Served
<1>7. CASE n = 2
    <2>1. m.kind = "notification" /\ m.method = "notifications/initialized" /\ s \in received
        BY <1>1, <1>7, ScriptLines DEF raw
    <2>2. at[Pump] \in {"handle", "confirm"}
        BY <1>1, <1>2, <2>1
    <2>3. HandleInitialized(Pump) \/ Confirm(Pump)
        BY <1>1, <1>5, <2>1, <2>2 DEF HandleMessage, HandleInvalid, HandleInitialize, HandlePing,
               HandleUnknown, RequireInitialized, RunTool, Ignore
    <2>4. CASE HandleInitialized(Pump)
        BY <1>1, <1>4, <1>7, <2>1, <2>4 DEF HandleInitialized, Served
    <2>5. CASE Confirm(Pump)
        BY <1>1, <1>3, <1>7, <2>5 DEF Confirm, Served
    <2> QED
        BY <2>3, <2>4, <2>5
<1>8. CASE n = 3
    <2>1. m.kind = "request" /\ m.method = "ping" /\ Script[n].expected = {"result"}
          /\ raw.method = "ping"
        BY <1>1, <1>8, ScriptLines DEF Expects, IsEnvelope, raw
    <2>2. at[Pump] = "handle"
        BY <1>1, <1>2, <2>1
    <2>3. b = "result"
        BY <1>1, <2>1, <2>2 DEF Bodies, m
    <2>4. HandlePing(Pump)
        BY <1>1, <1>5, <2>1, <2>2 DEF HandleMessage, HandleInvalid, HandleInitialize,
               HandleUnknown, RequireInitialized, RunTool, HandleInitialized, Confirm, Ignore
    <2> QED
        BY <1>3, <1>8, <2>1, <2>3, <2>4 DEF HandlePing, Served
<1>9. CASE n \in {4, 5, 6, 7}
    <2>1. m.kind = "request" /\ m.method \in {"tools/list", "tools/call"} /\ s \in ready
        BY <1>1, <1>9, ScriptLines DEF Expects, raw
    <2>2. at[Pump] \in {"handle", "tool"}
        BY <1>1, <1>2, <2>1
    <2>3. RequireInitialized(Pump) \/ RunTool(Pump)
        BY <1>1, <1>5, <2>1, <2>2 DEF HandleMessage, HandleInvalid, HandleInitialize, HandlePing,
               HandleUnknown, HandleInitialized, Confirm, Ignore
    <2>4. CASE RequireInitialized(Pump)
        BY <1>1, <1>4, <2>1, <2>4 DEF RequireInitialized, Served
    <2>5. CASE RunTool(Pump)
        <3>1. at[Pump] = "tool" /\ reply'[Pump] \in {"result", "rpcError"}
            BY <1>3, <2>5 DEF RunTool
        <3>2. b \in IF m.method = "tools/list" THEN {"result"} ELSE Ends(Script[n].line.call)
            BY <1>1, <3>1 DEF Bodies, m
        <3>3. b \in Script[n].expected
            <4>1. m.method = IF n = 4 THEN "tools/list" ELSE "tools/call"
                BY <1>1, <1>9, ScriptLines DEF Expects, raw
            <4>2. CASE n = 4
                BY <3>2, <4>1, <4>2, ScriptLines DEF Expects
            <4>3. CASE n \in {5, 6, 7}
                <5>1. Ends(Script[n].line.call) = Script[n].expected
                    BY <4>3, ScriptLines, ScriptCalls DEF Expects
                <5> QED
                    BY <3>2, <4>1, <4>3, <5>1
            <4> QED
                BY <1>9, <4>2, <4>3
        <3> QED
            BY <1>9, <3>1, <3>3 DEF Served
    <2> QED
        BY <2>3, <2>4, <2>5
<1>10. CASE n = 8
    <2>1. m.kind = "request" /\ m.method = "other" /\ Script[n].expected = {"method_not_found"}
          /\ raw.method = "other"
        BY <1>1, <1>10, ScriptLines DEF Expects, IsEnvelope, raw
    <2>2. at[Pump] = "handle"
        BY <1>1, <1>2, <2>1
    <2>3. b = "method_not_found"
        BY <1>1, <2>1, <2>2 DEF Bodies, m
    <2>4. HandleUnknown(Pump)
        BY <1>1, <1>5, <2>1, <2>2 DEF HandleMessage, HandleInvalid, HandleInitialize, HandlePing,
               RequireInitialized, RunTool, HandleInitialized, Confirm, Ignore
    <2> QED
        BY <1>3, <1>10, <2>1, <2>3, <2>4 DEF HandleUnknown, Served
<1>11. CASE n = 9
    <2>1. m.kind = "invalid" /\ Script[n].expected = Body \ {"result", "isError"}
        BY <1>1, <1>11, ScriptLines DEF Expects, raw
    <2>2. at[Pump] = "handle"
        BY <1>1, <1>2, <2>1
    <2>3. b = "invalid_request"
        BY <1>1, <2>1, <2>2 DEF Bodies, m
    <2>4. HandleInvalid(Pump)
        BY <1>1, <1>5, <2>1, <2>2 DEF HandleMessage, HandlePing, HandleInitialize, HandleUnknown,
               RequireInitialized, RunTool, HandleInitialized, Confirm, Ignore
    <2> QED
        BY <1>3, <1>11, <2>1, <2>3, <2>4 DEF HandleInvalid, Served, Body
<1> QED
    BY <1>6, <1>7, <1>8, <1>9, <1>10, <1>11

-----------------------------------------------------------------------------
(* The pipes, whatever lines a client sends. *)
LEMMA SendableIs ==
    \A line \in Sendable :
        /\ line.text \in {"blank", "undecodable", "envelope"} /\ line # NoLine
        /\ line.text = "envelope" => line.raw \in Raw
<1>1. ASSUME NEW line \in Line
      PROVE  /\ line.text \in {"blank", "undecodable", "envelope"}
             /\ line.text = "envelope" => line.raw \in Raw
    BY DEF Line, Envelope
<1>2. ASSUME NEW n \in 1 .. 9
      PROVE  Script[n].line.text = "envelope" /\ Script[n].line.raw \in Raw
    BY ScriptLines DEF Expects, IsEnvelope
<1>3. NoLine.text = "none"
    BY DEF NoLine
<1> QED
    BY <1>1, <1>2, <1>3, ScriptIs DEF Sendable

Stored == [message : Message, session : {0, 1}]
Replies == [id : ValidId \cup {"null", "bad"}, body : Body]

LEMMA Replied ==
    ASSUME NEW line \in Sendable, line.text # "blank", NEW b \in Body
    PROVE  [id |-> ReplyId(line), body |-> b] \in Replies
<1>1. CASE line.text = "undecodable"
    BY <1>1 DEF ReplyId, Replies
<1>2. CASE line.text = "envelope"
    <2>1. line.raw.id \in Id \cup {"halved", "absent", "null", "bad"}
        BY <1>2, SendableIs DEF Raw
    <2> QED
        BY <1>2, <2>1 DEF ReplyId, Replies, ValidId
<1> QED
    BY <1>1, <1>2, SendableIs

LEMMA PipesServed ==
    ASSUME PipesInv, StdioServe
    PROVE  PipesInv'
<1> USE StdioServerAssumption
<1>1. /\ stdin \in Seq(Sendable) /\ stdout \in Seq(Replies)
      /\ at \in [Exchanges -> {"idle", "handle", "tool", "confirm"}]
      /\ job \in [Exchanges -> Stored] /\ reply \in [Exchanges -> Reply]
    BY DEF PipesInv, Stored, Replies
<1>2. CASE TakeLine
    <2>1. Head(stdin) \in Sendable /\ Tail(stdin) \in Seq(Sendable)
        BY <1>1, <1>2 DEF TakeLine
    <2>2. PICK line \in Sendable : line = Head(stdin)
        BY <2>1
    <2>3. /\ hand = NoLine /\ at[Pump] = "idle" /\ stdin' \in Seq(Sendable)
        BY <1>2, <2>1 DEF TakeLine, PipesInv
    <2>4. CASE line.text = "blank"
        <3>1. UNCHANGED <<hand, stdout, at, job, reply>>
            BY <1>2, <2>2, <2>4 DEF TakeLine, session
        <3> QED
            BY <1>1, <2>3, <3>1 DEF PipesInv, Stored, Replies
    <2>5. CASE line.text = "undecodable"
        <3>1. /\ UNCHANGED <<hand, at, job, reply>>
              /\ stdout' = Append(stdout, [id |-> ReplyId(line), body |-> "parse_error"])
            BY <1>2, <2>2, <2>5 DEF TakeLine, session, Writes
        <3>2. [id |-> ReplyId(line), body |-> "parse_error"] \in Replies
            BY <2>5, Replied DEF Body
        <3>3. stdout' \in Seq(Replies)
            BY <1>1, <3>1, <3>2
        <3> QED
            BY <1>1, <2>3, <3>1, <3>3 DEF PipesInv, Stored, Replies
    <2>6. CASE line.text = "envelope"
        <3>1. /\ hand' = line /\ UNCHANGED <<reply, stdout>>
              /\ at' = [at EXCEPT ![Pump] = "handle"]
              /\ job' = [job EXCEPT ![Pump] = [message |-> MessageOf(line.raw), session |-> 1]]
            BY <1>2, <2>2, <2>6 DEF TakeLine, MessageOf
        <3>2. MessageOf(line.raw) \in Message
            BY <2>6, SendableIs DEF MessageOf, Message
        <3>3. /\ at' \in [Exchanges -> {"idle", "handle", "tool", "confirm"}]
              /\ at'[Pump] = "handle"
            BY <1>1, <3>1
        <3>4. [message |-> MessageOf(line.raw), session |-> 1] \in Stored
            BY <3>2 DEF Stored
        <3>5. job' \in [Exchanges -> Stored]
              /\ job'[Pump] = [message |-> MessageOf(line.raw), session |-> 1]
            BY <1>1, <3>1, <3>4
        <3>6. Handling(hand.raw, 1)'
            BY <3>1, <3>3, <3>5 DEF Handling
        <3> QED
            BY <1>1, <2>3, <2>6, <3>1, <3>3, <3>5, <3>6, SendableIs DEF PipesInv, Stored, Replies
    <2> QED
        BY <2>4, <2>5, <2>6, SendableIs
<1>3. CASE HandleLine
    <2>1. PICK b \in Body :
             /\ Works(Pump, hand, b)
             /\ hand' = IF at'[Pump] = "idle" THEN NoLine ELSE hand
             /\ \/ UNCHANGED stdout
                \/ stdout' = Append(stdout, [id |-> ReplyId(hand), body |-> b])
        BY <1>3 DEF HandleLine, Writes
    <2>2. /\ hand \in Sendable /\ hand.text = "envelope" /\ at[Pump] # "idle"
          /\ Handling(hand.raw, 1) /\ hand # NoLine
        BY <1>3 DEF HandleLine, PipesInv
    <2>3. PICK raw \in Raw : raw = hand.raw
        BY <2>2, SendableIs
    <2>4. NoJob \in Stored
        BY NoJobType DEF Stored
    <2>5. /\ job' \in [Exchanges -> Stored]
          /\ at' \in [Exchanges -> {"idle", "handle", "tool", "confirm"}]
          /\ reply' \in [Exchanges -> Reply]
          /\ at'[Pump] # "idle" => Handling(raw, 1)'
        <3>1. Handling(raw, 1) /\ HandleMessage(Pump)
            BY <2>1, <2>2, <2>3 DEF Works
        <3> QED
            BY <1>1, <2>2, <2>4, <3>1, PumpStep
    <2>6. stdin' \in Seq(Sendable) /\ stdout' \in Seq(Replies)
        <3>1. [id |-> ReplyId(hand), body |-> b] \in Replies
            BY <2>2, Replied
        <3>2. stdin' = stdin
            BY <1>3 DEF HandleLine
        <3>3. CASE UNCHANGED stdout
            BY <1>1, <3>2, <3>3
        <3>4. CASE stdout' = Append(stdout, [id |-> ReplyId(hand), body |-> b])
            BY <1>1, <3>1, <3>2, <3>4, AppendProperties
        <3> QED
            BY <2>1, <3>3, <3>4
    <2>7. CASE at'[Pump] = "idle"
        BY <2>1, <2>5, <2>6, <2>7 DEF PipesInv, Stored, Replies
    <2>8. CASE at'[Pump] # "idle"
        <3>1. hand' = hand
            BY <2>1, <2>8
        <3>2. Handling(hand.raw, 1)'
            BY <2>3, <2>5, <2>8, <3>1 DEF Handling
        <3> QED
            BY <2>2, <2>5, <2>6, <2>8, <3>1, <3>2 DEF PipesInv, Stored, Replies
    <2> QED
        BY <2>7, <2>8
<1>4. CASE Exit
    <2>1. UNCHANGED <<stdin, hand, stdout, at, job, reply>>
        BY <1>4 DEF Exit, session
    <2> QED
        BY <2>1 DEF PipesInv, Handling
<1> QED
    BY <1>2, <1>3, <1>4 DEF StdioServe

LEMMA PipesUsed ==
    ASSUME PipesInv, (\E line \in Sendable : SendLine(line)) \/ ReadLine \/ CloseStdin
    PROVE  PipesInv'
<1>1. /\ stdin \in Seq(Sendable) /\ stdout \in Seq(Replies)
    BY DEF PipesInv, Replies
<1>2. UNCHANGED <<hand, at, job, reply>>
    BY DEF SendLine, ReadLine, CloseStdin, session
<1>3. stdin' \in Seq(Sendable) /\ stdout' \in Seq(Replies)
    <2>1. CASE \E line \in Sendable : SendLine(line)
        BY <1>1, <2>1, AppendProperties DEF SendLine
    <2>2. CASE ReadLine
        BY <1>1, <2>2, HeadTailProperties DEF ReadLine
    <2>3. CASE CloseStdin
        BY <1>1, <2>3 DEF CloseStdin
    <2> QED
        BY <2>1, <2>2, <2>3
<1> QED
    BY <1>2, <1>3 DEF PipesInv, Handling, Replies

-----------------------------------------------------------------------------
(* The probe on the pipes. *)
LEMMA ShortQueues ==
    ASSUME NEW d, NEW e
    PROVE  /\ Append(<<>>, e) = <<e>> /\ Append(<<d>>, e) = <<d, e>>
           /\ <<e>> # <<>> /\ Head(<<e>>) = e /\ Tail(<<e>>) = <<>>
           /\ <<d, e>> # <<>> /\ Head(<<d, e>>) = d /\ Tail(<<d, e>>) = <<e>>
<1>1. <<e>> # <<>> /\ <<d, e>> # <<>>
    OBVIOUS
<1>2. Head(<<e>>) = e /\ Head(<<d, e>>) = d
    OBVIOUS
<1>3. Append(<<>>, e) = <<e>>
    OBVIOUS
<1>4. Append(<<d>>, e) = <<d, e>>
    <2> DEFINE a == Append(<<d>>, e)
               c == <<d, e>>
    <2>1. <<d>> \in Seq({d, e}) /\ Len(<<d>>) = 1 /\ <<d>>[1] = d
        OBVIOUS
    <2>2. a \in Seq({d, e}) /\ Len(a) = 2 /\ a[1] = d /\ a[2] = e
        BY <2>1, AppendProperties
    <2>3. c \in Seq({d, e}) /\ Len(c) = 2 /\ c[1] = d /\ c[2] = e
        OBVIOUS
    <2> HIDE DEF a, c
    <2>4. \A i \in 1 .. Len(a) : a[i] = c[i]
        BY <2>2, <2>3
    <2>5. a = c
        BY <2>2, <2>3, <2>4, SeqEqual
    <2> QED
        BY <2>5 DEF a, c
<1>5. Tail(<<e>>) = <<>>
    OBVIOUS
<1>6. Tail(<<d, e>>) = <<e>>
    OBVIOUS
<1> QED
    BY <1>1, <1>2, <1>3, <1>4, <1>5, <1>6

(* The first line of the queue is dealt with. *)
Dealt(queue) ==
    /\ queue # <<>> /\ hand = Head(queue) /\ hand # NoLine
    /\ Pending(Tail(queue))' /\ at'[Pump] = "idle"
    /\ \E b \in Body :
          /\ Works(Pump, Head(queue), b)
          /\ stdout' = IF reply'[Pump] = "nothing" THEN stdout
                       ELSE Append(stdout, [id |-> ReplyId(Head(queue)), body |-> b])

LEMMA QueueServed ==
    ASSUME PipesInv, NEW queue, Pending(queue), StdioServe,
           queue = <<>> \/ Head(queue).text = "envelope"
    PROVE  /\ received \subseteq received' /\ ready \subseteq ready'
           /\ (Pending(queue)' /\ UNCHANGED stdout) \/ Dealt(queue)
<1> USE StdioServerAssumption
<1>1. CASE TakeLine
    <2>1. hand = NoLine /\ stdin = queue /\ queue # <<>> /\ stdin' = Tail(queue)
          /\ Head(queue).text = "envelope"
        BY <1>1 DEF TakeLine, Pending
    <2>2. hand' = Head(queue) /\ UNCHANGED <<received, ready, stdout>>
        BY <1>1, <2>1 DEF TakeLine
    <2>3. Head(queue) # NoLine
        BY <2>1 DEF NoLine
    <2> QED
        BY <2>1, <2>2, <2>3 DEF Pending
<1>2. CASE HandleLine
    <2>1. /\ hand # NoLine /\ queue # <<>> /\ hand = Head(queue) /\ stdin' = Tail(queue)
          /\ at[Pump] # "idle" /\ Handling(hand.raw, 1) /\ hand \in Sendable
          /\ hand.text = "envelope" /\ stdin = Tail(queue)
        BY <1>2 DEF HandleLine, Pending, PipesInv
    <2>2. PICK b \in Body :
              /\ Works(Pump, hand, b)
              /\ hand' = IF at'[Pump] = "idle" THEN NoLine ELSE hand
              /\ IF at'[Pump] = "idle" /\ reply'[Pump] # "nothing" THEN Writes(hand, b)
                                                                  ELSE UNCHANGED stdout
        BY <1>2 DEF HandleLine
    <2>3. received \subseteq received' /\ ready \subseteq ready'
        <3>1. PICK raw \in Raw : raw = hand.raw
            BY <2>1, SendableIs
        <3>2. Handling(raw, 1) /\ HandleMessage(Pump)
            BY <2>1, <2>2, <3>1 DEF Works
        <3>3. NoJob \in Stored
            BY NoJobType DEF Stored
        <3> QED
            BY <2>1, <3>2, <3>3, PumpStep DEF PipesInv, Stored
    <2>4. CASE at'[Pump] = "idle"
        <3>1. Pending(Tail(queue))'
            BY <2>1, <2>2, <2>4 DEF Pending
        <3>2. stdout' = IF reply'[Pump] = "nothing" THEN stdout
                        ELSE Append(stdout, [id |-> ReplyId(Head(queue)), body |-> b])
            BY <2>1, <2>2, <2>4 DEF Writes
        <3> QED
            BY <2>1, <2>2, <2>3, <2>4, <3>1, <3>2 DEF Dealt
    <2>5. CASE at'[Pump] # "idle"
        <3>1. hand' = hand /\ UNCHANGED stdout
            BY <2>2, <2>5
        <3>2. Pending(queue)'
            BY <2>1, <3>1 DEF Pending
        <3> QED
            BY <2>3, <3>1, <3>2
    <2> QED
        BY <2>4, <2>5
<1>3. CASE Exit
    BY <1>3 DEF Exit, session, Pending
<1> QED
    BY <1>1, <1>2, <1>3 DEF StdioServe

LEMMA ScriptEnvelopes ==
    /\ Script[2].line.text = "envelope"
    /\ \A n \in 1 .. 9 : Script[n].line.text = "envelope" /\ Script[n].expected \subseteq Body
    /\ \A n \in (1 .. 9) \ {2} : ReplyId(Script[n].line) = SomeId /\ Script[n].expected # {}
<1>1. \A n \in 1 .. 9 : Script[n].line.text = "envelope" /\ Script[n].expected \subseteq Body
    BY ScriptLines DEF Expects, IsEnvelope
<1>2. \A n \in (1 .. 9) \ {2} : Script[n].line.raw.id = SomeId /\ Script[n].expected # {}
    <2> DEFINE Replying(n) == Script[n].line.raw.id = SomeId /\ Script[n].expected # {}
    <2>1. Body \ {"result", "isError"} # {}
        BY DEF Body
    <2>2. /\ Replying(1) /\ Replying(3) /\ Replying(4) /\ Replying(5) /\ Replying(6) /\ Replying(7)
          /\ Replying(8) /\ Replying(9)
        BY <2>1, ScriptLines DEF Expects, IsEnvelope
    <2> HIDE DEF Replying
    <2>3. \A n \in (1 .. 9) \ {2} : Replying(n)
        BY <2>2
    <2> QED
        BY <2>3 DEF Replying
<1> QED
    BY <1>1, <1>2, SomeIdIs DEF ReplyId

(* The server deals with the probe's lines as the probe expects. *)
LEMMA StdioServed ==
    ASSUME PipesInv, StdioInv, step \in 1 .. 9, waiting \in BOOLEAN,
           StdioServe, UNCHANGED <<step, waiting, phase, failed>>
    PROVE  StdioInv'
<1>1. PICK n \in 1 .. 9 : n = step
    OBVIOUS
<1>2. PICK before \in {<<>>, <<Script[2].line>>} : Sequel(before)
    BY DEF StdioInv
<1> DEFINE own == Script[n].line
           notice == Script[2].line
<1>3. /\ Current = Script[n] /\ Current' = Script[n] /\ step' = n
      /\ n >= 2 => 1 \in received
    BY <1>1 DEF Current, StdioInv
<1>4. /\ n >= 3 => before # <<>> \/ 1 \in ready
      /\ before # <<>> => before = <<notice>> /\ n = 3
    BY <1>1, <1>2 DEF Sequel
<1>5. notice.text = "envelope" /\ own.text = "envelope"
    BY <1>1, ScriptEnvelopes
<1> HIDE DEF own, notice
<1>0. at \in [Exchanges -> {"idle", "handle", "tool", "confirm"}] /\ reply \in [Exchanges -> Reply]
    BY DEF PipesInv
(* Nothing but the queue and the flags of the session can change. *)
<1>6. ASSUME received \subseteq received', NEW after \in {<<>>, <<notice>>}, Sequel(after)'
      PROVE  StdioInv'
    BY <1>1, <1>3, <1>6 DEF StdioInv, notice
<1>7. CASE ~ waiting /\ stdout = <<>> /\ Pending(before)
    <2>1. before = <<>> \/ Head(before).text = "envelope"
        BY <1>4, <1>5, ShortQueues
    <2>2. /\ received \subseteq received' /\ ready \subseteq ready'
          /\ (Pending(before)' /\ UNCHANGED stdout) \/ Dealt(before)
        BY <1>7, <2>1, QueueServed
    <2>3. CASE Pending(before)' /\ UNCHANGED stdout
        <3>1. Sequel(before)'
            BY <1>3, <1>4, <1>7, <2>2, <2>3 DEF Sequel, notice
        <3> QED
            BY <1>6, <2>2, <3>1 DEF notice
    <2>4. CASE Dealt(before)
        <3>1. before = <<notice>> /\ n = 3
            BY <1>4, <2>4 DEF Dealt
        <3>2. /\ Pending(<<>>)' /\ hand = notice /\ at'[Pump] = "idle"
              /\ hand # NoLine
            BY <2>4, <3>1, ShortQueues DEF Dealt
        <3>3. PICK b \in Body :
                /\ Works(Pump, notice, b)
                /\ stdout' = IF reply'[Pump] = "nothing" THEN stdout
                             ELSE Append(stdout, [id |-> ReplyId(notice), body |-> b])
            BY <2>4, <3>1, ShortQueues DEF Dealt
        <3>4. /\ at[Pump] # "idle" /\ Handling(Script[2].line.raw, 1)
              /\ Works(Pump, Script[2].line, b) /\ 1 \in received
            BY <1>3, <3>1, <3>2, <3>3 DEF PipesInv, notice
        <3>5. Served(2, 1, b)
            BY <1>0, <3>4, AsExpected
        <3>6. 1 \in ready' /\ stdout' = <<>>
            BY <1>7, <3>2, <3>3, <3>5 DEF Served
        <3>7. Sequel(<<>>)'
            BY <1>7, <3>2, <3>6 DEF Sequel
        <3> QED
            BY <1>6, <2>2, <3>7
    <2> QED
        BY <2>2, <2>3, <2>4
<1>8. CASE waiting /\ stdout = <<>> /\ Pending(Append(before, own))
    <2> DEFINE queue == Append(before, own)
    <2>0. \/ before = <<>> /\ queue = <<own>>
          \/ before = <<notice>> /\ n = 3 /\ queue = <<notice, own>>
        <3>1. CASE before = <<>>
            BY <3>1, ShortQueues
        <3>2. CASE before # <<>>
            <4>1. before = <<notice>> /\ n = 3
                BY <1>4, <3>2
            <4> QED
                BY <4>1, ShortQueues
        <3> QED
            BY <3>1, <3>2
    <2>1. Head(queue).text = "envelope"
        BY <1>5, <2>0, ShortQueues
    <2> HIDE DEF queue
    <2>2. /\ received \subseteq received' /\ ready \subseteq ready'
          /\ (Pending(queue)' /\ UNCHANGED stdout) \/ Dealt(queue)
        BY <1>8, <2>1, QueueServed DEF queue
    <2>3. CASE Pending(queue)' /\ UNCHANGED stdout
        <3>1. Sequel(before)'
            BY <1>3, <1>4, <1>8, <2>2, <2>3 DEF Sequel, notice, own, queue
        <3> QED
            BY <1>6, <2>2, <3>1 DEF notice
    <2>4. ASSUME before = <<notice>>, Dealt(queue) PROVE StdioInv'
        <3>1. Head(queue) = notice /\ Tail(queue) = Append(<<>>, own) /\ n = 3
            <4>1. queue = <<notice, own>> /\ n = 3
                BY <2>0, <2>4, ShortQueues
            <4> QED
                BY <4>1, ShortQueues
        <3>2. Pending(Append(<<>>, own))' /\ hand = notice /\ at'[Pump] = "idle" /\ hand # NoLine
            BY <2>4, <3>1 DEF Dealt
        <3>3. PICK b \in Body :
                /\ Works(Pump, notice, b)
                /\ stdout' = IF reply'[Pump] = "nothing" THEN stdout
                             ELSE Append(stdout, [id |-> ReplyId(notice), body |-> b])
            BY <2>4, <3>1 DEF Dealt
        <3>4. /\ at[Pump] # "idle" /\ Handling(Script[2].line.raw, 1)
              /\ Works(Pump, Script[2].line, b) /\ 1 \in received
            BY <1>3, <3>1, <3>2, <3>3 DEF PipesInv, notice
        <3>5. Served(2, 1, b)
            BY <1>0, <3>4, AsExpected
        <3>6. 1 \in ready' /\ stdout' = <<>>
            BY <1>8, <3>2, <3>3, <3>5 DEF Served
        <3>7. Sequel(<<>>)'
            BY <1>3, <1>8, <3>2, <3>6 DEF Sequel, own
        <3> QED
            BY <1>6, <2>2, <3>7
    <2>5. ASSUME before = <<>>, Dealt(queue) PROVE StdioInv'
        <3>1. Head(queue) = own /\ Tail(queue) = <<>>
            BY <2>0, <2>5, ShortQueues
        <3>2. Pending(<<>>)' /\ hand = own /\ at'[Pump] = "idle" /\ hand # NoLine
            BY <2>5, <3>1 DEF Dealt
        <3>3. PICK b \in Body :
                /\ Works(Pump, own, b)
                /\ stdout' = IF reply'[Pump] = "nothing" THEN stdout
                             ELSE Append(stdout, [id |-> ReplyId(own), body |-> b])
            BY <2>5, <3>1 DEF Dealt
        <3>4. at[Pump] # "idle" /\ Handling(own.raw, 1)
            BY <3>2 DEF PipesInv
        <3>5. Served(n, 1, b)
            BY <1>3, <1>4, <2>5, <3>3, <3>4, AsExpected DEF PipesInv, own
        <3>6. n # 2 /\ ReplyId(own) = SomeId
            BY <1>1, <1>8, ScriptEnvelopes DEF StdioInv, own
        <3>7. b \in Script[n].expected /\ (n = 1 => 1 \in received') /\ 1 \in received'
            BY <1>3, <2>2, <3>2, <3>5, <3>6 DEF Served
        <3>8. stdout' = <<[id |-> SomeId, body |-> b]>>
            BY <1>8, <3>2, <3>3, <3>5, <3>6, ShortQueues DEF Served
        <3>9. Sequel(<<>>)'
            BY <1>3, <1>4, <1>8, <2>2, <2>5, <3>2, <3>7, <3>8 DEF Sequel
        <3> QED
            BY <1>6, <2>2, <3>9
    <2> QED
        BY <2>0, <2>2, <2>3, <2>4, <2>5
<1>9. CASE /\ waiting /\ before = <<>> /\ Pending(<<>>) /\ 1 \in received
           /\ \E b \in Current.expected : stdout = <<[id |-> SomeId, body |-> b]>>
    <2>1. /\ received \subseteq received' /\ ready \subseteq ready'
          /\ Pending(<<>>)' /\ UNCHANGED stdout
        BY <1>9, QueueServed DEF Dealt
    <2>2. Sequel(<<>>)'
        BY <1>3, <1>4, <1>9, <2>1 DEF Sequel
    <2> QED
        BY <1>6, <2>1, <2>2
<1> QED
    BY <1>2, <1>3, <1>7, <1>8, <1>9 DEF Sequel, own

(* The probe sends, reads and closes, and finds nothing wrong. *)
LEMMA StdioProbed ==
    ASSUME PipesInv, StdioInv, step \in 1 .. 9, waiting \in BOOLEAN,
           phase \in {"script", "closing", "refused", "done"},
           StdioRequest \/ StdioReply \/ StdioClose
    PROVE  /\ StdioInv' /\ step' \in 1 .. 9 /\ waiting' \in BOOLEAN
           /\ phase' \in {"script", "closing", "refused", "done"}
<1>1. PICK n \in 1 .. 9 : n = step
    OBVIOUS
<1>2. PICK before \in {<<>>, <<Script[2].line>>} : Sequel(before)
    BY DEF StdioInv
<1> DEFINE own == Script[n].line
           notice == Script[2].line
<1>3. /\ Current = Script[n] /\ Len(Script) = 9
      /\ n >= 2 => 1 \in received
      /\ ~ failed /\ (waiting => phase = "script" /\ n # 2) /\ (phase # "script" => n = 9)
    BY <1>1, ScriptIs DEF Current, StdioInv
<1>4. /\ n >= 3 => before # <<>> \/ 1 \in ready
      /\ before # <<>> => before = <<notice>> /\ n = 3
    BY <1>1, <1>2 DEF Sequel
<1>5. n # 2 <=> HasReply
    <2>1. Script[2].expected = {} /\ (n # 2 => Script[n].expected # {})
        BY ScriptLines, ScriptEnvelopes
    <2> QED
        BY <1>3, <2>1 DEF HasReply
<1> HIDE DEF own
<1>0. ASSUME NEW after \in {<<>>, <<Script[2].line>>}, Sequel(after)', ~ failed',
             step' >= 2 => 1 \in received', waiting' => phase' = "script" /\ step' # 2,
             phase' # "script" => step' = 9
      PROVE  StdioInv'
    BY <1>0 DEF StdioInv
<1>6. CASE StdioRequest
    <2>1. /\ phase = "script" /\ ~ waiting /\ stdin' = Append(stdin, own) /\ Sent
          /\ UNCHANGED <<hand, stdout, received, ready, failed>>
        BY <1>3, <1>6 DEF StdioRequest, SendLine, session, own
    <2>2. stdout = <<>> /\ Pending(before)
        BY <1>2, <2>1 DEF Sequel
    <2>3. Pending(Append(before, own))'
        <3>1. CASE hand = NoLine
            BY <2>1, <2>2, <3>1 DEF Pending
        <3>2. CASE hand # NoLine
            <4>1. before = <<notice>> /\ hand = Head(before) /\ stdin = Tail(before)
                BY <1>4, <2>2, <3>2 DEF Pending
            <4> DEFINE d == notice
            <4> HIDE DEF d
            <4>2. before = <<d>> /\ hand = d /\ stdin = <<>>
                BY <4>1, ShortQueues DEF d
            <4>3. Append(before, own) = <<d, own>> /\ stdin' = <<own>>
                BY <2>1, <4>2, ShortQueues
            <4>4. /\ Append(before, own) # <<>> /\ Head(Append(before, own)) = d
                  /\ Tail(Append(before, own)) = <<own>>
                BY <4>3, ShortQueues
            <4> QED
                BY <2>1, <3>2, <4>2, <4>3, <4>4 DEF Pending
        <3> QED
            BY <3>1, <3>2
    <2>4. CASE n # 2
        <3>1. waiting' = TRUE /\ UNCHANGED <<step, phase>>
            BY <1>5, <2>1, <2>4 DEF Sent
        <3>2. Current' = Script[n]
            BY <1>1, <3>1 DEF Current
        <3>3. Sequel(before)'
            BY <1>1, <1>4, <2>1, <2>2, <2>3, <3>1, <3>2 DEF Sequel, own
        <3> QED
            BY <1>1, <1>3, <2>1, <2>4, <3>1, <3>3 DEF StdioInv
    <2>5. CASE n = 2
        <3>1. Advance
            BY <1>5, <2>1, <2>5 DEF Sent
        <3>2. waiting' = FALSE /\ step' = 3 /\ UNCHANGED phase
            BY <1>1, <1>3, <2>5, <3>1 DEF Advance
        <3>3. before = <<>> /\ own = Script[2].line
            BY <1>4, <2>5 DEF own
        <3>4. Append(before, own) = <<Script[2].line>>
            BY <3>3, ShortQueues
        <3>5. Pending(<<Script[2].line>>)' /\ <<Script[2].line>> # <<>>
            BY <2>3, <3>4, ShortQueues
        <3>6. Sequel(<<Script[2].line>>)'
            BY <2>1, <2>2, <3>2, <3>5 DEF Sequel
        <3>7. StdioInv'
            BY <1>0, <1>3, <2>1, <2>5, <3>2, <3>6
        <3>8. step' \in 1 .. 9 /\ waiting' \in BOOLEAN
              /\ phase' \in {"script", "closing", "refused", "done"}
            <4>1. phase' = "script"
                BY <2>1, <3>2
            <4>2. step' \in 1 .. 9
                BY <3>2
            <4>3. waiting' \in BOOLEAN
                BY <3>2
            <4> QED
                BY <4>1, <4>2, <4>3
        <3> QED
            BY <3>7, <3>8
    <2> QED
        BY <2>4, <2>5
<1>7. CASE StdioReply
    <2>1. /\ waiting /\ stdout # <<>> /\ stdout' = Tail(stdout) /\ Advance
          /\ Check((step = 1 => Head(stdout).id = SomeId) /\ Head(stdout).body \in Current.expected)
          /\ UNCHANGED <<hand, stdin, received, ready>>
        BY <1>7 DEF StdioReply, ReadLine, session
    <2>2. PICK b \in Current.expected :
              stdout = <<[id |-> SomeId, body |-> b]>> /\ Pending(<<>>) /\ before = <<>>
              /\ 1 \in received
        BY <1>2, <2>1 DEF Sequel
    <2>3. Head(stdout) = [id |-> SomeId, body |-> b] /\ stdout' = <<>>
        BY <2>1, <2>2, ShortQueues
    <2>4. ~ failed'
        <3>1. (step = 1 => Head(stdout).id = SomeId) /\ Head(stdout).body \in Current.expected
            BY <2>2, <2>3
        <3> QED
            BY <1>3, <2>1, <3>1, Zenon DEF Check
    <2>5. /\ waiting' = FALSE /\ phase = "script"
          /\ \/ n = 9 /\ step' = 9 /\ phase' = "closing"
             \/ n < 9 /\ step' = n + 1 /\ phase' = "script"
        BY <1>1, <1>3, <2>1 DEF Advance
    <2>6. Pending(<<>>)' /\ (step' >= 3 => 1 \in ready')
        BY <1>3, <1>4, <2>1, <2>2, <2>5 DEF Pending
    <2>7. Sequel(<<>>)'
        BY <2>3, <2>5, <2>6 DEF Sequel
    <2>8. step' \in 1 .. 9 /\ (phase' # "script" => step' = 9)
        BY <2>5
    <2>9. StdioInv'
        BY <1>0, <2>1, <2>2, <2>4, <2>5, <2>7, <2>8
    <2> QED
        BY <2>5, <2>8, <2>9
<1>8. CASE StdioClose
    <2>1. /\ phase = "closing" /\ ~ waiting
          /\ UNCHANGED <<stdin, hand, stdout, received, ready, step, waiting>>
          /\ \/ UNCHANGED <<phase, failed>>
             \/ phase' = "done" /\ UNCHANGED failed
        BY <1>3, <1>8 DEF StdioClose, CloseStdin, pipes, session
    <2>2. stdout = <<>>
        BY <1>2, <2>1 DEF Sequel
    <2>3. ~ failed' /\ phase' \in {"closing", "done"}
        BY <1>3, <2>1, <2>2
    <2>4. Sequel(before)'
        BY <1>2, <2>1 DEF Sequel, Pending, Current
    <2> QED
        BY <1>1, <1>3, <2>1, <2>3, <2>4 DEF StdioInv
<1> QED
    BY <1>6, <1>7, <1>8

-----------------------------------------------------------------------------
(* The probe over HTTP, among other clients. *)
LEMMA HttpGrows ==
    ASSUME HttpInv, [HttpNext]_httpVars
    PROVE  /\ received \subseteq received' /\ ready \subseteq ready' /\ dropped \subseteq dropped'
           /\ created \in Nat /\ created' \in Nat /\ created <= created'
<1>1. created \in Nat
    BY DEF HttpInv, HttpTypeOK
<1>2. ASSUME NEW x \in Exchanges, Arrives(x)
      PROVE  /\ UNCHANGED <<received, ready>> /\ dropped \subseteq dropped'
             /\ created' \in {created, created + 1}
    BY <1>2 DEF Arrives, BadRequest, NoSession, Error, ToSession, ToNewSession, EndSession,
                EndUnknown, Answer, HandOver, netops
<1>3. ASSUME NEW x \in Exchanges, Runs(x)
      PROVE  /\ received \subseteq received' /\ ready \subseteq ready'
             /\ UNCHANGED <<created, dropped>>
    BY <1>3 DEF Runs, HandleMessage, HandleInvalid, HandleInitialize, HandlePing,
                RequireInitialized, RunTool, HandleUnknown, HandleInitialized,
                Confirm, Ignore, registry
<1> QED
    BY <1>1, <1>2, <1>3 DEF HttpNext, httpVars

LEMMA GoneKept ==
    ASSUME HttpInv, [HttpNext]_httpVars, NEW s \in Session, s \notin table \cup dropped
    PROVE  s \notin table' \cup dropped'
<1>1. s \notin table'
    BY GoneStep
<1>2. ASSUME NEW x \in Exchanges, Arrives(x) PROVE s \notin dropped'
    BY <1>2 DEF Arrives, BadRequest, NoSession, Error, ToSession, ToNewSession, EndSession,
                EndUnknown, Answer, HandOver
<1>3. ASSUME NEW x \in Exchanges, Runs(x) PROVE s \notin dropped'
    BY <1>3 DEF Runs, registry
<1> QED
    BY <1>1, <1>2, <1>3 DEF HttpNext, httpVars

(* The work of one thread leaves the probe's message alone. *)
LEMMA OthersApart ==
    ASSUME HttpInv, NEW x \in Exchanges \ {Pump}, Arrives(x) \/ Runs(x)
    PROVE  at'[Pump] = at[Pump] /\ job'[Pump] = job[Pump]
<1>1. /\ at \in [Exchanges -> {"idle", "handle", "tool", "confirm"}]
      /\ job \in [Exchanges -> [message : Message, session : 0 .. created]]
      /\ Pump \in Exchanges
    BY StdioServerAssumption DEF HttpInv, HttpTypeOK
<1>2. \E to : UNCHANGED at \/ at' = [at EXCEPT ![x] = to]
    BY DEF Arrives, BadRequest, NoSession, Error, ToSession, ToNewSession, EndSession, EndUnknown,
           Answer, HandOver, Runs, HandleMessage, HandleInvalid, HandleInitialize, HandlePing,
           RequireInitialized, RunTool, HandleUnknown, HandleInitialized, Confirm, Ignore,
           Returns, GoesOn
<1>3. \E to : UNCHANGED job \/ job' = [job EXCEPT ![x] = to]
    BY DEF Arrives, BadRequest, NoSession, Error, ToSession, ToNewSession, EndSession, EndUnknown,
           Answer, HandOver, Runs, HandleMessage, HandleInvalid, HandleInitialize, HandlePing,
           RequireInitialized, RunTool, HandleUnknown, HandleInitialized, Confirm, Ignore,
           Returns, GoesOn
<1> QED
    BY <1>1, <1>2, <1>3

(* What the probe posts is a message, and is to its session. *)
LEMMA PostsArrives ==
    ASSUME NEW raw \in Raw, Posts(raw), sid \in 0 .. created
    PROVE  Arrives(Pump)
<1>1. MessageOf(raw) \in Message
    BY DEF MessageOf, Message
<1> QED
    BY <1>1 DEF Posts, Arrives, MessageOf

LEMMA OverHttpSteps ==
    ASSUME way = "http", HttpInv, OverHttpInv, step \in 1 .. 9,
           Probe \/ Serves \/ Others
    PROVE  [HttpNext]_httpVars
<1>1. Current.line.raw \in Raw /\ Request("ping", "absent") \in Raw
    BY Asked, ScriptLines DEF Current, Expects, IsEnvelope, Method
<1>2. sid \in 0 .. created /\ Pump \in Exchanges
    BY StdioServerAssumption DEF OverHttpInv
<1>3. CASE HttpRequest
    BY <1>1, <1>2, <1>3, PostsArrives DEF HttpRequest, HttpNext
<1>4. CASE HttpReply
    BY <1>4 DEF HttpReply, httpVars, netops, registry, answers
<1>5. CASE HttpDelete
    <2>1. EndSession(Pump, sid) \/ EndUnknown(Pump, sid)
        BY <1>5 DEF HttpDelete
    <2>2. Arrives(Pump)
        BY <1>2, <2>1 DEF Arrives
    <2> QED
        BY <1>2, <2>2 DEF HttpNext
<1>6. CASE HttpPing
    <2>1. CASE Posts(Request("ping", "absent"))
        BY <1>1, <1>2, <2>1, PostsArrives DEF HttpNext
    <2>2. CASE UNCHANGED <<netops, at, job, reply, registry, answers>>
        BY <2>2 DEF httpVars, netops, registry, answers
    <2> QED
        BY <1>6, <2>1, <2>2 DEF HttpPing
<1>7. CASE Serves
    BY <1>2, <1>7 DEF Serves, HttpServes, HttpNext
<1>8. CASE Others
    BY <1>8 DEF Others, HttpNext
<1>9. ~ (StdioRequest \/ StdioReply \/ StdioClose)
    BY DEF StdioRequest, StdioReply, StdioClose
<1> QED
    BY <1>3, <1>4, <1>5, <1>6, <1>7, <1>8, <1>9 DEF Probe

(* What all steps but those of the probe's verdict have in common.         *)
LEMMA OverHttpKept ==
    ASSUME HttpInv, OverHttpInv, [HttpNext]_httpVars, UNCHANGED <<sid, step, failed>>
    PROVE  /\ sid' \in 0 .. created' /\ (Gone => Gone')
           /\ step' >= 2 => sid' \in received'
           /\ step' >= 3 => sid' \in ready' \/ Gone'
           /\ failed' => Gone'
<1>1. PICK s \in 0 .. created : s = sid
    BY DEF OverHttpInv
<1>2. /\ received \subseteq received' /\ ready \subseteq ready'
      /\ created \in Nat /\ created' \in Nat /\ created <= created'
    BY HttpGrows
<1>3. Gone => Gone'
    <2> SUFFICES ASSUME Gone PROVE Gone'
        OBVIOUS
    <2>1. s \in Session /\ s \notin table \cup dropped
        BY <1>1, <1>2 DEF Gone, Session
    <2>2. s \notin table' \cup dropped'
        BY <2>1, GoneKept
    <2> QED
        BY <1>1, <2>1, <2>2 DEF Gone
<1>4. failed' => Gone'
    BY <1>3, Zenon DEF OverHttpInv
<1> QED
    BY <1>1, <1>2, <1>3, <1>4 DEF OverHttpInv

LEMMA OverHttpOthers ==
    ASSUME way = "http", HttpInv, OverHttpInv, Others
    PROVE  OverHttpInv'
<1>1. [HttpNext]_httpVars
    BY DEF Others, HttpNext
<1>2. UNCHANGED <<step, waiting, sid, body, failed, phase>>
    BY DEF Others, probe
<1>3. /\ sid' \in 0 .. created' /\ (Gone => Gone')
      /\ step' >= 2 => sid' \in received'
      /\ step' >= 3 => sid' \in ready' \/ Gone'
      /\ failed' => Gone'
    BY <1>1, <1>2, OverHttpKept
<1>4. at'[Pump] = at[Pump] /\ job'[Pump] = job[Pump]
    BY OthersApart DEF Others
<1>5. /\ received \subseteq received' /\ ready \subseteq ready' /\ dropped \subseteq dropped'
      /\ sid \in dropped' => sid \in dropped
    BY <1>1, HttpGrows DEF Others
<1>6. Posted => Posted'
    BY <1>2, <1>3, <1>4, <1>5 DEF Posted, HasReply, Current, Handling
<1>7. failed => failed'
    BY <1>2
<1> QED
    BY <1>2, <1>3, <1>4, <1>5, <1>6 DEF OverHttpInv

LEMMA OverHttpServed ==
    ASSUME way = "http", HttpInv, OverHttpInv, step \in 1 .. 9, Serves
    PROVE  OverHttpInv'
<1>0. HttpServes
    BY DEF Serves
<1>1. [HttpNext]_httpVars
    BY <1>0, StdioServerAssumption DEF HttpServes, HttpNext
<1>2. /\ UNCHANGED <<step, waiting, sid, failed, phase, table, created, dropped>>
      /\ Runs(Pump)
    BY <1>0 DEF HttpServes, Runs, registry
<1>3. /\ sid' \in 0 .. created' /\ (Gone => Gone')
      /\ step' >= 2 => sid' \in received'
      /\ step' >= 3 => sid' \in ready' \/ Gone'
      /\ failed' => Gone'
    BY <1>1, <1>2, OverHttpKept
<1>4. at[Pump] # "idle"
    BY <1>2 DEF Runs, HandleMessage, HandleInvalid, HandleInitialize, HandlePing,
           RequireInitialized, RunTool, HandleUnknown, HandleInitialized, Confirm, Ignore, Handles
<1>5. phase = "script" /\ waiting /\ Handling(Current.line.raw, sid)
    BY <1>4 DEF OverHttpInv, Posted
<1>6. PICK n \in 1 .. 9, s \in 0 .. created : n = step /\ s = sid
    BY DEF OverHttpInv
<1>7. Current = Script[n] /\ Current' = Script[n]
    BY <1>2, <1>6 DEF Current
<1>8. PICK b \in Body :
          Works(Pump, Script[n].line, b) /\ body' = IF at'[Pump] = "idle" THEN b ELSE body
    BY <1>0, <1>7 DEF HttpServes
<1>9. /\ at \in [Exchanges -> {"idle", "handle", "tool", "confirm"}]
      /\ job \in [Exchanges -> [message : Message, session : 0 .. created]]
      /\ reply \in [Exchanges -> Reply]
      /\ NoJob \in [message : Message, session : 0 .. created]
    BY NoJobType DEF HttpInv, HttpTypeOK
<1> DEFINE raw == Script[n].line.raw
<1>10. Handling(raw, s)
    BY <1>5, <1>6, <1>7
<1>11. at'[Pump] # "idle" => Handling(raw, s)'
    <2>1. HandleMessage(Pump)
        BY <1>8 DEF Works
    <2> HIDE DEF raw
    <2> QED
        BY <1>4, <1>9, <1>10, <2>1, PumpStep
<1>12. n >= 2 => s \in received
    BY <1>6 DEF OverHttpInv
<1>13. Posted'
    <2>1. CASE at'[Pump] # "idle"
        BY <1>2, <1>6, <1>7, <1>11, <2>1 DEF Posted, Handling
    <2>2. CASE at'[Pump] = "idle" /\ (n >= 3 => s \in ready)
        <3>1. Served(n, s, b)
            BY <1>4, <1>8, <1>9, <1>10, <1>12, <2>2, AsExpected
        <3>2. /\ n = 1 => sid' \in received' /\ (n = 2 => sid' \in ready')
              /\ n # 2 => body' \in Script[n].expected
            BY <1>2, <1>6, <1>8, <2>2, <3>1 DEF Served
        <3>3. n = 2 => ~ HasReply'
            BY <1>7, ScriptLines DEF HasReply
        <3> QED
            BY <1>2, <1>6, <1>7, <2>2, <3>1, <3>2, <3>3 DEF Posted, Served
    <2>3. CASE at'[Pump] = "idle" /\ n >= 3 /\ s \notin ready
        <3>1. Gone'
            BY <1>3, <1>6, <2>3 DEF OverHttpInv
        <3> QED
            BY <1>2, <1>6, <2>3, <3>1 DEF Posted
    <2> QED
        BY <2>1, <2>2, <2>3
<1> QED
    BY <1>2, <1>3, <1>5, <1>13 DEF OverHttpInv

(* What becomes of what the probe posts to its session. *)
LEMMA PostsToSession ==
    ASSUME HttpInv, NEW raw, Named(raw) # "initialize", NEW s \in 0 .. created, s = sid, Posts(raw)
    PROVE  /\ UNCHANGED <<table, created, dropped, received, ready>>
           /\ \/ s \notin table /\ UNCHANGED <<at, job>>
              \/ s \in table /\ at'[Pump] = "handle" /\ Handling(raw, s)'
<1>1. /\ at \in [Exchanges -> {"idle", "handle", "tool", "confirm"}]
      /\ job \in [Exchanges -> [message : Message, session : 0 .. created]]
      /\ Pump \in Exchanges
    BY StdioServerAssumption DEF HttpInv, HttpTypeOK
<1>2. NoSession(Pump, s) \/ ToSession(Pump, MessageOf(raw), s)
    BY DEF Posts, ToNewSession, MessageOf
<1>3. CASE NoSession(Pump, s)
    BY <1>3 DEF NoSession, Error, Answer, netops
<1>4. CASE ToSession(Pump, MessageOf(raw), s)
    <2>1. /\ s \in table /\ UNCHANGED <<table, created, dropped, received, ready>>
          /\ at' = [at EXCEPT ![Pump] = "handle"]
          /\ job' = [job EXCEPT ![Pump] = [message |-> MessageOf(raw), session |-> s]]
        BY <1>4 DEF ToSession, HandOver, netops
    <2>2. at'[Pump] = "handle" /\ job'[Pump] = [message |-> MessageOf(raw), session |-> s]
        BY <1>1, <2>1
    <2> QED
        BY <2>1, <2>2 DEF Handling
<1> QED
    BY <1>2, <1>3, <1>4

LEMMA ScriptNamed ==
    \A n \in 1 .. 9 : /\ Script[n].line.raw.method = "initialize" <=> n = 1
                      /\ Named(Script[n].line.raw) = "initialize" <=> n = 1
<1>1. /\ Script[1].line.raw.method = "initialize" /\ Named(Script[1].line.raw) = "initialize"
      /\ \A n \in 2 .. 9 : Script[n].line.raw.method # "initialize"
      /\ \A n \in 2 .. 9 : Named(Script[n].line.raw) # "initialize"
    BY ScriptLines DEF Expects, IsEnvelope, MessageOf
<1> QED
    BY <1>1

LEMMA OverHttpRequest ==
    ASSUME way = "http", HttpInv, OverHttpInv, step \in 1 .. 9, HttpRequest
    PROVE  OverHttpInv'
<1>1. PICK n \in 1 .. 9, s \in 0 .. created : n = step /\ s = sid
    BY DEF OverHttpInv
<1> DEFINE raw == Script[n].line.raw
<1>2. /\ Current = Script[n] /\ Current' = Script[n]
      /\ phase = "script" /\ ~ waiting /\ Posts(raw) /\ waiting' = TRUE
      /\ sid' = IF raw.method = "initialize" THEN created' ELSE sid
      /\ UNCHANGED <<step, failed, phase>>
    BY <1>1 DEF HttpRequest, Current
<1>3. [HttpNext]_httpVars
    BY <1>1, OverHttpSteps DEF Probe
<1>4. at[Pump] = "idle"
    BY <1>2 DEF OverHttpInv
<1>5. CASE n = 1
    <2>1. sid = 0 /\ ~ failed
        BY <1>1, <1>2, <1>5 DEF OverHttpInv, Gone
    <2>2. Named(raw) = "initialize" /\ sid' = created'
        BY <1>2, <1>5, ScriptNamed
    <2>3. ToNewSession(Pump, MessageOf(raw))
        BY <1>2, <2>2 DEF Posts, NoSession, ToSession, MessageOf
    <2>4. /\ created \in Nat /\ created' = created + 1 /\ UNCHANGED dropped
          /\ dropped \subseteq 1 .. created
          /\ at' = [at EXCEPT ![Pump] = "handle"]
          /\ job' = [job EXCEPT ![Pump] = [message |-> MessageOf(raw), session |-> created + 1]]
        BY <2>3 DEF ToNewSession, HandOver, HttpInv, HttpTypeOK, Session
    <2>5. /\ at'[Pump] = "handle"
          /\ job'[Pump] = [message |-> MessageOf(raw), session |-> created + 1]
        BY <2>4, StdioServerAssumption DEF HttpInv, HttpTypeOK
    <2>6. Posted'
        BY <1>2, <2>2, <2>4, <2>5 DEF Posted, Handling
    <2>7. sid' \in 0 .. created' /\ sid' # 0 /\ sid' \notin dropped'
        BY <2>2, <2>4
    <2>8. ~ failed'
        BY <1>2, <2>1
    <2> QED
        BY <1>1, <1>2, <1>5, <2>6, <2>7, <2>8 DEF OverHttpInv
<1>6. CASE n # 1
    <2>1. sid' = sid /\ Named(raw) # "initialize" /\ s # 0
        BY <1>1, <1>2, <1>6, ScriptNamed DEF OverHttpInv
    <2>2. /\ sid' \in 0 .. created' /\ (Gone => Gone')
          /\ step' >= 2 => sid' \in received'
          /\ step' >= 3 => sid' \in ready' \/ Gone'
          /\ failed' => Gone'
        BY <1>2, <1>3, <2>1, OverHttpKept
    <2> HIDE DEF raw
    <2>3. /\ UNCHANGED <<table, created, dropped, received, ready>>
          /\ \/ s \notin table /\ UNCHANGED <<at, job>>
             \/ s \in table /\ at'[Pump] = "handle" /\ Handling(raw, s)'
        BY <1>1, <1>2, <2>1, PostsToSession
    <2>4. CASE s \notin table /\ UNCHANGED <<at, job>>
        <3>1. Gone
            BY <1>1, <1>2, <2>1, <2>4 DEF Gone, OverHttpInv
        <3>2. Posted'
            BY <1>1, <1>2, <1>4, <1>6, <2>2, <2>4, <3>1 DEF Posted
        <3> QED
            BY <1>1, <1>2, <2>1, <2>2, <2>3, <3>2 DEF OverHttpInv
    <2>5. CASE s \in table /\ at'[Pump] = "handle" /\ Handling(raw, s)'
        <3>1. Posted'
            BY <1>1, <1>2, <2>1, <2>5 DEF Posted, Handling, raw
        <3> QED
            BY <1>1, <1>2, <2>1, <2>2, <2>3, <3>1 DEF OverHttpInv
    <2> QED
        BY <2>3, <2>4, <2>5
<1> QED
    BY <1>5, <1>6

LEMMA OverHttpReply ==
    ASSUME way = "http", HttpInv, OverHttpInv, step \in 1 .. 9, HttpReply
    PROVE  OverHttpInv' /\ step' \in 1 .. 9 /\ waiting' = FALSE /\ phase' \in {"script", "closing"}
<1>1. PICK n \in 1 .. 9 : n = step
    OBVIOUS
<1>2. /\ Current = Script[n] /\ Len(Script) = 9
      /\ phase = "script" /\ waiting /\ at[Pump] = "idle" /\ Advance
      /\ failed' = (failed \/ ~ (HasReply => body \in Current.expected))
      /\ UNCHANGED <<received, ready, at, job, table, created, dropped, sid>>
    BY <1>1, ScriptIs DEF HttpReply, Current, Check, netops, registry
<1>3. /\ waiting' = FALSE
      /\ \/ n = 9 /\ step' = 9 /\ phase' = "closing"
         \/ n < 9 /\ step' = n + 1 /\ phase' = "script"
    BY <1>1, <1>2 DEF Advance
<1>4. Posted /\ sid # 0
    BY <1>2 DEF OverHttpInv
<1>5. Gone' <=> Gone
    BY <1>2 DEF Gone
<1>6. failed' => Gone'
    <2>1. (HasReply => body \in Current.expected) \/ Gone
        BY <1>2, <1>4 DEF Posted
    <2>2. failed => Gone
        BY DEF OverHttpInv
    <2> QED
        BY <1>2, <1>5, <2>1, <2>2, Zenon
<1>7. sid \in received /\ (n >= 2 => sid \in ready \/ Gone)
    <2>1. CASE n <= 2
        BY <1>1, <1>2, <1>4, <2>1 DEF Posted, OverHttpInv
    <2>2. CASE n >= 3
        BY <1>1, <2>2 DEF OverHttpInv
    <2> QED
        BY <2>1, <2>2
<1>8. step' \in 1 .. 9 /\ (step' >= 2 \/ waiting') /\ (phase' # "script" => step' = 9)
      /\ phase' \in {"script", "closing"} /\ (step' >= 3 => n >= 2)
    BY <1>3
<1>9. sid' \in 0 .. created' /\ sid' \notin dropped' /\ sid' # 0 /\ at'[Pump] = "idle"
    BY <1>2, <1>4 DEF OverHttpInv
<1>10. OverHttpInv'
    BY <1>2, <1>3, <1>5, <1>6, <1>7, <1>8, <1>9 DEF OverHttpInv
<1> QED
    BY <1>3, <1>8, <1>10

LEMMA OverHttpDelete ==
    ASSUME way = "http", HttpInv, OverHttpInv, HttpDelete
    PROVE  OverHttpInv' /\ UNCHANGED <<step, waiting>> /\ phase' \in {"refused", "done"}
<1>1. /\ phase = "closing" /\ UNCHANGED <<step, sid, waiting>> /\ ~ waiting
      /\ \/ EndSession(Pump, sid) /\ phase' = "refused" /\ UNCHANGED failed
         \/ EndUnknown(Pump, sid) /\ phase' = "done" /\ failed' = (failed \/ ~FALSE)
    BY DEF HttpDelete, OverHttpInv, Check
<1>2. /\ step = 9 /\ sid # 0 /\ sid \in received /\ sid \notin dropped
      /\ sid \in ready \/ Gone
      /\ at[Pump] = "idle" /\ sid \in 0 .. created
    BY <1>1 DEF OverHttpInv
<1>3. CASE EndSession(Pump, sid) /\ phase' = "refused" /\ UNCHANGED failed
    <2>1. /\ sid \in table /\ dropped' = dropped \cup {sid}
          /\ UNCHANGED <<received, ready, at, created>>
        BY <1>3 DEF EndSession, Answer, netops
    <2>2. ~ Gone
        BY <2>1 DEF Gone
    <2>3. ~ failed'
        BY <1>3, <2>2 DEF OverHttpInv
    <2> QED
        BY <1>1, <1>2, <1>3, <2>1, <2>2, <2>3 DEF OverHttpInv
<1>4. CASE EndUnknown(Pump, sid) /\ phase' = "done" /\ failed' = (failed \/ ~FALSE)
    <2>1. /\ sid \notin table
          /\ UNCHANGED <<received, ready, at, created, table, dropped>>
        BY <1>4 DEF EndUnknown, Answer, netops
    <2>2. Gone /\ Gone'
        BY <1>1, <1>2, <2>1 DEF Gone
    <2>3. failed'
        BY <1>4, Zenon
    <2> QED
        BY <1>1, <1>2, <1>4, <2>1, <2>2, <2>3 DEF OverHttpInv
<1> QED
    BY <1>1, <1>3, <1>4

LEMMA OverHttpPing ==
    ASSUME way = "http", HttpInv, OverHttpInv, HttpPing
    PROVE  OverHttpInv' /\ step' = step /\ waiting' \in BOOLEAN /\ phase' \in {"refused", "done"}
<1>1. /\ phase = "refused" /\ UNCHANGED <<step, sid>>
      /\ \/ /\ ~ waiting /\ Posts(Request("ping", "absent"))
            /\ waiting' = TRUE /\ body' = "invalid_request" /\ UNCHANGED <<failed, phase>>
         \/ /\ waiting /\ phase' = "done" /\ failed' = (failed \/ ~ (~ Succeeds(body)))
            /\ waiting' = FALSE
            /\ UNCHANGED <<received, ready, at, job, table, created, dropped>>
    BY DEF HttpPing, Check, netops, registry
<1>2. /\ step = 9 /\ sid # 0 /\ sid \in received /\ sid \in dropped
      /\ ~ failed /\ (waiting => body = "invalid_request")
      /\ at[Pump] = "idle" /\ sid \in 0 .. created
    BY <1>1 DEF OverHttpInv
<1>3. sid \notin table /\ ~ Gone /\ sid \in ready
    BY <1>2 DEF HttpInv, EvictedByNewer, OverHttpInv, Gone
<1>4. CASE /\ ~ waiting /\ Posts(Request("ping", "absent"))
           /\ waiting' = TRUE /\ body' = "invalid_request" /\ UNCHANGED <<failed, phase>>
    <2>1. PICK s \in 0 .. created : s = sid
        BY <1>2
    <2>2. PICK raw \in Raw : raw = Request("ping", "absent") /\ Named(raw) # "initialize"
        <3>1. "ping" \in Method \ {"notifications/initialized"}
            BY DEF Method
        <3>2. /\ Request("ping", "absent") \in Raw
              /\ MessageOf(Request("ping", "absent")).method = "ping"
            BY <3>1, Asked
        <3> QED
            BY <3>2 DEF MessageOf
    <2>3. /\ UNCHANGED <<table, created, dropped, received, ready>>
          /\ \/ s \notin table /\ UNCHANGED <<at, job>>
             \/ s \in table /\ at'[Pump] = "handle" /\ Handling(raw, s)'
        BY <1>4, <2>1, <2>2, PostsToSession
    <2>4. UNCHANGED <<table, created, dropped, received, ready, at>>
        BY <1>3, <2>1, <2>3
    <2>5. ~ failed'
        BY <1>2, <1>4
    <2> QED
        BY <1>1, <1>2, <1>3, <1>4, <2>4, <2>5 DEF OverHttpInv
<1>5. CASE /\ waiting /\ phase' = "done" /\ failed' = (failed \/ ~ (~ Succeeds(body)))
           /\ waiting' = FALSE
           /\ UNCHANGED <<received, ready, at, job, table, created, dropped>>
    <2>1. ~ Succeeds(body)
        BY <1>2, <1>5 DEF Succeeds
    <2>2. ~ failed'
        BY <1>2, <1>5, <2>1, Zenon
    <2>3. OverHttpInv'
        BY <1>1, <1>2, <1>3, <1>5, <2>2 DEF OverHttpInv
    <2>4. waiting' \in BOOLEAN /\ phase' \in {"refused", "done"}
        BY <1>5
    <2> QED
        BY <1>1, <2>3, <2>4
<1> QED
    BY <1>1, <1>4, <1>5

-----------------------------------------------------------------------------
LEMMA ConformanceInvInit == ConformanceInit => ConformanceInv
<1> SUFFICES ASSUME ConformanceInit PROVE ConformanceInv
    OBVIOUS
<1>1. /\ way \in {"stdio", "http", "lines"} /\ step = 1 /\ waiting = FALSE /\ sid = 0
      /\ ~ failed /\ phase = "script" /\ hand = NoLine /\ stdin = <<>> /\ stdout = <<>>
      /\ table = {} /\ created = 0 /\ dropped = {} /\ status = [x \in Exchanges |-> 0]
      /\ odd = [x \in Exchanges |-> "nothing"] /\ stained = FALSE
      /\ received = {} /\ ready = {} /\ served = {}
      /\ at = [x \in Exchanges |-> "idle"] /\ job = [x \in Exchanges |-> NoJob]
      /\ reply = [x \in Exchanges |-> "none"]
    BY DEF ConformanceInit, StdioServerInit
<1>2. HttpInv
    BY <1>1, HttpInvInit DEF HttpInit
<1>3. at[Pump] = "idle"
    BY <1>1, StdioServerAssumption
<1>4. OverHttpInv
    BY <1>1, <1>3 DEF OverHttpInv, Gone
<1>5. PipesInv
    BY <1>1, <1>3, NoJobType DEF PipesInv, Reply
<1>6. StdioInv
    <2>1. Sequel(<<>>)
        BY <1>1 DEF Sequel, Pending
    <2> QED
        BY <1>1, <2>1 DEF StdioInv
<1>7. step \in 1 .. 9 /\ phase \in {"script", "closing", "refused", "done"}
    BY <1>1
<1>8. waiting \in BOOLEAN
    BY <1>1
<1> QED
    BY <1>1, <1>2, <1>4, <1>5, <1>6, <1>7, <1>8 DEF ConformanceInv

LEMMA ConformanceInvStep == ConformanceInv /\ [ConformanceNext]_conformanceVars => ConformanceInv'
<1> SUFFICES ASSUME ConformanceInv, [ConformanceNext]_conformanceVars PROVE ConformanceInv'
    OBVIOUS
<1>1. /\ way \in {"stdio", "http", "lines"} /\ phase \in {"script", "closing", "refused", "done"}
      /\ step \in 1 .. 9 /\ waiting \in BOOLEAN
      /\ way = "http" => hand = NoLine /\ HttpInv /\ OverHttpInv
      /\ way # "http" => PipesInv
      /\ way = "stdio" => StdioInv
      /\ way = "lines" => ~ failed
    BY DEF ConformanceInv
<1>2. CASE UNCHANGED conformanceVars
    BY <1>1, <1>2 DEF conformanceVars, ConformanceInv, HttpInv, HttpTypeOK, HandshakeFirst, InHand,
           Here, Capped, EvictedByNewer, Session, OverHttpInv, Gone, Posted, Handling, HasReply,
           Current, PipesInv, StdioInv, Sequel, Pending
<1>3. CASE ConformanceNext /\ way = "http"
    <2>1. /\ way' = "http" /\ hand' = NoLine
          /\ Probe \/ Serves \/ Others
        BY <1>1, <1>3 DEF ConformanceNext, Probe, StdioRequest, StdioReply, StdioClose, AnyClient,
               HttpRequest, HttpReply, HttpDelete, HttpPing, Serves, HttpServes, Others, pipes
    <2>2. HttpInv'
        BY <1>1, <1>3, <2>1, OverHttpSteps, HttpInvStep
    <2>3. CASE HttpRequest
        <3>1. OverHttpInv'
            BY <1>1, <1>3, <2>3, OverHttpRequest
        <3>2. waiting' \in BOOLEAN /\ UNCHANGED <<step, phase>>
            BY <2>3 DEF HttpRequest
        <3> QED
            BY <1>1, <2>1, <2>2, <3>1, <3>2 DEF ConformanceInv
    <2>4. CASE HttpReply
        BY <1>1, <1>3, <2>1, <2>2, <2>4, OverHttpReply DEF ConformanceInv
    <2>5. CASE HttpDelete
        BY <1>1, <1>3, <2>1, <2>2, <2>5, OverHttpDelete DEF ConformanceInv
    <2>6. CASE HttpPing
        BY <1>1, <1>3, <2>1, <2>2, <2>6, OverHttpPing DEF ConformanceInv
    <2>7. CASE Serves
        <3>1. OverHttpInv'
            BY <1>1, <1>3, <2>7, OverHttpServed
        <3>2. UNCHANGED <<step, waiting, phase>>
            BY <1>3, <2>7 DEF Serves, HttpServes
        <3> QED
            BY <1>1, <2>1, <2>2, <3>1, <3>2 DEF ConformanceInv
    <2>8. CASE Others
        <3>1. OverHttpInv'
            BY <1>1, <1>3, <2>8, OverHttpOthers
        <3>2. UNCHANGED <<step, waiting, phase>>
            BY <2>8 DEF Others, probe
        <3> QED
            BY <1>1, <2>1, <2>2, <3>1, <3>2 DEF ConformanceInv
    <2>9. ~ (StdioRequest \/ StdioReply \/ StdioClose)
        BY <1>3 DEF StdioRequest, StdioReply, StdioClose
    <2> QED
        BY <2>1, <2>3, <2>4, <2>5, <2>6, <2>7, <2>8, <2>9 DEF Probe
<1>4. CASE ConformanceNext /\ way = "stdio"
    <2>1. way' = "stdio" /\ PipesInv /\ StdioInv
        BY <1>1, <1>4 DEF ConformanceNext, Probe, StdioRequest, StdioReply, StdioClose, AnyClient,
               HttpRequest, HttpReply, HttpDelete, HttpPing, Serves, HttpServes, Others
    <2>2. CASE StdioRequest \/ StdioReply \/ StdioClose
        <3>1. Current.line \in Sendable
            BY <1>1, ScriptIs DEF Current, Sendable
        <3>2. PipesInv'
            <4>1. CASE StdioRequest
                BY <2>1, <3>1, <4>1, PipesUsed DEF StdioRequest
            <4>2. CASE StdioReply
                BY <2>1, <4>2, PipesUsed DEF StdioReply
            <4>3. CASE CloseStdin
                BY <2>1, <4>3, PipesUsed
            <4>4. CASE UNCHANGED <<pipes, session>>
                BY <2>1, <4>4 DEF pipes, session, PipesInv, Handling
            <4> QED
                BY <2>2, <4>1, <4>2, <4>3, <4>4 DEF StdioClose
        <3>3. /\ StdioInv' /\ step' \in 1 .. 9 /\ waiting' \in BOOLEAN
              /\ phase' \in {"script", "closing", "refused", "done"}
            BY <1>1, <2>1, <2>2, StdioProbed
        <3> QED
            BY <2>1, <3>2, <3>3 DEF ConformanceInv
    <2>3. CASE Serves
        <3>1. StdioServe /\ UNCHANGED <<step, waiting, phase, failed>>
            BY <1>4, <2>3 DEF Serves, HttpServes, probe
        <3>2. PipesInv' /\ StdioInv'
            BY <1>1, <2>1, <3>1, PipesServed, StdioServed
        <3> QED
            BY <1>1, <2>1, <3>1, <3>2 DEF ConformanceInv
    <2>4. ~ (HttpRequest \/ HttpReply \/ HttpDelete \/ HttpPing \/ Others \/ AnyClient)
        BY <1>4 DEF HttpRequest, HttpReply, HttpDelete, HttpPing, Others, AnyClient
    <2> QED
        BY <1>4, <2>2, <2>3, <2>4 DEF ConformanceNext, Probe
<1>5. CASE ConformanceNext /\ way = "lines"
    <2>1. way' = "lines" /\ PipesInv /\ UNCHANGED <<step, waiting, phase, failed>>
          /\ (StdioServe \/ (\E line \in Line : SendLine(line)) \/ ReadLine \/ CloseStdin)
        BY <1>1, <1>5 DEF ConformanceNext, Probe, StdioRequest, StdioReply, StdioClose, AnyClient,
               HttpRequest, HttpReply, HttpDelete, HttpPing, Serves, HttpServes, Others, probe
    <2>2. PipesInv'
        BY <2>1, PipesServed, PipesUsed DEF Sendable
    <2> QED
        BY <1>1, <1>5, <2>1, <2>2 DEF ConformanceInv
<1> QED
    BY <1>1, <1>2, <1>3, <1>4, <1>5

(* A check fails only over HTTP, once newer clients have pushed the probe's *)
(* session out; and then one does fail, and the verdict is never missed.    *)
THEOREM ConformanceChecksPass == ConformanceSpec => []ChecksPass
<1>1. ConformanceSpec => []ConformanceInv
    BY ConformanceInvInit, ConformanceInvStep, PTL DEF ConformanceSpec
<1>2. ConformanceInv => ChecksPass
    <2>1. ConformanceInv /\ way = "stdio" /\ phase = "done" => stdout = <<>>
        BY DEF ConformanceInv, StdioInv, Sequel
    <2> QED
        BY <2>1 DEF ConformanceInv, OverHttpInv, Gone, StdioInv, ChecksPass
<1> QED
    BY <1>1, <1>2, PTL

-----------------------------------------------------------------------------
(* What a line that has been handled leaves on stdout. *)
LEMMA Tails ==
    ASSUME NEW S, NEW s \in Seq(S), NEW e \in S
    PROVE  /\ SubSeq(s, Len(s) + 1, Len(s)) = <<>>
           /\ Len(SubSeq(Append(s, e), Len(s) + 1, Len(Append(s, e)))) = 1
           /\ SubSeq(Append(s, e), Len(s) + 1, Len(Append(s, e)))[1] = e
<1>1. Len(s) \in Nat
    OBVIOUS
<1>2. SubSeq(s, Len(s) + 1, Len(s)) = <<>>
    BY <1>1
<1> DEFINE a == Append(s, e)
           n == Len(s) + 1
<1>3. a \in Seq(S) /\ Len(a) = n /\ a[n] = e /\ n \in 1 .. Len(a)
    BY <1>1, AppendProperties
<1> HIDE DEF a, n
<1>4. Len(SubSeq(a, n, n)) = 1 /\ SubSeq(a, n, n)[1] = e
    BY <1>3, SubSeqProperties
<1> QED
    BY <1>2, <1>3, <1>4 DEF a, n

(* A line leaves the server's hands only when its handling ends; then one  *)
(* reply has been written, or none.                                        *)
LineEnds(raw, b) ==
    /\ at'[Pump] = "idle" /\ hand' = NoLine /\ reply'[Pump] \in Owed(raw)
    /\ HandleMessage(Pump) /\ b \in Bodies(Pump, hand)
    /\ IF reply'[Pump] = "nothing" THEN Written = <<>>
       ELSE /\ Len(Written) = 1 /\ Written[1] = [id |-> ReplyId(hand), body |-> b]
            /\ reply'[Pump] = "result" <=> Succeeds(b)

LEMMA HandChanges ==
    ASSUME ConformanceInv, [ConformanceNext]_conformanceVars, hand # NoLine, hand' # hand
    PROVE  /\ PipesInv /\ hand \in Sendable /\ hand.text = "envelope" /\ hand.raw \in Raw
           /\ at[Pump] # "idle" /\ Handling(hand.raw, 1)
           /\ \E b \in Body : LineEnds(hand.raw, b)
<1> USE StdioServerAssumption
<1>1. way # "http" /\ PipesInv
    BY DEF ConformanceInv
<1>2. HandleLine
    BY <1>1 DEF ConformanceNext, conformanceVars, Probe, StdioRequest, StdioReply, StdioClose,
           HttpRequest, HttpReply, HttpDelete, HttpPing, Serves, HttpServes, Others, AnyClient,
           StdioServe, TakeLine, Exit, SendLine, ReadLine, CloseStdin, pipes
<1>3. /\ hand \in Sendable /\ hand.text = "envelope" /\ hand.raw \in Raw
      /\ at[Pump] # "idle" /\ Handling(hand.raw, 1)
    BY <1>1, SendableIs DEF PipesInv
<1>4. PICK b \in Body :
          /\ Works(Pump, hand, b)
          /\ hand' = IF at'[Pump] = "idle" THEN NoLine ELSE hand
          /\ IF at'[Pump] = "idle" /\ reply'[Pump] # "nothing" THEN Writes(hand, b)
                                                              ELSE UNCHANGED stdout
    BY <1>2 DEF HandleLine
<1>5. at'[Pump] = "idle" /\ hand' = NoLine /\ HandleMessage(Pump) /\ b \in Bodies(Pump, hand)
    BY <1>4 DEF Works
<1>6. reply'[Pump] \in Owed(hand.raw)
    <2>1. PICK raw \in Raw : raw = hand.raw
        BY <1>3
    <2>2. NoJob \in Stored
        BY NoJobType DEF Stored
    <2>3. reply'[Pump] \in Owed(raw)
        BY <1>1, <1>3, <1>5, <2>1, <2>2, PumpStep DEF PipesInv, Stored
    <2> QED
        BY <2>1, <2>3
<1>7. CASE reply'[Pump] = "nothing"
    <2>1. Written = <<>>
        BY <1>1, <1>4, <1>7, Tails DEF Written, PipesInv
    <2> QED
        BY <1>1, <1>3, <1>5, <1>6, <1>7, <2>1 DEF LineEnds
<1>8. CASE reply'[Pump] # "nothing"
    <2>1. /\ stdout' = Append(stdout, [id |-> ReplyId(hand), body |-> b])
          /\ stdout \in Seq(Replies)
        BY <1>1, <1>4, <1>5, <1>8 DEF Writes, PipesInv, Replies
    <2>2. [id |-> ReplyId(hand), body |-> b] \in Replies
        BY <1>3, Replied
    <2>3. Len(Written) = 1 /\ Written[1] = [id |-> ReplyId(hand), body |-> b]
        BY <2>1, <2>2, Tails DEF Written
    <2>4. reply'[Pump] \in {"result", "rpcError"}
        BY <1>6, <1>8 DEF Owed
    <2>5. reply'[Pump] = "result" <=> Succeeds(b)
        BY <1>4, <1>5, <2>4 DEF Works
    <2> QED
        BY <1>1, <1>3, <1>5, <1>6, <1>8, <2>3, <2>5 DEF LineEnds
<1> QED
    BY <1>7, <1>8

(* What parse_message makes of a reply. *)
LEMMA ReplyKindIs ==
    ASSUME NEW id, NEW b
    PROVE  ReplyKind([id |-> id, body |-> b]) =
               IF Succeeds(b) THEN IF id \in ValidId THEN "success" ELSE "invalid"
                              ELSE IF id # "bad" THEN "error" ELSE "invalid"
<1> DEFINE raw == [version |-> "2.0", id |-> id, method |-> "absent", params |-> "absent",
                   result |-> IF Succeeds(b) THEN "given" ELSE "absent",
                   error |-> IF Succeeds(b) THEN "absent" ELSE "object"]
<1>1. /\ raw.id = id /\ raw.method = "absent" /\ raw.version = "2.0"
      /\ raw.result = IF Succeeds(b) THEN "given" ELSE "absent"
      /\ raw.error = IF Succeeds(b) THEN "absent" ELSE "object"
    OBVIOUS
<1>2. ReplyKind([id |-> id, body |-> b]) = Parse(raw)
    BY DEF ReplyKind
<1> HIDE DEF raw
<1>3. ~ Called(raw) /\ Answers(raw)
    BY <1>1 DEF Called, Answers, Method
<1>4. CASE Succeeds(b)
    BY <1>1, <1>2, <1>3, <1>4, ParseIs
<1>5. CASE ~ Succeeds(b)
    BY <1>1, <1>2, <1>3, <1>5, ParseIs
<1> QED
    BY <1>4, <1>5

LEMMA RepliesPairStep ==
    ASSUME ConformanceInv, [ConformanceNext]_conformanceVars, hand # NoLine, hand' = NoLine
    PROVE  CASE Parse(hand.raw) = "request" ->
                  /\ Len(Written) = 1
                  /\ hand.raw.id # "halved" => Written[1].id = hand.raw.id
                  /\ ReplyKind(Written[1]) \in {"success", "error"}
             [] Parse(hand.raw) = "invalid" ->
                  /\ Len(Written) = 1
                  /\ ReplyKind(Written[1]) = IF hand.raw.id = "bad" THEN "invalid" ELSE "error"
             [] OTHER -> Written = <<>>
<1>1. PICK b \in Body : LineEnds(hand.raw, b)
    BY HandChanges
<1>2. hand.text = "envelope" /\ hand.raw \in Raw
    BY HandChanges
<1>3. ReplyId(hand) = IF hand.raw.id = "absent" THEN "null"
                      ELSE IF hand.raw.id = "halved" THEN "?" ELSE hand.raw.id
    BY <1>2 DEF ReplyId
<1>4. CASE Parse(hand.raw) = "request"
    <2>1. /\ hand.raw.id # "halved" => ReplyId(hand) = hand.raw.id
          /\ ReplyId(hand) \in ValidId /\ ReplyId(hand) # "bad"
        <3>1. hand.raw.id \in ValidId /\ {"absent", "bad"} \cap ValidId = {} /\ "?" \in ValidId
            BY <1>4, ParseIs, IdAssumption DEF ValidId
        <3> QED
            BY <1>3, <3>1
    <2>2. reply'[Pump] \in {"result", "rpcError"}
        BY <1>1, <1>4 DEF LineEnds, Owed
    <2>3. Len(Written) = 1 /\ Written[1] = [id |-> ReplyId(hand), body |-> b]
        BY <1>1, <2>2 DEF LineEnds
    <2>4. ReplyKind(Written[1]) \in {"success", "error"}
        BY <2>1, <2>3, ReplyKindIs
    <2> QED
        BY <1>4, <2>1, <2>3, <2>4
<1>5. CASE Parse(hand.raw) = "invalid"
    <2>1. reply'[Pump] = "rpcError"
        BY <1>1, <1>5 DEF LineEnds, Owed
    <2>2. /\ Len(Written) = 1 /\ Written[1] = [id |-> ReplyId(hand), body |-> b]
          /\ ~ Succeeds(b)
        BY <1>1, <2>1 DEF LineEnds
    <2>3. ReplyKind(Written[1]) = IF hand.raw.id = "bad" THEN "invalid" ELSE "error"
        BY <1>3, <2>2, ReplyKindIs
    <2> QED
        BY <1>5, <2>2, <2>3
<1>6. CASE Parse(hand.raw) \notin {"request", "invalid"}
    BY <1>1, <1>6 DEF LineEnds, Owed
<1> QED
    BY <1>4, <1>5, <1>6

(* Whatever lines a client sends: one reply for every request, which the   *)
(* client can pair with it, one for what is no message, none for the rest. *)
THEOREM ConformanceRepliesPair == ConformanceSpec => RepliesPair
<1>1. ConformanceSpec => []ConformanceInv
    BY ConformanceInvInit, ConformanceInvStep, PTL DEF ConformanceSpec
<1> QED
    BY <1>1, RepliesPairStep, PTL DEF ConformanceSpec, RepliesPair

-----------------------------------------------------------------------------
(* A handler whose arguments are valid does not raise, and refuses them    *)
(* only for what the schema cannot say.                                    *)
Excused(tool, args) ==
    \/ tool = "lookup_account" /\ Cardinality(OneOf(args)) # 1
    \/ tool = "schedule_visit" /\ args.date = "unreal"

LEMMA HandlerEnds ==
    ASSUME NEW tool \in Tool, NEW args, Valid(tool, args)
    PROVE  /\ Handler(tool, args) \in {"result", "isError", "invalid_params"}
           /\ Handler(tool, args) = "invalid_params" => Excused(tool, args)
<1> DEFINE given == DOMAIN args
<1>1. tool \in {"lookup_account", "check_service_status", "list_outages", "run_diagnostic",
                "open_ticket", "get_ticket", "schedule_visit"}
    BY DEF Tool, Properties
<1>2. Required[tool] \subseteq given /\ \A name \in given : args[name] \notin Keywords[name]
    BY DEF Valid
<1>3. \A name \in {"account_id", "phone", "region", "ticket_id", "date"} :
          "type" \in Keywords[name]
    BY DEF Keywords
<1>4. \A name \in {"account_id", "phone", "region", "ticket_id", "date"} :
          name \in given => Text(name, args)
    BY <1>2, <1>3 DEF Text
<1>5. ASSUME NEW name \in {"account_id", "phone", "ticket_id"}, name \in given, NEW rest
      PROVE  Find(name, args, rest) \in {rest, "isError"}
    BY <1>4, <1>5 DEF Find
<1>6. ASSUME NEW names \in SUBSET given, NEW rest PROVE Given(names, args, rest) = rest
    BY DEF Given
<1>7. CASE tool = "lookup_account"
    <2>1. CASE Cardinality(OneOf(args)) # 1
        BY <1>7, <2>1 DEF Handler, Excused
    <2>2. CASE Cardinality(OneOf(args)) = 1
        <3> DEFINE name == CHOOSE name \in OneOf(args) : TRUE
        <3>1. OneOf(args) # {}
            BY <2>2, FS_EmptySet
        <3>2. name \in OneOf(args)
            BY <3>1
        <3>3. name \in {"account_id", "phone"} /\ name \in given
            BY <3>2 DEF OneOf
        <3>4. Handler(tool, args) = Find(name, args, "result")
            BY <1>7, <2>2 DEF Handler
        <3> HIDE DEF name
        <3> QED
            BY <1>5, <3>3, <3>4
    <2> QED
        BY <2>1, <2>2
<1>8. CASE tool = "check_service_status"
    <2>1. "account_id" \in given
        BY <1>2, <1>8 DEF Required, Properties
    <2>2. Handler(tool, args) = Find("account_id", args, "result")
        BY <1>8 DEF Handler
    <2> QED
        BY <1>5, <2>1, <2>2
<1>9. CASE tool = "list_outages"
    <2>1. "region" \in given => Text("region", args)
        BY <1>4
    <2> QED
        BY <1>9, <2>1 DEF Handler
<1>10. CASE tool = "run_diagnostic"
    <2>1. "account_id" \in given /\ "test_type" \in given
        BY <1>2, <1>10 DEF Required, Properties
    <2>2. Handler(tool, args) = Find("account_id", args, "result")
        BY <1>6, <1>10, <2>1 DEF Handler
    <2> QED
        BY <1>5, <2>1, <2>2
<1>11. CASE tool = "open_ticket"
    <2>1. "account_id" \in given /\ "category" \in given /\ "description" \in given
        BY <1>2, <1>11 DEF Required, Properties
    <2>2. Handler(tool, args) = Find("account_id", args, "result")
        BY <1>6, <1>11, <2>1 DEF Handler
    <2> QED
        BY <1>5, <2>1, <2>2
<1>12. CASE tool = "get_ticket"
    <2>1. "ticket_id" \in given
        BY <1>2, <1>12 DEF Required, Properties
    <2>2. Handler(tool, args) = Find("ticket_id", args, "result")
        BY <1>12 DEF Handler
    <2> QED
        BY <1>5, <2>1, <2>2
<1>13. CASE tool = "schedule_visit"
    <2>1. "ticket_id" \in given /\ "date" \in given /\ "time_window" \in given
        BY <1>2, <1>13 DEF Required, Properties
    <2>2. Handler(tool, args) = Find("ticket_id", args, OnDate(args))
        BY <1>13 DEF Handler
    <2>3. Text("date", args) /\ args["date"] # "pattern"
        BY <1>2, <1>4, <2>1 DEF Keywords
    <2>4. /\ OnDate(args) \in {"invalid_params", "isError", "result"}
          /\ OnDate(args) = "invalid_params" => args.date = "unreal"
        BY <1>6, <2>1, <2>3 DEF OnDate
    <2> QED
        BY <1>5, <1>13, <2>1, <2>2, <2>4 DEF Excused
<1> QED
    BY <1>1, <1>7, <1>8, <1>9, <1>10, <1>11, <1>12, <1>13

LEMMA SchemaGuardsStep ==
    ASSUME ConformanceInv, [ConformanceNext]_conformanceVars,
           hand # NoLine, Calls(hand.raw), at[Pump] = "tool", hand' # hand
    PROVE  LET call == hand.call
               said == Written[1].body
           IN  /\ said = "internal_error" => Saves(call)
               /\ said = "invalid_params" /\ call.name \in Tool
                     /\ Valid(call.name, call.arguments) =>
                     \/ call.name = "lookup_account" /\ Cardinality(OneOf(call.arguments)) # 1
                     \/ call.name = "schedule_visit" /\ call.arguments.date = "unreal"
               /\ said \in {"result", "isError"} =>
                     call.name \in Tool /\ Valid(call.name, call.arguments)
<1>1. PICK b \in Body : LineEnds(hand.raw, b)
    BY HandChanges
<1>2. Handling(hand.raw, 1)
    BY HandChanges
<1>3. reply'[Pump] \in {"result", "rpcError"}
    BY <1>1 DEF LineEnds, Owed, Calls
<1>4. Written[1].body = b
    BY <1>1, <1>3 DEF LineEnds
<1>5. b \in Ends(hand.call)
    <2>1. job[Pump].message.method = "tools/call"
        BY <1>2, HeededIs DEF Handling, MessageOf, Named, Calls
    <2> QED
        BY <1>1, <2>1 DEF LineEnds, Bodies
<1> DEFINE call == hand.call
           guarded == call.name \in Tool /\ Valid(call.name, call.arguments)
<1>6. CASE guarded
    <2>1. Dispatch(call) = Handler(call.name, call.arguments)
        BY <1>6 DEF Dispatch
    <2>2. /\ Dispatch(call) \in {"result", "isError", "invalid_params"}
          /\ Dispatch(call) = "invalid_params" => Excused(call.name, call.arguments)
        BY <1>6, <2>1, HandlerEnds
    <2>3. b = Dispatch(call) \/ (b = "internal_error" /\ Saves(call))
        BY <1>5 DEF Ends
    <2> QED
        BY <1>4, <1>6, <2>2, <2>3 DEF Excused
<1>7. CASE ~ guarded
    <2>1. Dispatch(call) = "invalid_params" /\ ~ Saves(call)
        BY <1>7 DEF Dispatch, Saves
    <2>2. b = "invalid_params"
        BY <1>5, <2>1 DEF Ends
    <2> QED
        BY <1>4, <1>7, <2>2
<1> QED
    BY <1>6, <1>7

(* The advertised schema is all a caller has to go by: arguments that      *)
(* satisfy it are refused only by the two rules it cannot express, and no  *)
(* others reach a handler.                                                 *)
THEOREM ConformanceSchemaGuards == ConformanceSpec => SchemaGuardsHandlers
<1>1. ConformanceSpec => []ConformanceInv
    BY ConformanceInvInit, ConformanceInvStep, PTL DEF ConformanceSpec
<1> QED
    BY <1>1, SchemaGuardsStep, PTL DEF ConformanceSpec, SchemaGuardsHandlers
=============================================================================
