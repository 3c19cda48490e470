----------------------------- MODULE AgentProofs -----------------------------
(***************************************************************************)
(* The agent loop, for any cap, any number of questions and of tool calls: *)
(* results answer the calls right before them, and nothing is owed when    *)
(* the model is asked.                                                     *)
(*                                                                         *)
(* And the two modules built on it: whatever the screen and the keyboard   *)
(* do around it (Dashboard), and whatever an OpenAI-compatible provider    *)
(* answers (OpenAIAgent), the agent underneath is that loop; the header    *)
(* tells its state, what is printed stands under the line it is about, and *)
(* on Windows the lines submitted are the lines typed.                     *)
(***************************************************************************)
EXTENDS Dashboard, OpenAIAgent, SequenceTheorems, WellFoundedInduction, TLAPS

-----------------------------------------------------------------------------
(***************************************************************************)
(* Sequences.                                                              *)
(***************************************************************************)
LEMMA Appended ==
    ASSUME NEW S, NEW s \in Seq(S), NEW e \in S
    PROVE  /\ Append(s, e) \in Seq(S) /\ Append(s, e) # <<>> /\ Len(Append(s, e)) = Len(s) + 1
           /\ Append(s, e)[Len(s) + 1] = e /\ \A n \in 1 .. Len(s) : Append(s, e)[n] = s[n]
           /\ Append(s, e) = s \o <<e>>
<1>1. /\ Append(s, e) \in Seq(S) /\ Len(Append(s, e)) = Len(s) + 1
      /\ \A n \in 1 .. Len(s) + 1 : Append(s, e)[n] = IF n <= Len(s) THEN s[n] ELSE e
  OBVIOUS
<1>2. /\ s \o <<e>> \in Seq(S) /\ Len(s \o <<e>>) = Len(s) + 1
      /\ \A n \in 1 .. Len(s) + 1 : (s \o <<e>>)[n] = IF n <= Len(s) THEN s[n] ELSE e
  OBVIOUS
<1>3. Append(s, e) = s \o <<e>>
  <2> DEFINE a == Append(s, e)
             b == s \o <<e>>
  <2>1. a \in Seq(S) /\ b \in Seq(S) /\ Len(a) = Len(b) /\ \A n \in 1 .. Len(b) : a[n] = b[n]
    BY <1>1, <1>2
  <2> HIDE DEF a, b
  <2>2. a = b
    BY <2>1, SeqEqual
  <2> QED BY <2>2 DEF a, b
<1>4. Append(s, e) # <<>>
  <2>1. Len(s) \in Nat /\ Len(Append(s, e)) > 0
    BY <1>1
  <2> QED BY <2>1
<1> QED BY <1>1, <1>3, <1>4

LEMMA WithoutLast ==
    ASSUME NEW S, NEW s \in Seq(S), s # <<>>
    PROVE  SubSeq(s, 1, Len(s) - 1) \in Seq(S) /\ Len(SubSeq(s, 1, Len(s) - 1)) = Len(s) - 1
<1> DEFINE n == Len(s) - 1
<1>1. n \in Nat /\ n <= Len(s) /\ Len(s) \in Nat
  OBVIOUS
<1> HIDE DEF n
<1>2. SubSeq(s, 1, n) \in Seq(S) /\ Len(SubSeq(s, 1, n)) = n
  BY <1>1, SubSeqProperties
<1> QED BY <1>2 DEF n

(* Moving the first of one sequence to the end of the other leaves them    *)
(* the same when joined.                                                   *)
LEMMA MovesOver ==
    ASSUME NEW S, NEW r \in Seq(S), NEW t \in Seq(S), t # <<>>
    PROVE  Append(r, Head(t)) \o Tail(t) = r \o t
<1> DEFINE a == Append(r, Head(t)) \o Tail(t)
           b == r \o t
<1>1. /\ a \in Seq(S) /\ b \in Seq(S) /\ Len(a) = Len(b)
      /\ \A n \in 1 .. Len(b) : a[n] = b[n]
  OBVIOUS
<1> HIDE DEF a, b
<1>2. a = b
  BY <1>1, SeqEqual
<1> QED BY <1>2 DEF a, b

(* The least element of a set of numbers. *)
LEMMA LeastNat == ASSUME NEW T \in SUBSET Nat, T # {} PROVE \E m \in T : \A k \in T : m <= k
<1> DEFINE R == {p \in Nat \X Nat : p[1] < p[2]}
<1>1. IsWellFoundedOn(R, Nat)
  BY NatLessThanWellFounded DEF OpToRel
<1>2. \A x, y \in Nat : y < x => <<y, x>> \in R
  OBVIOUS
<1> HIDE DEF R
<1>3. PICK x \in T : \A y \in T : ~ (<<y, x>> \in R)
  BY <1>1, WFMin
<1>4. \A y \in T : ~ (y < x)
  BY <1>2, <1>3
<1> QED BY <1>4

(* Induction, for a set.  (The library's theorem is about an operator, and *)
(* no prover here can instantiate it.)                                     *)
LEMMA SetInduction ==
   ASSUME NEW T, 0 \in T, \A n \in Nat : n \in T => n + 1 \in T PROVE Nat \subseteq T
<1> SUFFICES ASSUME ~(Nat \subseteq T) PROVE FALSE
  OBVIOUS
<1>1. PICK m \in Nat \ T : \A k \in Nat \ T : m <= k
  <2>1. Nat \ T \in SUBSET Nat /\ Nat \ T # {}
    OBVIOUS
  <2> QED BY <2>1, LeastNat
<1>2. m - 1 \in Nat /\ m - 1 \in T
  BY <1>1
<1> QED BY <1>1, <1>2

(* FlattenSeq: the i-th element of f is the first i of seqs, joined.       *)
Step(before, i, seqs) == IF i = 1 THEN seqs[i] ELSE before \o seqs[i]
Joins(f, seqs, n) == \A i \in 1 .. n : f[i] = Step(f[i - 1], i, seqs)

LEMMA JoinsExists ==
   ASSUME NEW S, NEW seqs \in Seq(Seq(S)), NEW n \in 0 .. Len(seqs)
   PROVE  \E f \in [1 .. n -> Seq(S)] : Joins(f, seqs, n)
<1> DEFINE T == {k \in Nat : k <= Len(seqs) => \E f \in [1 .. k -> Seq(S)] : Joins(f, seqs, k)}
<1>1. 0 \in T
  <2>1. PICK f : f = [i \in 1 .. 0 |-> <<>>]
    OBVIOUS
  <2>2. f \in [1 .. 0 -> Seq(S)] /\ Joins(f, seqs, 0)
    BY <2>1 DEF Joins
  <2> QED BY <2>2
<1>2. ASSUME NEW k \in Nat, k \in T PROVE k + 1 \in T
  <2> SUFFICES ASSUME k + 1 <= Len(seqs)
               PROVE  \E g \in [1 .. k + 1 -> Seq(S)] : Joins(g, seqs, k + 1)
    OBVIOUS
  <2>1. PICK f \in [1 .. k -> Seq(S)] : Joins(f, seqs, k)
    BY <1>2
  <2> DEFINE next == Step(f[k], k + 1, seqs)
             g == [i \in 1 .. k + 1 |-> IF i <= k THEN f[i] ELSE next]
  <2>2. next \in Seq(S)
    <3>1. seqs[k + 1] \in Seq(S) /\ (k + 1 # 1 => f[k] \in Seq(S))
      BY <2>1
    <3> QED BY <3>1 DEF Step
  <2>3. g \in [1 .. k + 1 -> Seq(S)] /\ g[k + 1] = next /\ \A i \in 1 .. k : g[i] = f[i]
    BY <2>1, <2>2
  <2>4. ASSUME NEW i \in 1 .. k + 1 PROVE g[i] = Step(g[i - 1], i, seqs)
    <3> HIDE DEF g
    <3>1. CASE i = k + 1
      <4>1. i # 1 => g[i - 1] = f[k]
        BY <2>3, <3>1
      <4>2. g[i] = Step(f[k], i, seqs)
        BY <2>3, <3>1
      <4> QED BY <4>1, <4>2 DEF Step
    <3>2. CASE i <= k
      <4>1. g[i] = Step(f[i - 1], i, seqs) /\ (i # 1 => g[i - 1] = f[i - 1])
        BY <2>1, <2>3, <3>2 DEF Joins
      <4> QED BY <4>1 DEF Step
    <3> QED BY <3>1, <3>2
  <2> HIDE DEF g
  <2>5. Joins(g, seqs, k + 1)
    BY <2>4 DEF Joins
  <2> QED BY <2>3, <2>5
<1> HIDE DEF T
<1>3. Nat \subseteq T
  BY <1>1, <1>2, SetInduction
<1> QED BY <1>3 DEF T

SameTo(a, b, n) == \A i \in 1 .. n : a[i] = b[i]

LEMMA JoinsAgree ==
   ASSUME NEW seqs, NEW more, NEW m \in Nat, NEW f, NEW g,
          Joins(f, seqs, m), Joins(g, more, m), SameTo(seqs, more, m)
   PROVE  SameTo(f, g, m)
<1> DEFINE T == {i \in Nat : i \in 1 .. m => f[i] = g[i]}
<1>1. 0 \in T
  OBVIOUS
<1>2. ASSUME NEW i \in Nat, i \in T PROVE i + 1 \in T
  <2> SUFFICES ASSUME i + 1 \in 1 .. m PROVE f[i + 1] = g[i + 1]
    OBVIOUS
  <2>1. f[i + 1] = Step(f[i], i + 1, seqs) /\ g[i + 1] = Step(g[i], i + 1, more)
    <3>1. i + 1 \in 1 .. m /\ i + 1 - 1 = i
      OBVIOUS
    <3> QED BY <3>1 DEF Joins
  <2>2. i + 1 # 1 => f[i] = g[i]
    BY <1>2
  <2> QED BY <2>1, <2>2 DEF Step, SameTo
<1> HIDE DEF T
<1>3. Nat \subseteq T
  BY <1>1, <1>2, SetInduction
<1> QED BY <1>3 DEF T, SameTo

LEMMA FlattenJoins ==
   ASSUME NEW S, NEW seqs \in Seq(Seq(S)), seqs # <<>>
   PROVE  \E f \in [1 .. Len(seqs) -> Seq(S)] :
              Joins(f, seqs, Len(seqs)) /\ FlattenSeq(seqs) = f[Len(seqs)]
<1>1. Len(seqs) \in Nat /\ Len(seqs) # 0
  OBVIOUS
<1> DEFINE Defines(f) == f = [i \in 1 .. Len(seqs) |-> IF i = 1 THEN seqs[i] ELSE f[i - 1] \o seqs[i]]
           h == CHOOSE f : Defines(f)
<1>2. FlattenSeq(seqs) = h[Len(seqs)]
  BY <1>1 DEF FlattenSeq
<1>3. PICK f \in [1 .. Len(seqs) -> Seq(S)] : Joins(f, seqs, Len(seqs))
  <2>1. Len(seqs) \in 0 .. Len(seqs)
    BY <1>1
  <2> QED BY <2>1, JoinsExists, Zenon
<1>4. Defines(f)
  <2>1. \A i \in 1 .. Len(seqs) : f[i] = IF i = 1 THEN seqs[i] ELSE f[i - 1] \o seqs[i]
    BY <1>3 DEF Joins, Step
  <2> QED BY <2>1
<1>5. Defines(h)
  <2> HIDE DEF Defines
  <2> QED BY <1>4
<1> HIDE DEF h
<1>6. Joins(h, seqs, Len(seqs))
  BY <1>5 DEF Joins, Step
<1>7. SameTo(h, f, Len(seqs))
  <2>1. SameTo(seqs, seqs, Len(seqs))
    BY DEF SameTo
  <2> QED BY <1>1, <1>3, <1>6, <2>1, JoinsAgree
<1>8. h[Len(seqs)] = f[Len(seqs)]
  BY <1>1, <1>7 DEF SameTo
<1> QED BY <1>2, <1>3, <1>8

LEMMA FlattenAppend ==
    ASSUME NEW S, NEW seqs \in Seq(Seq(S)), NEW e \in Seq(S)
    PROVE  /\ FlattenSeq(seqs) \in Seq(S)
           /\ FlattenSeq(Append(seqs, e)) = FlattenSeq(seqs) \o e
<1> DEFINE more == Append(seqs, e)
           l == Len(seqs)
<1>1. /\ more \in Seq(Seq(S)) /\ more # <<>> /\ Len(more) = l + 1 /\ more[l + 1] = e
      /\ l \in Nat /\ \A i \in 1 .. l : seqs[i] = more[i]
  <2>1. more \in Seq(Seq(S)) /\ Len(more) = l + 1 /\ l \in Nat
    OBVIOUS
  <2>2. more[l + 1] = e /\ \A i \in 1 .. l : more[i] = seqs[i]
    OBVIOUS
  <2> HIDE DEF more, l
  <2>3. more # <<>>
    BY <2>1
  <2> QED BY <2>1, <2>2, <2>3
<1> HIDE DEF more
<1>2. PICK g \in [1 .. l + 1 -> Seq(S)] : Joins(g, more, l + 1) /\ FlattenSeq(more) = g[l + 1]
  BY <1>1, FlattenJoins
<1>3. g[l + 1] = Step(g[l], l + 1, more)
  BY <1>1, <1>2 DEF Joins
<1>4. CASE seqs = <<>>
  <2>1. FlattenSeq(seqs) = <<>> /\ l = 0
    BY <1>4 DEF FlattenSeq
  <2>2. FlattenSeq(more) = e
    BY <1>1, <1>2, <1>3, <2>1 DEF Step
  <2> QED BY <2>1, <2>2 DEF more
<1>5. CASE seqs # <<>>
  <2>1. PICK f \in [1 .. l -> Seq(S)] : Joins(f, seqs, l) /\ FlattenSeq(seqs) = f[l]
    BY <1>5, FlattenJoins
  <2>2. l # 0
    BY <1>5
  <2>3. SameTo(f, g, l)
    <3>1. Joins(g, more, l) /\ SameTo(seqs, more, l)
      BY <1>1, <1>2 DEF Joins, SameTo
    <3> QED BY <1>1, <2>1, <3>1, JoinsAgree
  <2>4. f[l] = g[l] /\ f[l] \in Seq(S)
    BY <1>1, <2>1, <2>2, <2>3 DEF SameTo
  <2>5. FlattenSeq(more) = f[l] \o e
    BY <1>1, <1>2, <1>3, <2>2, <2>4 DEF Step
  <2> QED BY <2>1, <2>4, <2>5 DEF more
<1> QED BY <1>4, <1>5

-----------------------------------------------------------------------------
(***************************************************************************)
(* The agent loop.                                                         *)
(***************************************************************************)
(* A turn in progress: the last message is what the state says it is.      *)
LastMessage ==
    /\ at = "tools" =>
          /\ Len(messages) > 0
          /\ messages[Len(messages)] = FromModel(results \o todo)
    /\ at = "model" =>
          /\ Len(messages) > 0
          /\ messages[Len(messages)].kind # "assistant"
    /\ at # "prompt" => iteration \in 1 .. MaxIterations
    /\ at # "tools" => results = <<>>

(* In the turn in progress only the last message can have calls to answer. *)
TurnSoFar ==
    at # "prompt" =>
        \A i \in ThisTurn : messages[i].kind = "assistant" /\ i < Len(messages) =>
            messages[i + 1] = Results(messages[i].calls)

AgentInv == AgentTypeOK /\ AnsweredInOrder /\ LastMessage /\ TurnSoFar

(* Message m is added to the conversation. *)
Grows(m) == messages' = Append(messages, m)

-----------------------------------------------------------------------------
LEMMA InitInv == AgentInit => AgentInv
BY AgentAssumption DEF AgentInit, AgentInv, AgentTypeOK, AnsweredInOrder, LastMessage, TurnSoFar

(* What a step that adds message m has to show of the conversation. *)
LEMMA GrowsKeeps ==
    ASSUME AgentInv, NEW m \in Message, Grows(m),
           m.kind = "results" => Len(messages) > 0 /\ messages[Len(messages)] = FromModel(m.calls),
           m.kind = "assistant" => Len(messages) > 0 /\ messages[Len(messages)].kind # "assistant"
    PROVE  /\ messages' \in Seq(Message)
           /\ Len(messages') = Len(messages) + 1 /\ messages'[Len(messages) + 1] = m
           /\ \A i \in 1 .. Len(messages) : messages'[i] = messages[i]
           /\ AnsweredInOrder'
<1>1. /\ messages \in Seq(Message) /\ messages' \in Seq(Message)
      /\ Len(messages') = Len(messages) + 1 /\ messages'[Len(messages) + 1] = m
      /\ \A i \in 1 .. Len(messages) : messages'[i] = messages[i]
  BY DEF Grows, AgentInv, AgentTypeOK
<1>2. AnsweredInOrder'
  <2> SUFFICES ASSUME NEW i \in 1 .. Len(messages) + 1
               PROVE  /\ messages'[i].kind = "results" =>
                            i > 1 /\ messages'[i - 1] = FromModel(messages'[i].calls)
                      /\ messages'[i].kind = "assistant" =>
                            i > 1 /\ messages'[i - 1].kind # "assistant"
    BY <1>1 DEF AnsweredInOrder
  <2>1. CASE i = Len(messages) + 1
    <3>1. messages'[i] = m /\ i - 1 = Len(messages) /\ (Len(messages) > 0 => i > 1)
      BY <1>1, <2>1
    <3>2. Len(messages) > 0 => messages'[i - 1] = messages[Len(messages)]
      BY <1>1, <3>1
    <3> QED BY <3>1, <3>2
  <2>2. CASE i <= Len(messages)
    BY <1>1, <2>2 DEF AgentInv, AnsweredInOrder
  <2> QED BY <1>1, <2>1, <2>2
<1> QED BY <1>1, <1>2

(* The turn goes on with m, an answer to the last message if that has      *)
(* calls.                                                                  *)
LEMMA TurnGrows ==
    ASSUME AgentInv, NEW m \in Message, Grows(m), at # "prompt", m.kind # "question",
           Len(messages) > 0,
           messages[Len(messages)].kind = "assistant" => m = Results(messages[Len(messages)].calls)
    PROVE  TurnSoFar'
<1>1. /\ messages \in Seq(Message)
      /\ Len(messages') = Len(messages) + 1 /\ messages'[Len(messages) + 1] = m
      /\ \A i \in 1 .. Len(messages) : messages'[i] = messages[i]
  BY DEF Grows, AgentInv, AgentTypeOK
<1> SUFFICES ASSUME NEW i \in ThisTurn', messages'[i].kind = "assistant", i < Len(messages')
             PROVE  messages'[i + 1] = Results(messages'[i].calls)
  BY DEF TurnSoFar
<1>2. i \in 1 .. Len(messages)
  BY <1>1 DEF ThisTurn
<1>3. i \in ThisTurn
  BY <1>1, <1>2 DEF ThisTurn
<1>4. CASE i = Len(messages)
  BY <1>1, <1>2, <1>4
<1>5. CASE i < Len(messages)
  BY <1>1, <1>2, <1>3, <1>5 DEF AgentInv, TurnSoFar
<1> QED BY <1>1, <1>2, <1>4, <1>5

(* The turn is over, and the conversation as it was or one message longer. *)
LEMMA EndKeeps ==
    ASSUME AgentInv, EndTurn, messages' \in Seq(Message), AnsweredInOrder' PROVE AgentInv'
BY DEF EndTurn, AgentInv, AgentTypeOK, LastMessage, TurnSoFar

LEMMA AskKeeps == ASSUME AgentInv, Ask PROVE AgentInv'
<1>1. Grows(Question) /\ Question \in Message
  BY DEF Ask, Grows, Question, Message
<1>2. /\ messages' \in Seq(Message)
      /\ Len(messages') = Len(messages) + 1 /\ messages'[Len(messages) + 1] = Question
      /\ AnsweredInOrder'
  BY <1>1, GrowsKeeps DEF Question
<1>3. messages \in Seq(Message)
  BY DEF AgentInv, AgentTypeOK
<1>4. LastMessage'
  BY <1>2, <1>3, AgentAssumption DEF Ask, AgentInv, LastMessage, Question
<1>5. TurnSoFar'
  <2> SUFFICES ASSUME NEW i \in ThisTurn', i < Len(messages') PROVE FALSE
    BY DEF TurnSoFar
  <2> QED BY <1>2, <1>3 DEF ThisTurn, Question
<1>6. AgentTypeOK'
  BY <1>2, AgentAssumption DEF Ask, AgentInv, AgentTypeOK
<1> QED BY <1>2, <1>4, <1>5, <1>6 DEF AgentInv

LEMMA RespondKeeps ==
    ASSUME AgentInv, NEW calls \in Seq(CallId), NEW stop_reason, Respond(calls, stop_reason)
    PROVE  AgentInv'
<1>1. Grows(FromModel(calls)) /\ FromModel(calls) \in Message
  BY DEF Respond, Grows, FromModel, Message
<1>2. /\ at = "model" /\ Len(messages) > 0 /\ messages[Len(messages)].kind # "assistant"
      /\ results = <<>> /\ iteration \in 1 .. MaxIterations
  BY DEF Respond, AgentInv, LastMessage
<1>3. /\ messages' \in Seq(Message)
      /\ Len(messages') = Len(messages) + 1 /\ messages'[Len(messages) + 1] = FromModel(calls)
      /\ AnsweredInOrder'
  BY <1>1, <1>2, GrowsKeeps DEF FromModel
<1>4. CASE EndTurn
  BY <1>3, <1>4, EndKeeps
<1>5. ASSUME at' = "tools", todo' = calls, UNCHANGED <<iteration, results, turns>>
      PROVE  AgentInv'
  <2>1. messages \in Seq(Message)
    BY DEF AgentInv, AgentTypeOK
  <2>2. results' \o todo' = calls
    BY <1>2, <1>5
  <2>3. LastMessage'
    BY <1>2, <1>3, <1>5, <2>1, <2>2 DEF LastMessage
  <2>4. TurnSoFar'
    BY <1>1, <1>2, TurnGrows DEF FromModel
  <2>5. AgentTypeOK'
    BY <1>3, <1>5 DEF AgentInv, AgentTypeOK
  <2> QED BY <1>3, <2>3, <2>4, <2>5 DEF AgentInv
<1> QED BY <1>4, <1>5 DEF Respond

LEMMA ExecuteKeeps == ASSUME AgentInv, ExecuteTool PROVE AgentInv'
<1>1. /\ results \in Seq(CallId) /\ todo \in Seq(CallId) /\ todo # <<>>
      /\ results' = Append(results, Head(todo)) /\ todo' = Tail(todo)
      /\ at = "tools" /\ UNCHANGED <<at, messages, iteration, turns>>
  BY DEF ExecuteTool, AgentInv, AgentTypeOK
<1>2. results' \o todo' = results \o todo
  BY <1>1, MovesOver
<1>3. results' \in Seq(CallId) /\ todo' \in Seq(CallId)
  BY <1>1
<1> QED
  BY <1>1, <1>2, <1>3
     DEF AgentInv, AgentTypeOK, AnsweredInOrder, LastMessage, TurnSoFar, ThisTurn

LEMMA AddKeeps == ASSUME AgentInv, AddToolResults PROVE AgentInv'
<1>1. /\ at = "tools" /\ todo = <<>> /\ results \in Seq(CallId)
      /\ Len(messages) > 0 /\ messages[Len(messages)] = FromModel(results \o todo)
      /\ messages \in Seq(Message) /\ iteration \in 1 .. MaxIterations
  BY DEF AddToolResults, AgentInv, LastMessage, AgentTypeOK
<1>2. messages[Len(messages)] = FromModel(results)
  BY <1>1
<1>3. Grows(Results(results)) /\ Results(results) \in Message
  BY <1>1 DEF AddToolResults, Grows, Results, Message
<1>4. /\ messages' \in Seq(Message)
      /\ Len(messages') = Len(messages) + 1 /\ messages'[Len(messages) + 1] = Results(results)
      /\ AnsweredInOrder'
  BY <1>1, <1>2, <1>3, GrowsKeeps DEF Results
<1>5. CASE EndTurn
  BY <1>4, <1>5, EndKeeps
<1>6. ASSUME ~LastRound, at' = "model", iteration' = iteration + 1, results' = <<>>,
             UNCHANGED <<todo, turns>>
      PROVE  AgentInv'
  <2>1. iteration' \in 1 .. MaxIterations
    BY <1>1, <1>6, AgentAssumption DEF LastRound
  <2>2. LastMessage'
    BY <1>1, <1>4, <1>6, <2>1 DEF LastMessage, Results
  <2>3. TurnSoFar'
    BY <1>1, <1>2, <1>3, TurnGrows DEF Results, FromModel
  <2>4. AgentTypeOK'
    BY <1>4, <1>6, <2>1, AgentAssumption DEF AgentInv, AgentTypeOK
  <2> QED BY <1>4, <2>2, <2>3, <2>4 DEF AgentInv
<1> QED BY <1>5, <1>6 DEF AddToolResults

LEMMA AgentStep == ASSUME AgentInv, [AgentNext]_agentVars PROVE AgentInv'
<1>1. CASE UNCHANGED agentVars
  BY <1>1 DEF agentVars, AgentInv, AgentTypeOK, AnsweredInOrder, LastMessage, TurnSoFar, ThisTurn
<1>2. CASE Ask
  BY <1>2, AskKeeps
<1>3. CASE Reset
  BY <1>3 DEF Reset, AgentInv, AgentTypeOK, AnsweredInOrder, LastMessage, TurnSoFar
<1>4. CASE ModelFails \/ ToolRaises
  <2>1. EndTurn /\ messages' \in Seq(Message) /\ AnsweredInOrder'
    BY <1>4 DEF ModelFails, ToolRaises, AgentInv, AgentTypeOK, AnsweredInOrder
  <2> QED BY <2>1, EndKeeps
<1>5. CASE ExecuteTool \/ AddToolResults
  BY <1>5, ExecuteKeeps, AddKeeps
<1>6. CASE \E calls \in Responses, stop_reason \in StopReason : Respond(calls, stop_reason)
  <2>1. Responses \subseteq Seq(CallId)
    BY AgentAssumption DEF Responses
  <2> QED BY <1>6, <2>1, RespondKeeps
<1> QED BY <1>1, <1>2, <1>3, <1>4, <1>5, <1>6 DEF AgentNext, ToolStep

LEMMA AgentInvariant == AgentSpec => []AgentInv
BY InitInv, AgentStep, PTL DEF AgentSpec

-----------------------------------------------------------------------------
(* Whatever fails and wherever a turn is cut short, results stand right    *)
(* behind the calls they answer, all of them and in order.                 *)
THEOREM AgentAnswersInOrder == AgentSpec => []AnsweredInOrder
<1>1. AgentInv => AnsweredInOrder
  BY DEF AgentInv
<1> QED BY <1>1, AgentInvariant, PTL

(* The model is asked only when every call of the turn has its answer.     *)
THEOREM AgentOwesNothing == AgentSpec => []NothingOwed
<1>1. AgentInv => NothingOwed
  <2> SUFFICES ASSUME AgentInv, at = "model", NEW i \in ThisTurn, messages[i].kind = "assistant"
               PROVE  i < Len(messages) /\ messages[i + 1] = Results(messages[i].calls)
    BY DEF NothingOwed
  <2>1. i \in 1 .. Len(messages) /\ i # Len(messages)
    BY DEF AgentInv, LastMessage, ThisTurn
  <2> QED BY <2>1 DEF AgentInv, TurnSoFar, AgentTypeOK
<1> QED BY <1>1, AgentInvariant, PTL
-----------------------------------------------------------------------------
(***************************************************************************)
(* The agent over an OpenAI-compatible provider.                           *)
(***************************************************************************)
Wire == [role : {"user", "assistant", "tool"}, calls : Seq(CallId)]
FromAssistant(calls) == [role |-> "assistant", calls |-> calls]

LEMMA ConvertedIsWire == ASSUME NEW m \in Message PROVE Converted(m) \in Seq(Wire)
<1>1. m.calls \in Seq(CallId)
  BY DEF Message
<1>2. CASE m.kind = "question"
  BY <1>2 DEF Converted, Wire
<1>3. CASE m.kind = "assistant"
  BY <1>1, <1>3 DEF Converted, Wire
<1>4. CASE m.kind = "results"
  <2>1. \A n \in 1 .. Len(m.calls) : [role |-> "tool", calls |-> <<m.calls[n]>>] \in Wire
    BY <1>1 DEF Wire
  <2>2. ToolMessages(m.calls) \in Seq(Wire)
    BY <1>1, <2>1 DEF ToolMessages
  <2> QED BY <1>4, <2>2 DEF Converted
<1> QED BY <1>2, <1>3, <1>4 DEF Message

(* What is sent grows by what the new message is converted to. *)
LEMMA ConvertsOneMore ==
    ASSUME NEW h \in Seq(Message), NEW m \in Message
    PROVE  /\ ToOpenAIMessages(h) \in Seq(Wire)
           /\ ToOpenAIMessages(Append(h, m)) = ToOpenAIMessages(h) \o Converted(m)
<1> DEFINE c == [i \in 1 .. Len(h) |-> Converted(h[i])]
           d == [i \in 1 .. Len(Append(h, m)) |-> Converted(Append(h, m)[i])]
<1>1. Converted(m) \in Seq(Wire) /\ \A i \in 1 .. Len(h) : Converted(h[i]) \in Seq(Wire)
  BY ConvertedIsWire
<1>2. c \in Seq(Seq(Wire)) /\ Len(c) = Len(h) /\ \A i \in 1 .. Len(h) : c[i] = Converted(h[i])
  BY <1>1
<1>3. /\ Len(Append(h, m)) = Len(h) + 1 /\ Append(h, m)[Len(h) + 1] = m
      /\ \A i \in 1 .. Len(h) : Append(h, m)[i] = h[i]
  OBVIOUS
<1>4. d \in Seq(Seq(Wire)) /\ Len(d) = Len(h) + 1 /\ d[Len(h) + 1] = Converted(m)
      /\ \A i \in 1 .. Len(h) : d[i] = c[i]
  <2>1. \A i \in 1 .. Len(h) + 1 : Converted(Append(h, m)[i]) \in Seq(Wire)
    BY <1>1, <1>3
  <2> QED BY <1>2, <1>3, <2>1
<1>5. d = Append(c, Converted(m))
  <2> DEFINE a == Append(c, Converted(m))
  <2>1. a \in Seq(Seq(Wire)) /\ Len(a) = Len(d) /\ \A i \in 1 .. Len(a) : a[i] = d[i]
    <3> HIDE DEF c, d
    <3> QED BY <1>1, <1>2, <1>4
  <2> HIDE DEF a, d
  <2>2. a = d
    BY <1>4, <2>1, SeqEqual
  <2> QED BY <2>2 DEF a
<1> HIDE DEF c, d
<1>6. FlattenSeq(c) \in Seq(Wire) /\ FlattenSeq(d) = FlattenSeq(c) \o Converted(m)
  BY <1>1, <1>2, <1>5, FlattenAppend
<1> QED BY <1>6 DEF ToOpenAIMessages, c, d

(* The turn in progress has a first message. *)
LEMMA FirstIsLeast ==
    messages \in Seq(Message) /\ messages # <<>> =>
        /\ FirstOfTurn \in ThisTurn /\ FirstOfTurn \in 1 .. Len(messages)
        /\ \A j \in ThisTurn : FirstOfTurn <= j
<1> SUFFICES ASSUME messages \in Seq(Message), messages # <<>>
             PROVE  /\ FirstOfTurn \in ThisTurn /\ FirstOfTurn \in 1 .. Len(messages)
                    /\ \A j \in ThisTurn : FirstOfTurn <= j
  OBVIOUS
<1>1. Len(messages) \in ThisTurn /\ ThisTurn \in SUBSET Nat
  BY DEF ThisTurn
<1>2. \E i \in ThisTurn : \A j \in ThisTurn : i <= j
  BY <1>1, LeastNat
<1>3. FirstOfTurn \in ThisTurn /\ \A j \in ThisTurn : FirstOfTurn <= j
  BY <1>2, Zenon DEF FirstOfTurn
<1> QED BY <1>3 DEF ThisTurn

LEMMA SentGrows ==
    ASSUME messages \in Seq(Message), messages # <<>>, NEW m \in Message, m.kind # "question", Grows(m)
    PROVE  Sent \in Seq(Wire) /\ Sent' = Sent \o Converted(m)
<1> DEFINE f == FirstOfTurn
           l == Len(messages)
<1>1. /\ messages' \in Seq(Message) /\ messages' # <<>> /\ Len(messages') = l + 1
      /\ messages'[l + 1] = m /\ \A i \in 1 .. l : messages'[i] = messages[i]
  <2>1. Append(messages, m) # <<>>
    BY Appended
  <2> QED BY <2>1 DEF Grows
<1>2. f \in ThisTurn /\ f \in 1 .. l /\ l \in Nat /\ \A j \in ThisTurn : f <= j
  BY FirstIsLeast
<1>3. FirstOfTurn' \in ThisTurn' /\ FirstOfTurn' \in 1 .. l + 1 /\ \A j \in ThisTurn' : FirstOfTurn' <= j
  <2>1. (messages \in Seq(Message) /\ messages # <<>> =>
            /\ FirstOfTurn \in ThisTurn /\ FirstOfTurn \in 1 .. Len(messages)
            /\ \A j \in ThisTurn : FirstOfTurn <= j)'
    BY FirstIsLeast, PTL
  <2> QED BY <1>1, <2>1
<1>4. ASSUME NEW i \in 1 .. l PROVE i \in ThisTurn' <=> i \in ThisTurn
  <2>1. i \in ThisTurn' <=> \A j \in i + 1 .. l + 1 : messages'[j].kind # "question"
    BY <1>1, <1>2 DEF ThisTurn
  <2>2. i \in ThisTurn <=> \A j \in i + 1 .. l : messages[j].kind # "question"
    BY <1>2 DEF ThisTurn
  <2>3. \A j \in i + 1 .. l + 1 :
            messages'[j].kind # "question" <=> j = l + 1 \/ messages[j].kind # "question"
    BY <1>1, <1>2
  <2>4. \A j \in i + 1 .. l : j \in i + 1 .. l + 1 /\ j # l + 1
    BY <1>2
  <2>5. \A j \in i + 1 .. l + 1 : j = l + 1 \/ j \in i + 1 .. l
    BY <1>2
  <2> QED BY <2>1, <2>2, <2>3, <2>4, <2>5, Zenon
<1>5. f \in ThisTurn'
  BY <1>2, <1>4
<1> HIDE DEF f
<1>6. FirstOfTurn' = f
  <2>1. FirstOfTurn' <= f
    BY <1>3, <1>5
  <2>2. FirstOfTurn' \in 1 .. l
    BY <1>2, <1>3, <2>1
  <2>3. f <= FirstOfTurn'
    BY <1>2, <1>3, <1>4, <2>2
  <2> QED BY <1>2, <2>1, <2>2, <2>3
<1> DEFINE h == SubSeq(messages, f, l)
           k == SubSeq(messages', f, l + 1)
           a == Append(h, m)
<1> HIDE DEF l
<1>7. /\ h \in Seq(Message) /\ Len(h) = l - f + 1
      /\ \A i \in 1 .. l - f + 1 : h[i] = messages[f + i - 1]
  <2>1. f \in Int /\ l \in Int /\ f <= l /\ \A i \in f .. l : messages[i] \in Message
    BY <1>2 DEF l
  <2> QED BY <2>1, SubSeqProperties
<1>8. /\ k \in Seq(Message) /\ Len(k) = l + 1 - f + 1
      /\ \A i \in 1 .. l + 1 - f + 1 : k[i] = messages'[f + i - 1]
  BY <1>1, <1>2, SubSeqProperties
<1> HIDE DEF h, k
<1>9. a \in Seq(Message) /\ Len(a) = Len(k) /\ \A i \in 1 .. Len(a) : a[i] = k[i]
  <2>1. a \in Seq(Message) /\ Len(a) = Len(h) + 1 /\ Len(a) = Len(k)
    <3>1. a \in Seq(Message) /\ Len(a) = Len(h) + 1
      BY <1>7, Appended
    <3> QED BY <1>2, <1>7, <1>8, <3>1
  <2>2. ASSUME NEW i \in 1 .. Len(a) PROVE a[i] = k[i]
    <3>1. i \in 1 .. l + 1 - f + 1 /\ k[i] = messages'[f + i - 1]
      BY <1>2, <1>8, <2>1
    <3>2. CASE i = Len(h) + 1
      <4>1. f + i - 1 = l + 1
        BY <1>2, <1>7, <3>2
      <4>2. a[i] = m
        BY <1>7, <3>2
      <4> QED BY <1>1, <3>1, <4>1, <4>2
    <3>3. CASE i # Len(h) + 1
      <4>1. i \in 1 .. l - f + 1 /\ i \in 1 .. Len(h) /\ f + i - 1 \in 1 .. l
        BY <1>2, <1>7, <2>1, <3>3
      <4>2. a[i] = h[i]
        BY <1>7, <4>1
      <4> QED BY <1>1, <1>7, <3>1, <4>1, <4>2
    <3> QED BY <3>2, <3>3
  <2> QED BY <2>1, <2>2
<1> HIDE DEF a
<1>10. a = k
  BY <1>8, <1>9, SeqEqual
<1>11. ToOpenAIMessages(h) \in Seq(Wire) /\ ToOpenAIMessages(k) = ToOpenAIMessages(h) \o Converted(m)
  BY <1>7, <1>10, ConvertsOneMore DEF a
<1>12. Sent = ToOpenAIMessages(h)
  BY DEF Sent, h, f, l
<1>13. Sent' = ToOpenAIMessages(k)
  BY <1>1, <1>6 DEF Sent, k
<1> QED BY <1>11, <1>12, <1>13
LEMMA SentStarts == ASSUME messages \in Seq(Message), Grows(Question)
                    PROVE  Sent' = <<[role |-> "user", calls |-> <<>>]>>
<1>1. Question \in Message
  BY DEF Question, Message
<1> DEFINE l == Len(messages)
<1>2. /\ messages' \in Seq(Message) /\ messages' # <<>> /\ Len(messages') = l + 1 /\ l \in Nat
      /\ messages'[l + 1] = Question
  <2>1. Append(messages, Question) # <<>>
    BY <1>1, Appended
  <2> QED BY <1>1, <2>1 DEF Grows
<1>3. FirstOfTurn' \in ThisTurn' /\ FirstOfTurn' \in 1 .. l + 1
  <2>1. (messages \in Seq(Message) /\ messages # <<>> =>
            /\ FirstOfTurn \in ThisTurn /\ FirstOfTurn \in 1 .. Len(messages)
            /\ \A j \in ThisTurn : FirstOfTurn <= j)'
    BY FirstIsLeast, PTL
  <2> QED BY <1>2, <2>1
<1>4. FirstOfTurn' = l + 1
  <2>1. CASE FirstOfTurn' < l + 1
    <3>1. l + 1 \in FirstOfTurn' + 1 .. Len(messages')
      BY <1>2, <1>3, <2>1
    <3>2. messages'[l + 1].kind # "question"
      BY <1>3, <3>1 DEF ThisTurn
    <3> QED BY <1>2, <3>2 DEF Question
  <2> QED BY <1>2, <1>3, <2>1
<1> DEFINE k == SubSeq(messages', l + 1, l + 1)
           a == Append(<<>>, Question)
<1>5. k \in Seq(Message) /\ Len(k) = 1 /\ k[1] = Question
  <2>1. l + 1 \in Int /\ \A i \in l + 1 .. l + 1 : messages'[i] \in Message
    BY <1>2
  <2> HIDE DEF l
  <2> QED BY <1>2, <2>1, SubSeqProperties
<1>6. a \in Seq(Message) /\ Len(a) = 1 /\ a[1] = Question
  BY <1>1
<1> HIDE DEF k, a
<1>7. a = k
  BY <1>5, <1>6, SeqEqual
<1>8. ToOpenAIMessages(k) = ToOpenAIMessages(<<>>) \o Converted(Question)
  <2>1. <<>> \in Seq(Message)
    OBVIOUS
  <2> QED BY <1>1, <1>7, <2>1, ConvertsOneMore DEF a
<1>9. ToOpenAIMessages(<<>>) = <<>>
  BY DEF ToOpenAIMessages, FlattenSeq
<1>10. Converted(Question) = <<[role |-> "user", calls |-> <<>>]>>
  BY DEF Converted, Question
<1>11. Sent' = ToOpenAIMessages(k)
  BY <1>2, <1>4 DEF Sent, k
<1> DEFINE u == <<[role |-> "user", calls |-> <<>>]>>
<1>12. u \in Seq(Wire)
  BY DEF Wire
<1> HIDE DEF u
<1>13. <<>> \o u = u
  BY <1>12
<1>14. ToOpenAIMessages(k) = <<>> \o u
  BY <1>8, <1>9, <1>10 DEF u
<1>15. Sent' = u
  BY <1>11, <1>13, <1>14
<1> QED BY <1>15 DEF u

(* What is sent in the turn in progress: every call has its tool message,  *)
(* but for those of the last answer while they run.                        *)
SentInv ==
    /\ at = "model" => Sent \in Seq(Wire) /\ Paired(Sent)
    /\ at = "tools" => \E w \in Seq(Wire) : Paired(w) /\ Sent = Append(w, FromAssistant(results \o todo))

(* All the calls of the last answer get their tool messages. *)
LEMMA PairsUp ==
    ASSUME NEW w \in Seq(Wire), Paired(w), NEW calls \in Seq(CallId)
    PROVE  Paired(Append(w, FromAssistant(calls)) \o ToolMessages(calls))
<1> DEFINE l == Len(w)
           n == Len(calls)
           v == Append(w, FromAssistant(calls)) \o ToolMessages(calls)
<1>1. /\ Len(v) = l + 1 + n /\ l \in Nat /\ n \in Nat
      /\ \A k \in 1 .. l : v[k] = w[k]
      /\ v[l + 1] = FromAssistant(calls)
      /\ \A i \in 1 .. n : v[l + 1 + i] = [role |-> "tool", calls |-> <<calls[i]>>]
  <2>1. FromAssistant(calls) \in Wire
    BY DEF FromAssistant, Wire
  <2>2. /\ Append(w, FromAssistant(calls)) \in Seq(Wire) /\ Len(Append(w, FromAssistant(calls))) = l + 1
        /\ \A k \in 1 .. l : Append(w, FromAssistant(calls))[k] = w[k]
        /\ Append(w, FromAssistant(calls))[l + 1] = FromAssistant(calls)
    BY <2>1
  <2>3. /\ ToolMessages(calls) \in Seq(Wire) /\ Len(ToolMessages(calls)) = n
        /\ \A i \in 1 .. n : ToolMessages(calls)[i] = [role |-> "tool", calls |-> <<calls[i]>>]
    <3>1. \A i \in 1 .. n : [role |-> "tool", calls |-> <<calls[i]>>] \in Wire
      BY DEF Wire
    <3> QED BY <3>1 DEF ToolMessages
  <2> QED BY <2>2, <2>3
<1> HIDE DEF v
<1>2. ASSUME NEW k \in 1 .. Len(v), v[k].role = "assistant", NEW i \in 1 .. Len(v[k].calls)
      PROVE  k + i <= Len(v) /\ v[k + i] = [role |-> "tool", calls |-> <<v[k].calls[i]>>]
  <2>1. CASE k <= l
    <3>1. v[k] = w[k] /\ k \in 1 .. l
      BY <1>1, <2>1
    <3>2. k + i <= l /\ w[k + i] = [role |-> "tool", calls |-> <<w[k].calls[i]>>]
      BY <1>2, <3>1 DEF Paired
    <3>3. i \in Nat \ {0}
      <4>1. w[k] \in Wire
        BY <3>1
      <4>2. w[k].calls \in Seq(CallId)
        BY <4>1 DEF Wire
      <4> QED BY <3>1, <4>2
    <3>4. k + i \in 1 .. l
      BY <3>1, <3>2, <3>3
    <3> QED BY <1>1, <3>1, <3>2, <3>4
  <2>2. CASE k = l + 1
    BY <1>1, <2>2 DEF FromAssistant
  <2>3. CASE k > l + 1
    <3>1. k - l - 1 \in 1 .. n /\ l + 1 + (k - l - 1) = k
      BY <1>1, <2>3
    <3>2. v[k] = [role |-> "tool", calls |-> <<calls[k - l - 1]>>]
      <4>1. v[l + 1 + (k - l - 1)] = [role |-> "tool", calls |-> <<calls[k - l - 1]>>]
        BY <1>1, <3>1
      <4> QED BY <3>1, <4>1
    <3> QED BY <1>2, <3>2
  <2> QED BY <1>1, <2>1, <2>2, <2>3
<1>3. ASSUME NEW k \in 1 .. Len(v), v[k].role = "tool"
      PROVE  \E j \in 1 .. k - 1 : v[j].role = "assistant" /\ k - j <= Len(v[j].calls)
  <2>1. CASE k <= l
    <3>1. v[k] = w[k] /\ k \in 1 .. l
      BY <1>1, <2>1
    <3>2. PICK j \in 1 .. k - 1 : w[j].role = "assistant" /\ k - j <= Len(w[j].calls)
      BY <1>3, <3>1 DEF Paired
    <3>3. v[j] = w[j]
      BY <1>1, <2>1
    <3> QED BY <3>2, <3>3
  <2>2. CASE k = l + 1
    BY <1>1, <1>3, <2>2 DEF FromAssistant
  <2>3. CASE k > l + 1
    <3>1. l + 1 \in 1 .. k - 1 /\ k - (l + 1) <= n
      BY <1>1, <2>3
    <3>2. v[l + 1].role = "assistant" /\ v[l + 1].calls = calls
      BY <1>1 DEF FromAssistant
    <3> QED BY <3>1, <3>2
  <2> QED BY <1>1, <2>1, <2>2, <2>3
<1>4. Paired(v)
  BY <1>2, <1>3, Zenon DEF Paired
<1> QED BY <1>4 DEF v
LEMMA SentStep == ASSUME AgentInv, SentInv, [AgentNext]_agentVars PROVE SentInv'
<1>1. /\ messages \in Seq(Message) /\ results \in Seq(CallId) /\ todo \in Seq(CallId)
      /\ at # "prompt" => messages # <<>>
      /\ at # "tools" => results = <<>>
  BY DEF AgentInv, AgentTypeOK, LastMessage
<1>2. CASE UNCHANGED messages /\ UNCHANGED at /\ (at = "tools" => results' \o todo' = results \o todo)
  <2>1. Sent' = Sent
    BY <1>2 DEF Sent, FirstOfTurn, ThisTurn
  <2> QED BY <1>2, <2>1 DEF SentInv
<1>3. CASE at' = "prompt"
  BY <1>3 DEF SentInv
<1>4. CASE Ask
  <2>1. Sent' = <<[role |-> "user", calls |-> <<>>]>>
    BY <1>1, <1>4, SentStarts DEF Ask, Grows
  <2> DEFINE u == [role |-> "user", calls |-> <<>>]
  <2>2. u \in Wire /\ u.role = "user"
    BY DEF Wire
  <2> HIDE DEF u
  <2>3. <<u>> \in Seq(Wire) /\ Paired(<<u>>)
    BY <2>2 DEF Paired
  <2>4. Sent' = <<u>>
    BY <2>1 DEF u
  <2>5. at' = "model"
    BY <1>4 DEF Ask
  <2> QED BY <2>3, <2>4, <2>5 DEF SentInv
<1>5. ASSUME NEW calls \in Seq(CallId), NEW stop_reason, Respond(calls, stop_reason), at' # "prompt"
      PROVE  SentInv'
  <2>1. /\ at = "model" /\ at' = "tools" /\ todo' = calls /\ results' = results
        /\ Grows(FromModel(calls)) /\ FromModel(calls) \in Message
    BY <1>5 DEF Respond, EndTurn, Grows, FromModel, Message
  <2>2. Sent \in Seq(Wire) /\ Sent' = Sent \o Converted(FromModel(calls)) /\ Paired(Sent)
    BY <1>1, <2>1, SentGrows DEF FromModel, SentInv
  <2>3. FromAssistant(calls) \in Wire /\ Converted(FromModel(calls)) = <<FromAssistant(calls)>>
    BY DEF FromAssistant, Wire, Converted, FromModel
  <2>4. Sent' = Append(Sent, FromAssistant(calls))
    BY <2>2, <2>3, Appended
  <2>5. results' \o todo' = calls
    BY <1>1, <2>1
  <2> QED BY <2>1, <2>2, <2>4, <2>5 DEF SentInv
<1>6. CASE ExecuteTool
  <2>1. /\ UNCHANGED messages /\ UNCHANGED at /\ todo # <<>>
        /\ results' = Append(results, Head(todo)) /\ todo' = Tail(todo)
    BY <1>6 DEF ExecuteTool
  <2>2. results' \o todo' = results \o todo
    BY <1>1, <2>1, MovesOver
  <2> QED BY <1>2, <2>1, <2>2
<1>7. CASE AddToolResults /\ at' # "prompt"
  <2>1. /\ at = "tools" /\ at' = "model" /\ todo = <<>>
        /\ Grows(Results(results)) /\ Results(results) \in Message
    BY <1>1, <1>7 DEF AddToolResults, EndTurn, Grows, Results, Message
  <2>2. PICK w \in Seq(Wire) : Paired(w) /\ Sent = Append(w, FromAssistant(results))
    <3>1. results \o todo = results
      BY <1>1, <2>1
    <3> QED BY <2>1, <3>1 DEF SentInv
  <2>3. Sent \in Seq(Wire) /\ Sent' = Sent \o Converted(Results(results))
    BY <1>1, <2>1, SentGrows DEF Results
  <2>4. Converted(Results(results)) = ToolMessages(results)
    BY DEF Converted, Results
  <2>5. Sent' = Append(w, FromAssistant(results)) \o ToolMessages(results)
    BY <2>2, <2>3, <2>4
  <2>6. Converted(Results(results)) \in Seq(Wire)
    BY <2>1, ConvertedIsWire
  <2>7. Paired(Sent')
    <3>1. PICK calls \in Seq(CallId) : calls = results
      BY <1>1
    <3>2. Paired(Append(w, FromAssistant(calls)) \o ToolMessages(calls))
      BY <2>2, PairsUp
    <3> QED BY <2>5, <3>1, <3>2
  <2>8. Sent' \in Seq(Wire)
    BY <2>3, <2>6
  <2> QED BY <2>1, <2>7, <2>8 DEF SentInv
<1> QED
  <2>1. CASE UNCHANGED agentVars
    BY <1>2, <2>1 DEF agentVars
  <2>2. CASE Reset \/ ModelFails \/ ToolRaises
    BY <1>3, <2>2 DEF Reset, ModelFails, ToolRaises, EndTurn
  <2>3. CASE \E calls \in Responses, stop_reason \in StopReason : Respond(calls, stop_reason)
    <3>1. Responses \subseteq Seq(CallId)
      BY AgentAssumption DEF Responses
    <3> QED BY <1>3, <1>5, <2>3, <3>1
  <2> QED BY <1>3, <1>4, <1>6, <1>7, <2>1, <2>2, <2>3 DEF AgentNext, ToolStep

(* The agent that retries is the loop, and a retry a step of no account.   *)
LEMMA OpenAIImplementsAgent == OpenAISpec => AgentSpec
<1>1. OpenAIInit => AgentInit
  BY DEF OpenAIInit
<1>2. ASSUME [OpenAINext]_openAIVars PROVE [AgentNext]_agentVars
  <2>1. CASE PostSucceeds
    <3>1. PICK n \in 0 .. MaxCalls :
              \E ids \in [1 .. n -> CallId \cup {NoId}], finish_reason \in {"tool_calls", "stop"} :
                  Respond(CallIds(ids), StopReasonOf(finish_reason))
      BY <2>1 DEF PostSucceeds
    <3>2. PICK ids \in [1 .. n -> CallId \cup {NoId}], finish_reason \in {"tool_calls", "stop"} :
              Respond(CallIds(ids), StopReasonOf(finish_reason))
      BY <3>1
    <3>3. CallIds(ids) \in [1 .. n -> CallId]
      <4>1. n \in Nat
        BY <3>1, AgentAssumption
      <4>2. Len(ids) = n
        BY <3>2, <4>1
      <4> QED BY <3>2, <4>2, OpenAIAssumption DEF CallIds
    <3>4. CallIds(ids) \in Responses /\ StopReasonOf(finish_reason) \in StopReason
      BY <3>1, <3>3 DEF Responses, StopReasonOf, StopReason
    <3> QED BY <3>2, <3>4 DEF AgentNext
  <2>2. CASE UNCHANGED openAIVars \/ RateLimited
    BY <2>2 DEF openAIVars, RateLimited, agentVars
  <2>3. CASE PostFails \/ Ask \/ Reset \/ ToolStep
    BY <2>3 DEF PostFails, AgentNext
  <2> QED BY <1>2, <2>1, <2>2, <2>3 DEF OpenAINext, Round
<1> QED BY <1>1, <1>2, PTL DEF OpenAISpec, AgentSpec

LEMMA OpenAIInvariant == OpenAISpec => [](AgentInv /\ SentInv)
<1>1. AgentInit => SentInv
  BY DEF AgentInit, SentInv
<1> QED BY <1>1, InitInv, AgentStep, SentStep, OpenAIImplementsAgent, PTL DEF AgentSpec

(* Whatever ids are missing or repeat, the messages the provider is sent   *)
(* of a turn have every tool call followed by its answers, and no other.   *)
THEOREM OpenAITurnOnTheWire == OpenAISpec => []TurnOnTheWire
<1>1. SentInv => TurnOnTheWire
  BY DEF SentInv, TurnOnTheWire
<1> QED BY <1>1, OpenAIInvariant, PTL

(* And the loop's two invariants are this agent's.                         *)
THEOREM OpenAIKeepsOrder == OpenAISpec => []AnsweredInOrder /\ []NothingOwed
BY OpenAIImplementsAgent, AgentAnswersInOrder, AgentOwesNothing, PTL

-----------------------------------------------------------------------------
(***************************************************************************)
(* The dashboard.                                                          *)
(***************************************************************************)
Working == {"command", "show", "say", "ask", "turn", "tool", "answered"}
Entry == [role : {"user", "output", "assistant", "tool", "error"},
          of : {{}} \cup {{n} : n \in Nat}]
Piece == [what : {"output", "more", "error", "answer", "disabled", "no_server"}, of : Nat]

DashShape == /\ main \in Prompting \cup Working \cup {"submit", "over"}
             /\ lines \in Seq(Seq(Printable)) /\ input_buffer \in Seq(Printable)
             /\ capture \in Seq(Piece) /\ showing \in Seq(Piece)
             /\ main \in Working \cup {"submit"} => lines # <<>>
             /\ (usable \/ reason) /\ cut \in BOOLEAN

(* Where the turn is, the main thread is. *)
TurnAt == /\ main = "turn" => at \in {"model", "tools"}
          /\ main = "tool" => at = "tools"
          /\ main \notin {"turn", "tool", "over"} => at = "prompt"
          /\ at # "tools" => results = <<>>

(* The header at every step of the main thread. *)
Header == /\ main \in Prompting \cup {"submit", "command", "show", "say"} => status = "idle"
          /\ main = "turn" => status = IF results = <<>> THEN "thinking" ELSE "calling"
          /\ main = "tool" => status = "calling"
          /\ main # "over" => frame = status \/ late

(* A transcript t, of which entries have been cut (c), while line n is     *)
(* dealt with: no entry is of a later line, they are in order, and those   *)
(* of a line stand under it.                                               *)
InOrder(t) == \A i, j \in 1 .. Len(t) :
                  i < j => \A m \in t[i].of, n \in t[j].of : m <= n
Headed(t, c) ==
    \A j \in 1 .. Len(t) :
        t[j].role # "user" /\ t[j].of # {} =>
            \/ \E i \in 1 .. j - 1 : t[i] = [role |-> "user", of |-> t[j].of]
            \/ c /\ \A i \in 1 .. j - 1 : t[i].of \in {{}, t[j].of}
Sound(t, c, n) ==
    /\ t \in Seq(Entry) /\ InOrder(t) /\ Headed(t, c)
    /\ \A i \in 1 .. Len(t) : t[i].of \subseteq 1 .. n

(* The entry of line n is there, or has been cut off with all before it. *)
Underway(t, c, n) ==
    \/ \E i \in 1 .. Len(t) : t[i] = [role |-> "user", of |-> {n}]
    \/ c /\ \A i \in 1 .. Len(t) : t[i].of \in {{}, {n}}

(* What is captured, or about to be said, is about this line. *)
OfThis(pieces) == \A n \in 1 .. Len(pieces) :
                      /\ pieces[n].of = This
                      /\ pieces[n].what = "no_server" => usable

Pending == /\ main \in Prompting \cup {"submit", "say"} => capture = <<>>
           /\ main \notin {"say", "over"} => showing = <<>>
           /\ OfThis(capture) /\ OfThis(showing)

Reached == IF main = "submit" THEN This - 1 ELSE This

Written == /\ DashShape /\ Pending /\ Sound(transcript, cut, Reached)
           /\ main \in Working => Underway(transcript, cut, This)

DashInv == Written /\ TurnAt /\ Header

-----------------------------------------------------------------------------
(* An entry is added: of no line, or of the one that is dealt with.        *)
LEMMA AppendSound ==
    ASSUME NEW t, NEW c, NEW n \in Nat, Sound(t, c, n), NEW e \in Entry,
           \/ e.of = {}
           \/ e.of = {n} /\ n # 0 /\ (Underway(t, c, n) \/ e.role = "user")
    PROVE  /\ Sound(Append(t, e), c, n)
           /\ Underway(t, c, n) \/ (e.role = "user" /\ e.of = {n})
                => Underway(Append(t, e), c, n)
<1> DEFINE a == Append(t, e)
           l == Len(t)
<1>1. /\ t \in Seq(Entry) /\ InOrder(t) /\ Headed(t, c)
      /\ \A i \in 1 .. l : t[i].of \subseteq 1 .. n
  BY DEF Sound
<1>2. /\ a \in Seq(Entry) /\ Len(a) = l + 1 /\ a[l + 1] = e /\ l \in Nat
      /\ \A i \in 1 .. l : a[i] = t[i]
  BY <1>1, Appended
<1> HIDE DEF a, l
<1>3. e.of \subseteq 1 .. n /\ e.of \in {{}, {n}}
  OBVIOUS
<1>4. \A i \in 1 .. l + 1 : a[i].of \subseteq 1 .. n
  BY <1>1, <1>2, <1>3
<1>5. InOrder(a)
  <2> SUFFICES ASSUME NEW i \in 1 .. l + 1, NEW j \in 1 .. l + 1, i < j,
                      NEW m \in a[i].of, NEW k \in a[j].of
               PROVE  m <= k
    BY <1>2 DEF InOrder
  <2>1. CASE j <= l
    <3>1. i \in 1 .. l /\ j \in 1 .. l
      BY <1>2, <2>1
    <3> QED BY <1>1, <1>2, <3>1 DEF InOrder, l
  <2>2. CASE j = l + 1
    <3>1. k = n
      BY <1>2, <1>3, <2>2
    <3>2. m \in 1 .. n
      BY <1>4
    <3> QED BY <3>1, <3>2
  <2> QED BY <1>2, <2>1, <2>2
<1>6. Headed(a, c)
  <2> SUFFICES ASSUME NEW j \in 1 .. l + 1, a[j].role # "user", a[j].of # {}
               PROVE  \/ \E i \in 1 .. j - 1 : a[i] = [role |-> "user", of |-> a[j].of]
                      \/ c /\ \A i \in 1 .. j - 1 : a[i].of \in {{}, a[j].of}
    BY <1>2 DEF Headed
  <2>1. CASE j <= l
    <3>1. j \in 1 .. l /\ a[j] = t[j] /\ \A i \in 1 .. j - 1 : i \in 1 .. l /\ a[i] = t[i]
      BY <1>2, <2>1
    <3>2. \/ \E i \in 1 .. j - 1 : t[i] = [role |-> "user", of |-> t[j].of]
          \/ c /\ \A i \in 1 .. j - 1 : t[i].of \in {{}, t[j].of}
      BY <1>1, <3>1 DEF Headed, l
    <3> QED BY <3>1, <3>2
  <2>2. CASE j = l + 1
    <3>1. a[j] = e /\ e.of = {n} /\ Underway(t, c, n)
      BY <1>2, <2>2
    <3>2. \A i \in 1 .. j - 1 : i \in 1 .. l /\ a[i] = t[i]
      BY <1>2, <2>2
    <3>3. \A i \in 1 .. l : i \in 1 .. j - 1
      BY <1>2, <2>2
    <3>4. CASE \E i \in 1 .. l : t[i] = [role |-> "user", of |-> {n}]
      BY <3>1, <3>2, <3>3, <3>4
    <3>5. CASE c /\ \A i \in 1 .. l : t[i].of \in {{}, {n}}
      BY <3>1, <3>2, <3>3, <3>5
    <3> QED BY <3>1, <3>4, <3>5 DEF Underway, l
  <2> QED BY <1>2, <2>1, <2>2
<1>7. ASSUME Underway(t, c, n) \/ (e.role = "user" /\ e.of = {n})
      PROVE  Underway(a, c, n)
  <2>1. CASE e.role = "user" /\ e.of = {n}
    <3>1. a[l + 1] = [role |-> "user", of |-> {n}] /\ l + 1 \in 1 .. Len(a)
      BY <1>2, <2>1 DEF Entry
    <3> QED BY <3>1 DEF Underway
  <2>2. CASE \E i \in 1 .. l : t[i] = [role |-> "user", of |-> {n}]
    <3>1. PICK i \in 1 .. l : t[i] = [role |-> "user", of |-> {n}]
      BY <2>2
    <3>2. i \in 1 .. Len(a) /\ a[i] = t[i]
      BY <1>2
    <3> QED BY <3>1, <3>2 DEF Underway
  <2>3. CASE c /\ \A i \in 1 .. l : t[i].of \in {{}, {n}}
    <3>1. \A i \in 1 .. Len(a) : a[i].of \in {{}, {n}}
      BY <1>2, <1>3, <2>3
    <3> QED BY <2>3, <3>1 DEF Underway
  <2> QED BY <1>7, <2>1, <2>2, <2>3 DEF Underway, l
<1> QED BY <1>2, <1>4, <1>5, <1>6, <1>7 DEF Sound, a

(* The oldest entries are deleted. *)
LEMMA CutSound ==
    ASSUME NEW t, NEW c, NEW n \in Nat, Sound(t, c, n)
    PROVE  /\ Sound(WithoutOldest(t), TRUE, n)
           /\ Underway(t, c, n) => Underway(WithoutOldest(t), TRUE, n)
<1> DEFINE r == WithoutOldest(t)
           l == Len(t)
           o == CutEntries
<1>1. /\ t \in Seq(Entry) /\ InOrder(t) /\ Headed(t, c) /\ l \in Nat
      /\ \A i \in 1 .. l : t[i].of \subseteq 1 .. n
  BY DEF Sound
<1>2. o \in Nat
  BY DashAssumption
<1>3. /\ r \in Seq(Entry) /\ Len(r) \in Nat
      /\ \A i \in 1 .. Len(r) : i + o \in 1 .. l /\ r[i] = t[i + o]
      /\ \A i \in 1 .. l : i > o => i - o \in 1 .. Len(r) /\ r[i - o] = t[i]
  <2>1. \A i \in o + 1 .. l : t[i] \in Entry
    BY <1>1, <1>2
  <2> HIDE DEF o, l
  <2>2. /\ SubSeq(t, o + 1, l) \in Seq(Entry)
        /\ Len(SubSeq(t, o + 1, l)) = IF o + 1 <= l THEN l - (o + 1) + 1 ELSE 0
        /\ \A i \in 1 .. l - (o + 1) + 1 : SubSeq(t, o + 1, l)[i] = t[o + 1 + i - 1]
    BY <1>1, <1>2, <2>1, SubSeqProperties
  <2>3. r = SubSeq(t, o + 1, l)
    BY DEF WithoutOldest, o, l
  <2> HIDE DEF r
  <2>4. /\ r \in Seq(Entry) /\ Len(r) = IF o + 1 <= l THEN l - o ELSE 0
        /\ \A i \in 1 .. l - o : r[i] = t[i + o]
    <3>1. l - (o + 1) + 1 = l - o /\ \A i \in 1 .. l - o : o + 1 + i - 1 = i + o
      BY <1>1, <1>2
    <3> QED BY <2>2, <2>3, <3>1
  <2>5. l \in Nat /\ o \in Nat
    BY <1>1, <1>2
  <2>6. Len(r) \in Nat
    BY <2>4, <2>5
  <2>7. ASSUME NEW i \in 1 .. Len(r) PROVE i + o \in 1 .. l /\ i \in 1 .. l - o
    BY <2>4, <2>5
  <2>8. ASSUME NEW i \in 1 .. l, i > o
        PROVE  i - o \in 1 .. Len(r) /\ i - o \in 1 .. l - o /\ (i - o) + o = i
    BY <2>4, <2>5, <2>8
  <2>9. \A i \in 1 .. l : i > o => r[i - o] = t[i]
    <3> SUFFICES ASSUME NEW i \in 1 .. l, i > o PROVE r[i - o] = t[i]
      OBVIOUS
    <3>1. r[i - o] = t[(i - o) + o]
      BY <2>4, <2>8
    <3> QED BY <2>8, <3>1
  <2> QED BY <2>4, <2>6, <2>7, <2>8, <2>9
<1> HIDE DEF r, l, o
<1>4. \A i \in 1 .. Len(r) : r[i].of \subseteq 1 .. n
  BY <1>1, <1>3
<1>5. InOrder(r)
  <2> SUFFICES ASSUME NEW i \in 1 .. Len(r), NEW j \in 1 .. Len(r), i < j,
                      NEW m \in r[i].of, NEW k \in r[j].of
               PROVE  m <= k
    BY DEF InOrder
  <2>1. i + o \in 1 .. l /\ j + o \in 1 .. l /\ i + o < j + o
    BY <1>2, <1>3
  <2>2. m \in t[i + o].of /\ k \in t[j + o].of
    BY <1>3
  <2> QED BY <1>1, <2>1, <2>2 DEF InOrder, l
<1>6. Headed(r, TRUE)
  <2> SUFFICES ASSUME NEW j \in 1 .. Len(r), r[j].role # "user", r[j].of # {}
               PROVE  \/ \E i \in 1 .. j - 1 : r[i] = [role |-> "user", of |-> r[j].of]
                      \/ \A i \in 1 .. j - 1 : r[i].of \in {{}, r[j].of}
    BY DEF Headed
  <2> DEFINE k == j + o
  <2>1. k \in 1 .. l /\ r[j] = t[k] /\ j = k - o
    BY <1>2, <1>3
  <2> HIDE DEF k
  <2>2. \A i \in 1 .. j - 1 : i \in 1 .. Len(r) /\ i + o \in 1 .. k - 1 /\ i + o \in 1 .. l
                              /\ r[i] = t[i + o]
    BY <1>2, <1>3, <2>1
  <2>3. CASE \E i \in 1 .. k - 1 : t[i] = [role |-> "user", of |-> t[k].of]
    <3>1. PICK i \in 1 .. k - 1 : t[i] = [role |-> "user", of |-> t[k].of]
      BY <2>3
    <3>2. CASE i > o
      <4>1. i - o \in 1 .. j - 1 /\ i \in 1 .. l
        BY <1>1, <1>2, <2>1, <3>2
      <4>2. r[i - o] = [role |-> "user", of |-> r[j].of]
        BY <1>3, <2>1, <3>1, <3>2, <4>1
      <4> QED BY <4>1, <4>2
    <3>3. CASE i <= o
      <4>1. ASSUME NEW h \in 1 .. j - 1 PROVE r[h].of \in {{}, r[j].of}
        <5>1. PICK p \in 1 .. l : p = h + o
          BY <2>2
        <5>2. r[h] = t[p] /\ i \in 1 .. l /\ i < p /\ p < k
          BY <1>1, <1>2, <2>1, <2>2, <3>3, <5>1
        <5>3. t[i].of = t[k].of /\ t[k] \in Entry /\ t[p] \in Entry
          BY <1>1, <2>1, <3>1 DEF l
        <5>4. PICK x \in Nat : t[k].of = {x}
          BY <2>1, <5>3 DEF Entry
        <5>5. \A m \in t[p].of : x <= m /\ m <= x
          <6> SUFFICES ASSUME NEW m \in t[p].of PROVE x <= m /\ m <= x
            OBVIOUS
          <6>1. x \in t[i].of /\ x \in t[k].of
            BY <5>3, <5>4
          <6> QED BY <1>1, <2>1, <5>2, <6>1 DEF InOrder, l
        <5>6. t[p].of = {} \/ \E y \in Nat : t[p].of = {y}
          BY <5>3 DEF Entry
        <5>7. t[p].of \in {{}, {x}}
          BY <5>5, <5>6
        <5> QED BY <2>1, <5>2, <5>4, <5>7
      <4> QED BY <4>1
    <3>4. i \in Int /\ o \in Int
      BY <1>2
    <3> QED BY <3>2, <3>3, <3>4
  <2>4. CASE \A i \in 1 .. k - 1 : t[i].of \in {{}, t[k].of}
    BY <2>1, <2>2, <2>4
  <2> QED BY <1>1, <2>1, <2>3, <2>4 DEF Headed, l
<1>7. ASSUME Underway(t, c, n) PROVE Underway(r, TRUE, n)
  <2>1. CASE \E i \in 1 .. l : t[i] = [role |-> "user", of |-> {n}]
    <3>1. PICK i \in 1 .. l : t[i] = [role |-> "user", of |-> {n}]
      BY <2>1
    <3>2. CASE i > o
      BY <1>3, <3>1, <3>2 DEF Underway
    <3>3. CASE i <= o
      <4>1. ASSUME NEW h \in 1 .. Len(r) PROVE r[h].of \in {{}, {n}}
        <5>1. PICK p \in 1 .. l : p = h + o
          BY <1>3
        <5>2. r[h] = t[p] /\ i < p /\ t[p] \in Entry /\ t[p].of \subseteq 1 .. n
          BY <1>1, <1>2, <1>3, <3>3, <5>1 DEF l
        <5>3. \A m \in t[p].of : n <= m /\ m <= n
          <6> SUFFICES ASSUME NEW m \in t[p].of PROVE n <= m /\ m <= n
            OBVIOUS
          <6>1. n \in t[i].of /\ m \in 1 .. n
            BY <3>1, <5>2
          <6> QED BY <1>1, <5>2, <6>1 DEF InOrder, l
        <5>4. t[p].of = {} \/ \E y \in Nat : t[p].of = {y}
          BY <5>2 DEF Entry
        <5> QED BY <5>2, <5>3, <5>4
      <4> QED BY <4>1 DEF Underway
    <3>4. i \in Int /\ o \in Int
      BY <1>2
    <3>5. i > o \/ i <= o
      BY <3>4
    <3> QED BY <3>2, <3>3, <3>5
  <2>2. CASE \A i \in 1 .. l : t[i].of \in {{}, {n}}
    <3>1. \A i \in 1 .. Len(r) : r[i].of \in {{}, {n}}
      BY <1>3, <2>2
    <3> QED BY <3>1 DEF Underway
  <2> QED BY <1>7, <2>1, <2>2 DEF Underway, l
<1> QED BY <1>3, <1>4, <1>5, <1>6, <1>7 DEF Sound, r

-----------------------------------------------------------------------------
(* why_unusable() has a reason for every backend that is not usable. *)
LEMMA UnusableHasReason == ASSUME NEW llm, WhyUnusable(llm) = NoReason PROVE IsUsable(llm)
BY DEF WhyUnusable, NoReason, IsUsable, IsOpenAICompatible, Keyless

LEMMA InitDash == DashInit => DashInv
<1> SUFFICES ASSUME DashInit PROVE DashInv
  OBVIOUS
<1>1. usable \/ reason
  <2>1. PICK env \in Environment : /\ usable = IsUsable(LoadLLM(env))
                                  /\ reason = (WhyUnusable(LoadLLM(env)) # NoReason)
    BY DEF DashInit
  <2> QED BY <2>1, UnusableHasReason
<1>2. main \in Prompting /\ at = "prompt" /\ results = <<>>
  BY DEF DashInit, AgentInit, Again, Prompting
<1>3. /\ lines = <<>> /\ input_buffer = <<>> /\ transcript = <<>> /\ capture = <<>>
      /\ showing = <<>> /\ status = "idle" /\ frame = "idle" /\ cut = FALSE
  BY DEF DashInit
<1>4. Sound(transcript, cut, Reached)
  <2>1. transcript \in Seq(Entry) /\ Len(transcript) = 0
    BY <1>3
  <2> QED BY <2>1 DEF Sound, InOrder, Headed
<1>5. DashShape
  <2>1. lines \in Seq(Seq(Printable)) /\ input_buffer \in Seq(Printable)
    BY <1>3
  <2>2. capture \in Seq(Piece) /\ showing \in Seq(Piece)
    BY <1>3
  <2>4. cut \in BOOLEAN
    BY <1>3
  <2>3. main \in Prompting /\ main \notin Working \cup {"submit"}
    BY <1>2 DEF Prompting, Working
  <2> QED BY <1>1, <2>1, <2>2, <2>3, <2>4 DEF DashShape
<1>6. Pending /\ TurnAt /\ Header
  BY <1>2, <1>3 DEF Pending, OfThis, TurnAt, Header, Prompting
<1> QED BY <1>2, <1>4, <1>5, <1>6 DEF DashInv, Written, Prompting, Working

(* A key that run() is given, or an escape it has yet to complete. *)
LEMMA ReadsOne ==
    ASSUME ReadKey
    PROVE  \/ main \in Prompting /\ \E key : Handle(key)
           \/ /\ main \in Prompting /\ main' \in {"key", "escape"}
              /\ UNCHANGED <<agentVars, platform, config, input_buffer, status, capture, showing,
                            conversation, screen, lines, edited>>
<1>1. CASE ReadWindows
  BY <1>1 DEF ReadWindows, Prompting
<1>2. CASE SetRaw
  BY <1>2 DEF SetRaw, Prompting
<1>3. CASE ReadPosix
  BY <1>3 DEF ReadPosix, Prompting
<1>4. CASE ReadEscape
  BY <1>4 DEF ReadEscape, Prompting
<1> QED BY <1>1, <1>2, <1>3, <1>4 DEF ReadKey
-----------------------------------------------------------------------------
(* Neither a line nor an entry is added, and what is captured stays so:    *)
(* the main thread stays where it is, reads on, or has ended.              *)
LEMMA QuietKeeps ==
    ASSUME Written, UNCHANGED <<transcript, cut, capture, showing, lines, config>>,
           \/ main' = main
           \/ main' = "over"
           \/ main \in Prompting /\ main' \in Prompting,
           input_buffer' \in Seq(Printable)
    PROVE  Written'
<1>1. UNCHANGED <<transcript, cut, capture, showing, lines, usable, reason>>
  BY DEF config
<1>2. DashShape' /\ Pending'
  BY <1>1 DEF Written, DashShape, Pending, OfThis, This, Prompting, Working
<1>3. main' \in Working => Underway(transcript, cut, This)
  BY <1>1 DEF Written, Prompting, Working
<1>4. Sound(transcript, cut, Reached')
  <2>1. This \in Nat /\ Reached' \in {Reached, Reached + 1} /\ Reached \in Int
    BY <1>1 DEF Written, DashShape, This, Reached, Prompting
  <2>2. \A i \in 1 .. Len(transcript) : transcript[i].of \subseteq 1 .. Reached'
    BY <2>1 DEF Written, Sound
  <2> QED BY <2>2 DEF Written, Sound
<1> QED BY <1>1, <1>2, <1>3, <1>4 DEF Written, This

(* The user presses a key. *)
LEMMA PressKeeps == ASSUME DashInv, NEW k \in Pressed, Press(k) PROVE DashInv'
<1>1. /\ main' \in {main, "over"} /\ UNCHANGED <<at, results, input_buffer, frame, late>>
      /\ UNCHANGED <<transcript, cut, capture, showing, lines, config>>
      /\ main' # "over" => UNCHANGED status
  BY DEF Press, conversation, agentVars, screen
<1>2. TurnAt' /\ Header'
  BY <1>1 DEF DashInv, TurnAt, Header, Prompting
<1>3. input_buffer' \in Seq(Printable)
  BY <1>1 DEF DashInv, Written, DashShape
<1> QED BY <1>1, <1>2, <1>3, QuietKeeps DEF DashInv

(* A reader thread draws the screen. *)
LEMMA DrawKeeps == ASSUME DashInv, BuildLayout \/ Update PROVE DashInv'
<1>1. /\ UNCHANGED <<at, results, main, input_buffer, status>>
      /\ UNCHANGED <<transcript, cut, capture, showing, lines, config>>
      /\ UNCHANGED <<frame, late>> \/ late'
  BY DEF BuildLayout, Update, conversation, agentVars
<1>2. TurnAt' /\ Header'
  BY <1>1 DEF DashInv, TurnAt, Header
<1>3. input_buffer' \in Seq(Printable)
  BY <1>1 DEF DashInv, Written, DashShape
<1> QED BY <1>1, <1>2, <1>3, QuietKeeps DEF DashInv

(* A stderr thread adds an entry of no line, or deletes the oldest ones. *)
LEMMA StderrKeeps == ASSUME DashInv, StderrSays \/ StderrCuts PROVE DashInv'
<1>1. /\ UNCHANGED <<at, results, main, input_buffer, status, frame, late>>
      /\ UNCHANGED <<capture, showing, lines, usable, reason>>
  BY DEF StderrSays, StderrCuts, agentVars, screen, config
<1>5. cut' \in BOOLEAN
  BY DEF StderrSays, StderrCuts, DashInv, Written, DashShape
<1>2. TurnAt' /\ Header' /\ DashShape' /\ Pending' /\ Reached' = Reached /\ This' = This
  BY <1>1, <1>5 DEF DashInv, Written, TurnAt, Header, DashShape, Pending, OfThis, This, Reached
<1>3. /\ This \in Nat /\ Reached \in Nat
      /\ main \in Working => Reached = This
      /\ Sound(transcript, cut, Reached)
      /\ main \in Working => Underway(transcript, cut, This)
  <2>1. main = "submit" => Len(lines) # 0 /\ Len(lines) \in Nat
    BY DEF DashInv, Written, DashShape
  <2> QED BY <2>1 DEF DashInv, Written, DashShape, This, Reached, Working
<1>4. /\ Sound(transcript', cut', Reached)
      /\ main \in Working => Underway(transcript', cut', This)
  <2>1. CASE StderrSays
    <3> DEFINE e == [role |-> "output", of |-> {}]
    <3>1. e \in Entry /\ e.of = {}
      BY DEF Entry
    <3>2. transcript' = Append(transcript, e) /\ cut' = cut
      BY <2>1 DEF StderrSays
    <3> HIDE DEF e
    <3> QED BY <1>3, <3>1, <3>2, AppendSound
  <2>2. CASE StderrCuts
    <3>1. transcript' = WithoutOldest(transcript) /\ cut' = TRUE
      BY <2>2 DEF StderrCuts
    <3> QED BY <1>3, <3>1, CutSound
  <2> QED BY <2>1, <2>2
<1> QED BY <1>1, <1>2, <1>4 DEF DashInv, Written
-----------------------------------------------------------------------------
LEMMA AppliesToLine ==
    ASSUME NEW buffer \in Seq(Printable), NEW key PROVE Apply(buffer, key) \in Seq(Printable)
BY DEF Apply

(* A line is submitted: the entries so far are of those before it. *)
LEMMA EnterKeeps ==
    ASSUME Written, main \in Prompting, main' = "submit", input_buffer' = <<>>,
           lines' = Append(lines, input_buffer),
           UNCHANGED <<transcript, cut, capture, showing, config>>
    PROVE  Written'
<1>1. /\ UNCHANGED <<transcript, cut, capture, showing, usable, reason>>
      /\ capture = <<>> /\ showing = <<>>
  BY DEF config, Written, Pending, Prompting
<1>2. /\ lines' \in Seq(Seq(Printable)) /\ lines' # <<>> /\ Len(lines') = Len(lines) + 1
      /\ Len(lines) \in Nat
  <2>1. lines \in Seq(Seq(Printable)) /\ input_buffer \in Seq(Printable)
    BY DEF Written, DashShape
  <2> QED BY <2>1, Appended
<1>3. DashShape' /\ Pending'
  BY <1>1, <1>2 DEF Written, DashShape, Pending, OfThis
<1>4. Reached' = Reached
  BY <1>2 DEF Reached, This, Prompting
<1> QED BY <1>1, <1>3, <1>4 DEF Written, Working

LEMMA HandleKeeps == ASSUME DashInv, main \in Prompting, NEW key, Handle(key) PROVE DashInv'
<1>1. /\ UNCHANGED <<at, results, config, status, transcript, cut, capture, showing>>
      /\ frame' = status' /\ main' \in Prompting \cup {"submit", "over"}
  BY DEF Handle, Refresh, Again, Prompting, conversation, agentVars
<1>2. TurnAt' /\ Header'
  BY <1>1 DEF DashInv, TurnAt, Header, Prompting
<1>3. CASE key = "enter"
  <2>1. lines' = Append(lines, input_buffer) /\ input_buffer' = <<>> /\ main' = "submit"
    BY <1>3 DEF Handle
  <2> QED BY <1>1, <1>2, <2>1, EnterKeeps DEF DashInv
<1>4. CASE key # "enter"
  <2>1. /\ UNCHANGED lines /\ main' \in Prompting \cup {"over"}
        /\ input_buffer' \in {<<>>, Apply(input_buffer, key)}
    BY <1>1, <1>4 DEF Handle, Again, Prompting
  <2>2. input_buffer' \in Seq(Printable)
    <3>1. input_buffer \in Seq(Printable)
      BY DEF DashInv, Written, DashShape
    <3>2. Apply(input_buffer, key) \in Seq(Printable)
      BY <3>1, AppliesToLine
    <3>3. input_buffer' = <<>> \/ input_buffer' = Apply(input_buffer, key)
      BY <2>1
    <3>4. <<>> \in Seq(Printable)
      OBVIOUS
    <3> QED BY <3>2, <3>3, <3>4
  <2> QED BY <1>1, <1>2, <2>1, <2>2, QuietKeeps DEF DashInv
<1> QED BY <1>3, <1>4

LEMMA ReadKeeps == ASSUME DashInv, ReadKey PROVE DashInv'
<1>1. CASE main \in Prompting /\ \E key : Handle(key)
  BY <1>1, HandleKeeps
<1>2. CASE /\ main \in Prompting /\ main' \in {"key", "escape"}
           /\ UNCHANGED <<agentVars, platform, config, input_buffer, status, capture, showing,
                          conversation, screen, lines, edited>>
  <2>1. /\ main' \in Prompting
        /\ UNCHANGED <<at, results, status, frame, late, input_buffer>>
        /\ UNCHANGED <<transcript, cut, capture, showing, lines, config>>
    BY <1>2 DEF conversation, agentVars, screen, Prompting
  <2>2. TurnAt' /\ Header'
    BY <1>2, <2>1 DEF DashInv, TurnAt, Header, Prompting
  <2>3. input_buffer' \in Seq(Printable)
    BY <2>1 DEF DashInv, Written, DashShape
  <2> QED BY <1>2, <2>1, <2>2, <2>3, QuietKeeps DEF DashInv
<1> QED BY <1>1, <1>2, ReadsOne
-----------------------------------------------------------------------------
(* The entries stay sound, and the one of this line has been there.        *)
Told == /\ Sound(transcript', cut', This) /\ Underway(transcript', cut', This)
        /\ cut' \in BOOLEAN

(* say(), on behalf of the line that is dealt with. *)
LEMMA SayTells ==
    ASSUME Written, NEW e, SayEntry(e), e \in Entry, e.of = {This},
           main \in Working \/ (main = "submit" /\ e.role = "user")
    PROVE  Told
<1>1. This \in Nat /\ This # 0 /\ Reached \in {This, This - 1}
  <2>1. lines \in Seq(Seq(Printable)) /\ lines # <<>>
    BY DEF Written, DashShape
  <2> QED BY <2>1 DEF This, Reached
<1>2. Sound(transcript, cut, This)
  <2>1. \A i \in 1 .. Len(transcript) : transcript[i].of \subseteq 1 .. This
    BY <1>1 DEF Written, Sound
  <2> QED BY <2>1 DEF Written, Sound
<1>3. Underway(transcript, cut, This) \/ e.role = "user"
  BY DEF Written
<1> DEFINE a == Append(transcript, e)
<1>4. Sound(a, cut, This) /\ Underway(a, cut, This)
  BY <1>1, <1>2, <1>3, AppendSound
<1>5. \/ transcript' = a /\ cut' = cut
      \/ transcript' = WithoutOldest(a) /\ cut' = TRUE
  <2>1. Len(a) > MaxEntries \/ ~(Len(a) > MaxEntries)
    OBVIOUS
  <2>2. /\ transcript' = IF Len(a) > MaxEntries THEN WithoutOldest(a) ELSE a
        /\ cut' = (cut \/ Len(a) > MaxEntries)
    BY DEF SayEntry
  <2>3. CASE Len(a) > MaxEntries
    BY <2>2, <2>3 DEF Written, DashShape
  <2>4. CASE ~(Len(a) > MaxEntries)
    <3> DEFINE b == Len(a) > MaxEntries
    <3>1. b = FALSE /\ cut' = (cut \/ b) /\ transcript' = a
      BY <2>2, <2>4
    <3> HIDE DEF b
    <3>2. cut \in BOOLEAN => cut' = cut
      BY <3>1
    <3> QED BY <3>1, <3>2 DEF Written, DashShape
  <2> QED BY <2>1, <2>3, <2>4
<1> HIDE DEF a
<1>6. Sound(WithoutOldest(a), TRUE, This) /\ Underway(WithoutOldest(a), TRUE, This)
  BY <1>1, <1>4, CutSound
<1> QED BY <1>4, <1>5, <1>6 DEF Told, Written, DashShape

LEMMA SayingTells ==
    ASSUME Written, NEW role \in {"user", "output", "assistant", "tool", "error"}, Say(role),
           main \in Working \/ (main = "submit" /\ role = "user")
    PROVE  Told
<1> DEFINE e == Said(role)
<1>1. This \in Nat
  BY DEF Written, DashShape, This
<1>2. e \in Entry /\ e.of = {This} /\ e.role = role
  BY <1>1 DEF Said, Entry
<1>3. SayEntry(e)
  BY DEF Say
<1> HIDE DEF e
<1> QED BY <1>2, <1>3, SayTells

LEMMA SilenceTells ==
    ASSUME Written, main \in Working, UNCHANGED conversation PROVE Told
BY DEF Written, DashShape, conversation, Told, Reached, Working

(* A step of the main thread's work, with what it captures and still has   *)
(* to say.                                                                 *)
LEMMA WorkKeeps ==
    ASSUME Written, main \in Working \cup {"submit"}, UNCHANGED <<lines, usable, reason, input_buffer>>,
           Told, main' \in Working \cup Prompting \cup {"over"},
           capture' \in Seq(Piece), OfThis(capture'), showing' \in Seq(Piece), OfThis(showing'),
           main' \in Prompting \cup {"say"} => capture' = <<>>,
           main' \notin {"say", "over"} => showing' = <<>>
    PROVE  Written'
<1>1. main' # "submit" /\ This' = This /\ usable' = usable
  BY DEF Working, Prompting, This
<1>2. DashShape'
  BY <1>1 DEF Written, DashShape, Told
<1>3. Pending'
  BY <1>1 DEF Pending, OfThis
<1> QED BY <1>1, <1>2, <1>3 DEF Written, Told, Reached

(* The Cli prints a line. *)
LEMMA CapturedKeeps ==
    ASSUME Written, NEW what \in {"output", "error", "answer", "disabled", "no_server"},
           what = "no_server" => usable, Captured(what)
    PROVE  capture' \in Seq(Piece) /\ OfThis(capture')
<1> DEFINE p == Printed(what)
<1>1. /\ p \in Piece /\ p.of = This
      /\ p.what = "no_server" => usable
      /\ capture \in Seq(Piece) /\ OfThis(capture)
  BY DEF Printed, Piece, Written, DashShape, Pending, This
<1>2. capture' = Append(capture, p)
  BY DEF Captured
<1> HIDE DEF p
<1>3. /\ capture' \in Seq(Piece) /\ Len(capture') = Len(capture) + 1 /\ Len(capture) \in Nat
      /\ \A n \in 1 .. Len(capture') : capture'[n] \in {p} \cup {capture[m] : m \in 1 .. Len(capture)}
  BY <1>1, <1>2
<1> QED BY <1>1, <1>3 DEF OfThis
-----------------------------------------------------------------------------
LEMMA SubmitKeeps == ASSUME DashInv, Submit PROVE DashInv'
<1>1. /\ main = "submit" /\ Unread /\ capture = <<>> /\ at = "prompt" /\ status = "idle"
      /\ lines \in Seq(Seq(Printable)) /\ lines # <<>> /\ results = <<>> /\ showing = <<>>
      /\ UNCHANGED <<usable, reason, input_buffer, showing>>
  BY DEF Submit, Unread, config, DashInv, Written, DashShape, Pending, TurnAt, Header
<1>2. CASE /\ main' = Again /\ lines' = SubSeq(lines, 1, This - 1)
           /\ UNCHANGED <<status, capture, conversation, screen, agentVars>>
  <2>1. main' \in Prompting /\ main' \notin Working /\ main' # "submit"
    BY <1>2 DEF Again, Prompting, Working
  <2>2. lines' \in Seq(Seq(Printable)) /\ This' = This - 1 /\ Reached' = Reached
    BY <1>1, <1>2, <2>1, WithoutLast DEF This, Reached
  <2>3. TurnAt' /\ Header'
    BY <1>1, <1>2, <2>1 DEF DashInv, TurnAt, Header, agentVars, screen, Prompting
  <2>4. DashShape' /\ Pending'
    <3>1. UNCHANGED <<capture, showing, cut, usable, reason, input_buffer>>
      BY <1>1, <1>2 DEF conversation
    <3>2. DashShape'
      BY <1>1, <2>1, <2>2, <3>1 DEF DashInv, Written, DashShape
    <3>3. Pending'
      BY <1>1, <2>1, <3>1 DEF Pending, OfThis
    <3> QED BY <3>2, <3>3
  <2> QED BY <1>2, <2>1, <2>2, <2>3, <2>4 DEF DashInv, Written, conversation
<1>3. CASE /\ Say("user") /\ UNCHANGED <<lines, agentVars>> /\ Refresh
           /\ \/ main' \in {"over", "command"} /\ UNCHANGED status
              \/ main' = "ask" /\ status' = "thinking"
           /\ capture' = <<>>
  <2>1. Told
    BY <1>1, <1>3, SayingTells DEF DashInv
  <2>2. TurnAt' /\ Header'
    BY <1>1, <1>3 DEF TurnAt, Header, agentVars, Refresh, Prompting
  <2>3. <<>> \in Seq(Piece) /\ OfThis(<<>>)
    BY DEF OfThis
  <2>4. main' \in Working \cup {"over"} /\ main' \notin Prompting
    BY <1>3 DEF Working, Prompting
  <2>5. Written'
    BY <1>1, <1>3, <2>1, <2>3, <2>4, WorkKeeps DEF DashInv
  <2> QED BY <2>2, <2>5 DEF DashInv
<1> QED
  <2>1. capture = <<>>
    BY <1>1
  <2> QED BY <1>2, <1>3, <2>1 DEF Submit
-----------------------------------------------------------------------------
LEMMA CommandKeeps == ASSUME DashInv, Command PROVE DashInv'
<1>1. /\ main = "command" /\ main' \in {"show", "over"} /\ UNCHANGED conversation
      /\ UNCHANGED <<usable, reason, input_buffer, status, frame, late, lines, showing>>
      /\ UNCHANGED <<at, results>>
  BY DEF Command, Main, Unread, config, screen, Reset, agentVars
<1>2. TurnAt' /\ Header'
  BY <1>1 DEF DashInv, TurnAt, Header, Prompting
<1>3. /\ capture \in Seq(Piece) /\ This \in Nat /\ OfThis(capture) /\ showing = <<>>
  BY <1>1 DEF DashInv, Written, DashShape, This, Pending
<1>4. capture' \in Seq(Piece) /\ OfThis(capture')
  <2>1. CASE UNCHANGED capture
    BY <1>3, <2>1
  <2>2. CASE Captured("output")
    BY <2>2, CapturedKeeps DEF DashInv
  <2>3. ASSUME NEW n \in 0 .. MaxPrinted, capture' = capture \o [k \in 1 .. n |-> Printed("output")]
        PROVE  capture' \in Seq(Piece) /\ OfThis(capture')
    <3> DEFINE q == [k \in 1 .. n |-> Printed("output")]
    <3>1. n \in Nat /\ Printed("output") \in Piece /\ Printed("output").of = This
          /\ Printed("output").what # "no_server"
      BY <1>3, DashAssumption DEF Printed, Piece
    <3>2. q \in Seq(Piece) /\ Len(q) = n /\ \A k \in 1 .. n : q[k] = Printed("output")
      BY <3>1
    <3> HIDE DEF q
    <3>3. capture' = capture \o q
      BY <2>3 DEF q
    <3>4. /\ capture' \in Seq(Piece)
          /\ \A k \in 1 .. Len(capture') :
                capture'[k] \in {Printed("output")} \cup {capture[m] : m \in 1 .. Len(capture)}
      BY <1>3, <3>1, <3>2, <3>3
    <3> QED BY <1>3, <3>1, <3>4 DEF OfThis
  <2> QED BY <2>1, <2>2, <2>3 DEF Command
<1>5. Told
  BY <1>1, SilenceTells DEF DashInv, Working
<1>6. <<>> \in Seq(Piece) /\ OfThis(<<>>)
  BY DEF OfThis
<1>7. Written'
  BY <1>1, <1>3, <1>4, <1>5, <1>6, WorkKeeps DEF DashInv, Working, Prompting
<1> QED BY <1>2, <1>7 DEF DashInv

LEMMA ShortenedKeeps ==
    ASSUME Written PROVE Shortened(capture) \in Seq(Piece) /\ OfThis(Shortened(capture))
<1> DEFINE m == MAX_CAPTURED_LINES
           s == SubSeq(capture, 1, m)
           p == Printed("more")
<1>1. /\ capture \in Seq(Piece) /\ OfThis(capture) /\ This \in Nat /\ m \in Nat
      /\ Len(capture) \in Nat
  BY DashAssumption DEF Written, DashShape, Pending, This
<1>2. p \in Piece /\ p.of = This /\ p.what # "no_server"
  BY <1>1 DEF Printed, Piece
<1>3. ASSUME Len(capture) > m PROVE Append(s, p) \in Seq(Piece) /\ OfThis(Append(s, p))
  <2> HIDE DEF m
  <2>1. \A i \in 1 .. m : capture[i] \in Piece
    BY <1>1, <1>3
  <2>2. s \in Seq(Piece) /\ Len(s) = m /\ \A i \in 1 .. m : s[i] = capture[i]
    <3>1. /\ SubSeq(capture, 1, m) \in Seq(Piece)
          /\ Len(SubSeq(capture, 1, m)) = IF 1 <= m THEN m - 1 + 1 ELSE 0
          /\ \A i \in 1 .. m - 1 + 1 : SubSeq(capture, 1, m)[i] = capture[1 + i - 1]
      BY <1>1, <2>1, SubSeqProperties
    <3>2. m - 1 + 1 = m /\ \A i \in 1 .. m : 1 + i - 1 = i
      BY <1>1
    <3> QED BY <1>1, <3>1, <3>2
  <2> HIDE DEF s, p
  <2>3. /\ Append(s, p) \in Seq(Piece) /\ Len(Append(s, p)) = m + 1
        /\ \A i \in 1 .. m + 1 : Append(s, p)[i] = IF i <= m THEN s[i] ELSE p
    BY <1>1, <1>2, <2>2
  <2>4. \A i \in 1 .. m : i \in 1 .. Len(capture)
    BY <1>1, <1>3
  <2> QED BY <1>1, <1>2, <2>2, <2>3, <2>4 DEF OfThis
<1> QED BY <1>1, <1>3 DEF Shortened

LEMMA ShowCapturedKeeps == ASSUME DashInv, ShowCaptured PROVE DashInv'
<1>1. /\ main = "show" /\ main' = "say" /\ UNCHANGED conversation
      /\ UNCHANGED <<usable, reason, input_buffer, status, frame, late, lines>>
      /\ UNCHANGED <<at, results>> /\ capture' = <<>> /\ showing' = Shortened(capture)
  BY DEF ShowCaptured, Main, Unread, config, screen, agentVars
<1>2. TurnAt' /\ Header'
  BY <1>1 DEF DashInv, TurnAt, Header, Prompting
<1>3. Told
  BY <1>1, SilenceTells DEF DashInv, Working
<1>4. showing' \in Seq(Piece) /\ OfThis(showing')
  BY <1>1, ShortenedKeeps DEF DashInv
<1>5. <<>> \in Seq(Piece) /\ OfThis(<<>>)
  BY DEF OfThis
<1>6. Written'
  BY <1>1, <1>3, <1>4, <1>5, WorkKeeps DEF DashInv, Working
<1> QED BY <1>2, <1>6 DEF DashInv

LEMMA ShowLineKeeps == ASSUME DashInv, ShowLine PROVE DashInv'
<1>1. /\ main = "say" /\ main' = "say" /\ showing # <<>> /\ showing' = Tail(showing)
      /\ UNCHANGED <<usable, reason, input_buffer, status, lines, capture>>
      /\ UNCHANGED <<at, results>> /\ frame' = status' /\ capture = <<>>
      /\ showing \in Seq(Piece) /\ OfThis(showing) /\ This \in Nat
  BY DEF ShowLine, Main, Unread, config, agentVars, Refresh, DashInv, Written, DashShape, Pending, This
<1>2. TurnAt' /\ Header'
  BY <1>1 DEF DashInv, TurnAt, Header, Prompting
<1>3. Told
  <2> DEFINE e == [role |-> "output", of |-> {Head(showing).of}]
  <2>1. Head(showing) = showing[1] /\ 1 \in 1 .. Len(showing)
    BY <1>1
  <2>2. e \in Entry /\ e.of = {This}
    BY <1>1, <2>1 DEF OfThis, Entry
  <2>3. SayEntry(e)
    BY DEF ShowLine
  <2> HIDE DEF e
  <2> QED BY <1>1, <2>2, <2>3, SayTells DEF DashInv, Working
<1>4. showing' \in Seq(Piece) /\ OfThis(showing')
  <2>1. /\ Tail(showing) \in Seq(Piece) /\ Len(Tail(showing)) = Len(showing) - 1
        /\ \A n \in 1 .. Len(showing) - 1 : Tail(showing)[n] = showing[n + 1]
        /\ Len(showing) \in Nat
    BY <1>1
  <2>2. \A n \in 1 .. Len(showing) - 1 : n + 1 \in 1 .. Len(showing)
    BY <2>1
  <2> QED BY <1>1, <2>1, <2>2 DEF OfThis
<1>5. <<>> \in Seq(Piece) /\ OfThis(<<>>)
  BY DEF OfThis
<1>6. Written'
  BY <1>1, <1>3, <1>4, <1>5, WorkKeeps DEF DashInv, Working
<1> QED BY <1>2, <1>6 DEF DashInv

LEMMA ShownKeeps == ASSUME DashInv, Shown PROVE DashInv'
<1>1. /\ main = "say" /\ main' = Again /\ showing = <<>> /\ capture = <<>>
      /\ UNCHANGED <<usable, reason, input_buffer, status, frame, late, lines>>
      /\ UNCHANGED <<at, results, capture, showing>> /\ UNCHANGED conversation
  BY DEF Shown, Main, Unread, config, screen, agentVars, DashInv, Written, Pending
<1>2. main' \in Prompting
  BY <1>1 DEF Again, Prompting
<1>3. TurnAt' /\ Header'
  BY <1>1, <1>2 DEF DashInv, TurnAt, Header, Prompting
<1>4. Told
  BY <1>1, SilenceTells DEF DashInv, Working
<1>5. <<>> \in Seq(Piece) /\ OfThis(<<>>)
  BY DEF OfThis
<1>6. Written'
  BY <1>1, <1>2, <1>4, <1>5, WorkKeeps DEF DashInv, Working
<1> QED BY <1>3, <1>6 DEF DashInv

LEMMA AnsweredKeeps == ASSUME DashInv, Answered PROVE DashInv'
<1>1. /\ main = "answered" /\ main' = Again /\ UNCHANGED lines
      /\ UNCHANGED <<usable, reason, input_buffer, showing, at, results>>
      /\ status' = "idle" /\ frame' = status' /\ capture' = <<>> /\ showing = <<>>
  BY DEF Answered, Main, Unread, config, agentVars, Refresh, DashInv, Written, Pending
<1>2. main' \in Prompting
  BY <1>1 DEF Again, Prompting
<1>3. TurnAt' /\ Header'
  BY <1>1, <1>2 DEF DashInv, TurnAt, Header, Prompting
<1>4. Told
  <2>1. CASE capture = <<>>
    BY <1>1, <2>1, SilenceTells DEF Answered, DashInv, Working
  <2>2. CASE capture # <<>>
    <3> DEFINE e == [role |-> "assistant", of |-> {capture[n].of : n \in 1 .. Len(capture)}]
    <3>1. capture \in Seq(Piece) /\ OfThis(capture) /\ This \in Nat
      BY DEF DashInv, Written, DashShape, Pending, This
    <3>2. {capture[n].of : n \in 1 .. Len(capture)} = {This}
      <4>1. 1 \in 1 .. Len(capture)
        BY <2>2, <3>1
      <4> QED BY <3>1, <4>1 DEF OfThis
    <3>3. e \in Entry /\ e.of = {This}
      BY <3>1, <3>2 DEF Entry
    <3>4. SayEntry(e)
      BY <2>2 DEF Answered
    <3> HIDE DEF e
    <3> QED BY <1>1, <3>3, <3>4, SayTells DEF DashInv, Working
  <2> QED BY <2>1, <2>2
<1>5. <<>> \in Seq(Piece) /\ OfThis(<<>>)
  BY DEF OfThis
<1>6. Written'
  BY <1>1, <1>2, <1>4, <1>5, WorkKeeps DEF DashInv, Working
<1> QED BY <1>3, <1>6 DEF DashInv
-----------------------------------------------------------------------------
(* What the steps of a turn, or just before it, have to show. *)
LEMMA TurnKeeps ==
    ASSUME DashInv, main \in {"ask", "turn", "tool"}, main' \in {"turn", "tool", "answered"},
           TurnAt', Header', Unread, UNCHANGED <<lines, showing>>, Told,
           \/ UNCHANGED capture
           \/ Captured("error") \/ Captured("answer") \/ Captured("disabled")
           \/ usable /\ Captured("no_server")
    PROVE  DashInv'
<1>1. UNCHANGED <<usable, reason, input_buffer>> /\ showing = <<>> /\ Written
      /\ capture \in Seq(Piece) /\ OfThis(capture)
  BY DEF Unread, config, DashInv, Written, DashShape, Pending
<1>2. capture' \in Seq(Piece) /\ OfThis(capture')
  BY <1>1, CapturedKeeps
<1>3. main \in Working /\ main' \in Working /\ main' \notin Prompting \cup {"say"}
  BY DEF Working, Prompting
<1>4. <<>> \in Seq(Piece) /\ OfThis(<<>>)
  BY DEF OfThis
<1>5. Written'
  BY <1>1, <1>2, <1>3, <1>4, WorkKeeps
<1> QED BY <1>5 DEF DashInv

LEMMA DisabledKeeps == ASSUME DashInv, Disabled PROVE DashInv'
<1>1. /\ main = "ask" /\ main' = "answered" /\ Unread /\ Told
      /\ UNCHANGED <<lines, showing>> /\ UNCHANGED <<status, frame, late, at, results>>
  BY SilenceTells DEF Disabled, Main, screen, agentVars, DashInv, Working
<1>2. TurnAt' /\ Header'
  BY <1>1 DEF DashInv, TurnAt, Header, Prompting
<1>3. Captured("disabled") \/ (usable /\ Captured("no_server"))
  BY DEF Disabled, DashInv, Written, DashShape
<1> QED BY <1>1, <1>2, <1>3, TurnKeeps

LEMMA StartKeeps == ASSUME DashInv, StartTurn PROVE DashInv'
<1>1. /\ main = "ask" /\ main' = "turn" /\ Unread /\ Told /\ UNCHANGED <<lines, showing>>
      /\ UNCHANGED capture /\ status' = "thinking" /\ frame' = status'
      /\ at = "prompt" /\ at' = "model" /\ UNCHANGED results
  BY SilenceTells DEF StartTurn, Main, Ask, Refresh, DashInv, Working
<1>2. results = <<>>
  BY <1>1 DEF DashInv, TurnAt
<1>3. TurnAt' /\ Header'
  BY <1>1, <1>2 DEF TurnAt, Header, Prompting
<1> QED BY <1>1, <1>3, TurnKeeps

LEMMA FailsKeeps == ASSUME DashInv, TurnFails PROVE DashInv'
<1>1. /\ main = "turn" /\ main' = "answered" /\ Unread /\ Told /\ UNCHANGED <<lines, showing>>
      /\ Captured("error") /\ UNCHANGED <<status, frame, late>>
      /\ at' = "prompt" /\ results' = <<>>
  BY SilenceTells DEF TurnFails, InTurn, ModelFails, EndTurn, screen, DashInv, Working
<1>2. TurnAt' /\ Header'
  BY <1>1 DEF DashInv, TurnAt, Header, Prompting
<1> QED BY <1>1, <1>2, TurnKeeps

LEMMA RespondsKeeps == ASSUME DashInv, TurnResponds PROVE DashInv'
<1>1. PICK calls \in Responses, stop_reason \in StopReason : Respond(calls, stop_reason)
  BY DEF TurnResponds
<1>2. /\ main = "turn" /\ Unread /\ Told /\ UNCHANGED <<lines, showing>>
      /\ main' = IF at' = "prompt" THEN "answered" ELSE "turn"
      /\ UNCHANGED capture \/ Captured("answer")
      /\ UNCHANGED <<status, frame, late>>
  BY SilenceTells DEF TurnResponds, InTurn, screen, DashInv, Working
<1>3. at = "model" /\ results = <<>> /\ results' = <<>> /\ at' \in {"prompt", "tools"}
  BY <1>1 DEF Respond, EndTurn, DashInv, TurnAt
<1>4. TurnAt' /\ Header'
  BY <1>2, <1>3 DEF DashInv, TurnAt, Header, Prompting
<1> QED BY <1>2, <1>4, TurnKeeps

LEMMA CallsToolKeeps == ASSUME DashInv, TurnCallsTool PROVE DashInv'
<1>1. /\ main = "turn" /\ main' = "tool" /\ Unread /\ UNCHANGED <<lines, showing>>
      /\ UNCHANGED capture /\ status' = "calling" /\ frame' = status'
      /\ at = "tools" /\ UNCHANGED <<at, results>> /\ Say("tool")
  BY DEF TurnCallsTool, Main, Refresh, agentVars
<1>2. Told
  BY <1>1, SayingTells DEF DashInv, Working
<1>3. TurnAt' /\ Header'
  BY <1>1 DEF TurnAt, Header, Prompting
<1> QED BY <1>1, <1>2, <1>3, TurnKeeps

LEMMA RunsToolKeeps == ASSUME DashInv, TurnRunsTool PROVE DashInv'
<1>1. /\ main = "tool" /\ main' = "turn" /\ Unread /\ UNCHANGED <<lines, showing>>
      /\ UNCHANGED <<capture, status>> /\ frame' = status'
      /\ at = "tools" /\ at' = "tools" /\ results' # <<>>
      /\ Say("error") \/ UNCHANGED conversation
  BY DEF TurnRunsTool, InTurn, ExecuteTool, Refresh
<1>2. Told
  BY <1>1, SayingTells, SilenceTells DEF DashInv, Working
<1>3. TurnAt' /\ Header'
  BY <1>1 DEF DashInv, TurnAt, Header, Prompting
<1> QED BY <1>1, <1>2, <1>3, TurnKeeps

LEMMA RaisesKeeps == ASSUME DashInv, TurnRaises PROVE DashInv'
<1>1. /\ main = "tool" /\ main' = "answered" /\ Unread /\ Told /\ UNCHANGED <<lines, showing>>
      /\ Captured("error") /\ UNCHANGED <<status, frame, late>>
      /\ at' = "prompt" /\ results' = <<>>
  BY SilenceTells DEF TurnRaises, InTurn, ToolRaises, EndTurn, screen, DashInv, Working
<1>2. TurnAt' /\ Header'
  BY <1>1 DEF DashInv, TurnAt, Header, Prompting
<1> QED BY <1>1, <1>2, TurnKeeps

LEMMA GoesOnKeeps == ASSUME DashInv, TurnGoesOn PROVE DashInv'
<1>1. /\ main = "turn" /\ Unread /\ UNCHANGED <<lines, showing>> /\ results' = <<>>
      /\ main' = IF at' = "prompt" THEN "answered" ELSE "turn"
      /\ at' \in {"prompt", "model"}
  BY DEF TurnGoesOn, InTurn, AddToolResults, EndTurn
<1>2. CASE at' = "prompt"
  <2>1. Say("error") /\ Captured("answer") /\ frame' = status' /\ main' = "answered"
    BY <1>1, <1>2 DEF TurnGoesOn, Refresh
  <2>2. Told
    BY <1>1, <2>1, SayingTells DEF DashInv, Working
  <2>3. TurnAt' /\ Header'
    BY <1>1, <1>2, <2>1 DEF TurnAt, Header, Prompting
  <2> QED BY <1>1, <2>1, <2>2, <2>3, TurnKeeps
<1>3. CASE at' = "model"
  <2>1. /\ status' = "thinking" /\ frame' = status' /\ UNCHANGED capture /\ main' = "turn"
        /\ Told
    BY <1>1, <1>3, SilenceTells DEF TurnGoesOn, Refresh, DashInv, Working
  <2>2. TurnAt' /\ Header'
    BY <1>1, <1>3, <2>1 DEF TurnAt, Header, Prompting
  <2> QED BY <1>1, <2>1, <2>2, TurnKeeps
<1> QED BY <1>1, <1>2, <1>3

LEMMA DashStep == ASSUME DashInv, [DashNext]_dashVars PROVE DashInv'
<1>1. CASE UNCHANGED dashVars
  <2>1. /\ UNCHANGED <<transcript, cut, capture, showing, lines, config>>
        /\ UNCHANGED <<main, input_buffer, at, results, status, frame, late>>
    BY <1>1 DEF dashVars, config
  <2>2. TurnAt' /\ Header' /\ input_buffer' \in Seq(Printable)
    BY <2>1 DEF DashInv, Written, DashShape, TurnAt, Header
  <2> QED BY <2>1, <2>2, QuietKeeps DEF DashInv
<1>2. CASE \E k \in Pressed : Press(k)
  BY <1>2, PressKeeps
<1>3. CASE ReadKey \/ OtherThreads
  BY <1>3, ReadKeeps, DrawKeeps, StderrKeeps DEF OtherThreads
<1>4. CASE Submit \/ Command \/ ShowCaptured \/ ShowLine \/ Shown \/ Disabled \/ StartTurn \/ Answered
  BY <1>4, SubmitKeeps, CommandKeeps, ShowCapturedKeeps, ShowLineKeeps, ShownKeeps, DisabledKeeps,
     StartKeeps, AnsweredKeeps
<1>5. CASE Turn
  BY <1>5, FailsKeeps, RespondsKeeps, CallsToolKeeps, RunsToolKeeps, RaisesKeeps, GoesOnKeeps DEF Turn
<1> QED BY <1>1, <1>2, <1>3, <1>4, <1>5 DEF DashNext, Work

LEMMA DashInvariant == DashSpec => []DashInv
BY InitDash, DashStep, PTL DEF DashSpec

(* However a turn ends, the header is idle again at the prompt; while a    *)
(* turn lasts it is thinking until the first tool of a round is called and *)
(* calling from then until the model is asked again; and it is what is on  *)
(* the screen, unless another thread was the last to draw there.           *)
THEOREM DashHeaderFollowsTurn == DashSpec => []HeaderFollowsTurn
<1>1. DashInv => HeaderFollowsTurn
  BY DEF DashInv, Header, HeaderFollowsTurn, Prompting
<1> QED BY <1>1, DashInvariant, PTL

(* Whatever is printed, and whenever, its entries stand under the line it  *)
(* is about, or at the top of a transcript that was cut off in the middle  *)
(* of them, however stderr threads add to it and cut it meanwhile; nothing *)
(* is held back at the prompt; and no server is blamed for what the        *)
(* configuration lacks.                                                    *)
THEOREM DashOutputBelongs == DashSpec => []OutputBelongs
<1>1. DashInv => OutputBelongs
  BY DEF DashInv, Written, Sound, InOrder, Headed, Pending, OfThis, OutputBelongs, EntriesInOrder,
     EntriesHeaded, NothingHeldBack, Prompting
<1> QED BY <1>1, DashInvariant, PTL
-----------------------------------------------------------------------------
(* The line editor where msvcrt reads the keyboard: what the codes still   *)
(* in the terminal will make of the line is what the user has typed.       *)
Code == Printable \cup Control \cup {"lead", "esc"}
Editing == [buffer : Seq(Printable), lines : Seq(Seq(Printable)), lead : BOOLEAN]

(* One code c makes e of d: the second one of a special key, the first, or *)
(* a key of its own.                                                       *)
Takes(d, c, e) ==
    \/ d.lead /\ e = [d EXCEPT !.lead = FALSE]
    \/ ~d.lead /\ c = "lead" /\ e = [d EXCEPT !.lead = TRUE]
    \/ /\ ~d.lead /\ c \in Typed \cup Control
       /\ e = [buffer |-> Edit(d.buffer, c),
                lines |-> IF c = "enter" /\ d.buffer # <<>>
                          THEN Append(d.lines, d.buffer) ELSE d.lines,
                lead |-> FALSE]

Leads(h, s, d, e) ==
    /\ h \in [0 .. Len(s) -> Editing] /\ h[0] = d /\ h[Len(s)] = e
    /\ \A n \in 1 .. Len(s) : Takes(h[n - 1], s[n], h[n])

(* The codes s make e of d. *)
Makes(s, d, e) == \E h : Leads(h, s, d, e)

LEMMA MakesNone == ASSUME NEW d \in Editing, NEW e PROVE Makes(<<>>, d, e) <=> d = e
<1>1. ASSUME Makes(<<>>, d, e) PROVE d = e
  BY <1>1 DEF Makes, Leads
<1>2. Makes(<<>>, d, d)
  <2> DEFINE h == [n \in 0 .. 0 |-> d]
  <2>1. Leads(h, <<>>, d, d)
    BY DEF Leads
  <2> QED BY <2>1 DEF Makes
<1> QED BY <1>1, <1>2

LEMMA MakesMore ==
    ASSUME NEW s \in Seq(Code), NEW d, NEW e, NEW c \in Code, NEW f \in Editing,
           Makes(s, d, e), Takes(e, c, f)
    PROVE  Makes(Append(s, c), d, f)
<1>1. PICK h : Leads(h, s, d, e)
  BY DEF Makes
<1> DEFINE l == Len(s)
           g == [n \in 0 .. l + 1 |-> IF n <= l THEN h[n] ELSE f]
           t == Append(s, c)
<1>2. t \in Seq(Code) /\ Len(t) = l + 1 /\ t[l + 1] = c /\ l \in Nat /\ \A n \in 1 .. l : t[n] = s[n]
  BY Appended
<1>3. /\ g \in [0 .. l + 1 -> Editing] /\ g[l + 1] = f /\ \A n \in 0 .. l : g[n] = h[n]
      /\ g[0] = d /\ g[l] = e
  BY <1>1, <1>2 DEF Leads
<1> HIDE DEF g, t
<1>4. ASSUME NEW n \in 1 .. l + 1 PROVE Takes(g[n - 1], t[n], g[n])
  <2>1. CASE n = l + 1
    <3>1. n - 1 = l
      BY <1>2, <2>1
    <3> QED BY <1>2, <1>3, <2>1, <3>1
  <2>2. CASE n <= l
    <3>1. n \in 1 .. l /\ n \in 0 .. l /\ n - 1 \in 0 .. l
      BY <1>2, <2>2
    <3>2. Takes(h[n - 1], s[n], h[n])
      BY <1>1, <3>1 DEF Leads
    <3> QED BY <1>2, <1>3, <3>1, <3>2
  <2> QED BY <1>2, <2>1, <2>2
<1>5. Leads(g, t, d, f)
  BY <1>2, <1>3, <1>4 DEF Leads
<1> QED BY <1>5 DEF Makes, t

LEMMA MakesFirst ==
    ASSUME NEW s \in Seq(Code), s # <<>>, NEW d, NEW e, Makes(s, d, e)
    PROVE  \E b \in Editing : Takes(d, Head(s), b) /\ Makes(Tail(s), b, e)
<1>1. PICK h : Leads(h, s, d, e)
  BY DEF Makes
<1> DEFINE l == Len(s)
           g == [n \in 0 .. l - 1 |-> h[n + 1]]
           t == Tail(s)
<1>2. /\ t \in Seq(Code) /\ Len(t) = l - 1 /\ l \in Nat /\ l # 0 /\ Head(s) = s[1]
      /\ \A n \in 1 .. l - 1 : t[n] = s[n + 1]
  OBVIOUS
<1> HIDE DEF l, t
<1>3. /\ g \in [0 .. l - 1 -> Editing] /\ g[0] = h[1] /\ g[l - 1] = e
      /\ \A n \in 0 .. l - 1 : g[n] = h[n + 1]
  BY <1>1, <1>2 DEF Leads, l
<1> HIDE DEF g
<1>4. ASSUME NEW n \in 1 .. l - 1 PROVE Takes(g[n - 1], t[n], g[n])
  <2>1. n + 1 \in 1 .. l /\ n + 1 - 1 = n /\ n - 1 + 1 = n /\ n \in 0 .. l - 1 /\ n - 1 \in 0 .. l - 1
    BY <1>2
  <2>2. Takes(h[n], s[n + 1], h[n + 1])
    BY <1>1, <2>1 DEF Leads, l
  <2> QED BY <1>2, <1>3, <2>1, <2>2
<1>5. Leads(g, t, h[1], e)
  BY <1>2, <1>3, <1>4 DEF Leads
<1>6. 1 \in 1 .. l /\ h[1] \in Editing
  BY <1>1, <1>2 DEF Leads, l
<1>7. Takes(d, s[1], h[1])
  <2>1. Takes(h[1 - 1], s[1], h[1])
    BY <1>1, <1>6 DEF Leads, l
  <2> QED BY <1>1, <2>1 DEF Leads
<1> QED BY <1>2, <1>5, <1>6, <1>7 DEF Makes, t

(* The line and the lines as they are: an empty one just submitted is not  *)
(* kept.                                                                   *)
Kept == IF main = "submit" /\ Line = <<>> THEN SubSeq(lines, 1, This - 1) ELSE lines
Sofar == [buffer |-> input_buffer, lines |-> Kept, lead |-> FALSE]
Goal == [buffer |-> edited.buffer, lines |-> edited.lines, lead |-> FALSE]

LineInv ==
    platform = "windows" /\ main # "over" /\ ~edited.grave =>
        /\ main \notin {"setraw", "escape"} /\ terminal \in Seq(Code)
        /\ Sofar \in Editing /\ Goal \in Editing /\ Makes(terminal, Sofar, Goal)

(* Nothing is typed, nothing is read, and the line stays as it is. *)
LEMMA SteadyKeeps ==
    ASSUME LineInv, UNCHANGED <<platform, terminal, edited>>, main # "over",
           Sofar' = Sofar, main' \notin {"setraw", "escape"}
    PROVE  LineInv'
<1>1. Goal' = Goal
  BY DEF Goal
<1> QED BY <1>1 DEF LineInv

(* The line stays as it is if neither it nor the lines change, but when    *)
(* one is being submitted.                                                 *)
LEMMA SameSofar ==
    ASSUME UNCHANGED <<input_buffer, lines>>, main' = main \/ (main # "submit" /\ main' # "submit")
    PROVE  Sofar' = Sofar
BY DEF Sofar, Kept, Line, This

LEMMA SubmitTypes == ASSUME DashInv, LineInv, platform = "windows", Submit PROVE LineInv'
<1>1. /\ main = "submit" /\ UNCHANGED <<platform, terminal, edited, input_buffer>>
      /\ lines \in Seq(Seq(Printable))
  BY DEF Submit, Unread, DashInv, Written, DashShape
<1>2. CASE Line = <<>>
  <2>1. lines' = SubSeq(lines, 1, This - 1) /\ main' = "key"
    BY <1>1, <1>2 DEF Submit, Again
  <2>2. Sofar' = Sofar
    BY <1>1, <1>2, <2>1 DEF Sofar, Kept
  <2> QED BY <1>1, <2>1, <2>2, SteadyKeeps
<1>3. CASE Line # <<>>
  <2>1. UNCHANGED lines /\ main' \in {"over", "command", "ask"}
    BY <1>1, <1>3 DEF Submit
  <2>2. Sofar' = Sofar
    BY <1>1, <1>3, <2>1 DEF Sofar, Kept
  <2> QED BY <1>1, <2>1, <2>2, SteadyKeeps
<1> QED BY <1>2, <1>3

(* A key is pressed: its codes make of the line what it makes of it. *)
LEMMA KeyMakes ==
    ASSUME NEW k \in Keystroke, k # "grave", NEW d \in Editing, ~d.lead,
           NEW s \in Seq(Code), NEW b, Makes(s, b, d),
           NEW e, e = [buffer |-> Edit(d.buffer, k),
                       lines |-> IF k = "enter" /\ d.buffer # <<>>
                                 THEN Append(d.lines, d.buffer) ELSE d.lines,
                       lead |-> FALSE]
    PROVE  /\ s \o Codes("windows", k) \in Seq(Code) /\ e \in Editing
           /\ Makes(s \o Codes("windows", k), b, e)
<1>1. d.buffer \in Seq(Printable) /\ d.lines \in Seq(Seq(Printable))
      /\ d = [buffer |-> d.buffer, lines |-> d.lines, lead |-> FALSE]
  BY DEF Editing
<1>2. CASE k \in {"F2", "arrow"}
  <2>1. PICK c \in {"<", "H"} : Codes("windows", k) = <<"lead", c>>
    BY <1>2 DEF Codes
  <2>2. e = d
    <3>1. Edit(d.buffer, k) = d.buffer
      BY <1>2 DEF Edit, Typed
    <3> QED BY <1>1, <1>2, <3>1
  <2> DEFINE m == [d EXCEPT !.lead = TRUE]
  <2>3. m \in Editing /\ Takes(d, "lead", m) /\ Takes(m, c, d)
    BY <1>1 DEF Editing, Takes
  <2>4. "lead" \in Code /\ c \in Code
    BY <2>1 DEF Code, Printable
  <2> HIDE DEF m
  <2> DEFINE t == Append(s, "lead")
  <2>5. Makes(t, b, m) /\ t \in Seq(Code)
    BY <2>3, <2>4, MakesMore
  <2> HIDE DEF t
  <2>6. Makes(Append(t, c), b, d) /\ Append(t, c) \in Seq(Code)
    BY <2>3, <2>4, <2>5, MakesMore
  <2>7. s \o <<"lead", c>> = Append(t, c)
    <3> DEFINE u == s \o <<"lead", c>>
               v == Append(t, c)
    <3>1. Append(s, "lead") = s \o <<"lead">>
      BY <2>4, Appended
    <3>2. /\ Len(t) = Len(s) + 1 /\ t[Len(s) + 1] = "lead" /\ \A n \in 1 .. Len(s) : t[n] = s[n]
          /\ Len(s) \in Nat
      BY <2>4, Appended DEF t
    <3>3. /\ v \in Seq(Code) /\ Len(v) = Len(s) + 2 /\ v[Len(s) + 2] = c /\ v[Len(s) + 1] = "lead"
          /\ \A n \in 1 .. Len(s) : v[n] = s[n]
      BY <2>4, <2>5, <3>2
    <3>4. /\ u \in Seq(Code) /\ Len(u) = Len(s) + 2 /\ u[Len(s) + 2] = c /\ u[Len(s) + 1] = "lead"
          /\ \A n \in 1 .. Len(s) : u[n] = s[n]
      BY <2>4, <3>2
    <3> HIDE DEF u, v
    <3>5. \A n \in 1 .. Len(s) + 2 : u[n] = v[n]
      BY <3>2, <3>3, <3>4
    <3>6. u = v
      BY <3>3, <3>4, <3>5, SeqEqual
    <3> QED BY <3>6 DEF u, v
  <2> QED BY <2>1, <2>2, <2>6, <2>7
<1>3. CASE k \in Typed \cup Control
  <2>1. Codes("windows", k) = <<k>> /\ k \in Code
    BY <1>3 DEF Codes, Typed, Control, Code, Printable
  <2>2. Edit(d.buffer, k) \in Seq(Printable)
    <3>1. CASE k \in Typed
      BY <1>1, <3>1 DEF Edit, Typed, Printable
    <3>2. CASE k = "backspace"
      BY <1>1, <3>2 DEF Edit, Typed
    <3>3. CASE k \in {"enter", "interrupt", "eof"}
      BY <1>1, <3>3 DEF Edit, Typed
    <3> QED BY <1>3, <3>1, <3>2, <3>3 DEF Control
  <2>3. Append(d.lines, d.buffer) \in Seq(Seq(Printable))
    BY <1>1
  <2>4. e \in Editing
    BY <1>1, <2>2, <2>3 DEF Editing
  <2>5. Takes(d, k, e)
    BY <1>1, <1>3 DEF Takes
  <2>6. Makes(Append(s, k), b, e) /\ Append(s, k) \in Seq(Code) /\ Append(s, k) = s \o <<k>>
    BY <2>1, <2>4, <2>5, MakesMore, Appended
  <2> QED BY <2>1, <2>4, <2>6
<1> QED BY <1>2, <1>3 DEF Keystroke, Typed, Control

LEMMA PressTypes == ASSUME LineInv, NEW k \in Pressed, Press(k) PROVE LineInv'
<1> SUFFICES ASSUME platform = "windows", main' # "over", ~edited'.grave PROVE LineInv'
  BY DEF LineInv, Press
<1>1. /\ k # "grave" /\ ~edited.grave
      /\ platform' = platform /\ main # "over" /\ main' = main
      /\ terminal' = terminal \o Codes(platform, k) /\ UNCHANGED <<input_buffer, lines>>
      /\ edited'.buffer = Edit(edited.buffer, k)
      /\ edited'.lines = IF k = "enter" /\ edited.buffer # <<>>
                         THEN Append(edited.lines, edited.buffer) ELSE edited.lines
  BY DEF Press
<1>2. /\ main \notin {"setraw", "escape"} /\ terminal \in Seq(Code)
      /\ Sofar \in Editing /\ Goal \in Editing /\ Makes(terminal, Sofar, Goal)
  BY <1>1 DEF LineInv
<1>3. Sofar' = Sofar
  BY <1>1, SameSofar
<1>4. PICK d \in Editing : d = Goal
  BY <1>2
<1>5. PICK b : b = Sofar
  OBVIOUS
<1>6. PICK s \in Seq(Code) : s = terminal
  BY <1>2
<1>7. PICK e : e = [buffer |-> Edit(d.buffer, k),
                    lines |-> IF k = "enter" /\ d.buffer # <<>>
                              THEN Append(d.lines, d.buffer) ELSE d.lines,
                    lead |-> FALSE]
  OBVIOUS
<1>8. ~d.lead /\ Makes(s, b, d) /\ k \in Keystroke /\ k # "grave"
  BY <1>1, <1>2, <1>4, <1>5, <1>6, DashAssumption DEF Goal
<1>9. /\ s \o Codes("windows", k) \in Seq(Code) /\ e \in Editing
      /\ Makes(s \o Codes("windows", k), b, e)
  BY <1>7, <1>8, KeyMakes
<1>10. Goal' = e
  BY <1>1, <1>4, <1>7 DEF Goal
<1> QED BY <1>1, <1>2, <1>3, <1>4, <1>5, <1>6, <1>9, <1>10 DEF LineInv
(* A key of its own is handled. *)
LEMMA HandleTypes ==
    ASSUME DashInv, platform = "windows", main = "key", NEW c \in Typed \cup Control, Handle(c), main' # "over"
    PROVE  /\ main' \notin {"setraw", "escape"}
           /\ Sofar' = [buffer |-> Edit(input_buffer, c),
                        lines |-> IF c = "enter" /\ input_buffer # <<>>
                                  THEN Append(lines, input_buffer) ELSE lines,
                        lead |-> FALSE]
<1>1. lines \in Seq(Seq(Printable)) /\ input_buffer \in Seq(Printable) /\ Again = "key"
  BY DEF DashInv, Written, DashShape, Again
<1>2. CASE c = "enter"
  <2>1. lines' = Append(lines, input_buffer) /\ input_buffer' = <<>> /\ main' = "submit"
    BY <1>2 DEF Handle
  <2>2. This' = This + 1 /\ Line' = input_buffer /\ This \in Nat
    BY <1>1, <2>1 DEF This, Line
  <2>3. SubSeq(lines', 1, This' - 1) = lines
    <3> DEFINE u == SubSeq(lines', 1, This)
    <3>1. /\ lines' \in Seq(Seq(Printable)) /\ Len(lines') = This + 1
          /\ \A n \in 1 .. This : lines'[n] = lines[n]
      BY <1>1, <2>1, Appended DEF This
    <3>2. \A n \in 1 .. This : lines'[n] \in Seq(Printable)
      BY <1>1, <3>1 DEF This
    <3>3. u \in Seq(Seq(Printable)) /\ Len(u) = This /\ \A n \in 1 .. This : u[n] = lines'[n]
      BY <2>2, <3>2, SubSeqProperties
    <3> HIDE DEF u
    <3>4. u = lines
      BY <1>1, <3>1, <3>3, SeqEqual DEF This
    <3> QED BY <2>2, <3>4 DEF u
  <2>4. Kept' = IF input_buffer = <<>> THEN lines ELSE Append(lines, input_buffer)
    BY <2>1, <2>2, <2>3 DEF Kept
  <2>5. Edit(input_buffer, c) = <<>>
    BY <1>2 DEF Edit, Typed
  <2> QED BY <1>2, <2>1, <2>4, <2>5 DEF Sofar
<1>3. CASE c \in {"interrupt", "eof"}
  <2>1. input_buffer' = <<>> /\ UNCHANGED lines /\ main' = "key"
    BY <1>1, <1>3 DEF Handle
  <2>2. Edit(input_buffer, c) = <<>>
    BY <1>3 DEF Edit, Typed
  <2> QED BY <1>3, <2>1, <2>2 DEF Sofar, Kept
<1>4. CASE c \in Typed \cup {"backspace"}
  <2>1. input_buffer' = Apply(input_buffer, c) /\ UNCHANGED lines /\ main' = "key"
    BY <1>1, <1>4 DEF Handle, Typed
  <2>2. Apply(input_buffer, c) = Edit(input_buffer, c) /\ c # "enter"
    BY <1>4 DEF Apply, Edit, Typed, Printable
  <2> QED BY <2>1, <2>2 DEF Sofar, Kept
<1> QED BY <1>2, <1>3, <1>4 DEF Control

(* The codes of a special key are read, and the line stays as it is. *)
LEMMA SpecialTypes ==
    ASSUME platform = "windows", main = "key", NEW x, Handle(Decode(<<"lead", x>>))
    PROVE  main' = "key" /\ Sofar' = Sofar
<1> DEFINE k == Decode(<<"lead", x>>)
<1>1. k \in {"toggle_log", "ignore"}
  <2> DEFINE q == <<"lead", x>>
  <2>1. q[1] = "lead" /\ q \notin PosixSequences
    BY DEF PosixSequences
  <2> HIDE DEF q
  <2>2. Decode(q) \in {"toggle_log", "ignore"}
    BY <2>1 DEF Decode, Control, Printable, Typed
  <2> QED BY <2>2 DEF q
<1>2. Handle(k)
  OBVIOUS
<1> HIDE DEF k
<1>3. input_buffer' = Apply(input_buffer, k) /\ main' = "key" /\ UNCHANGED lines
  BY <1>1, <1>2 DEF Handle, Again
<1>4. Apply(input_buffer, k) = input_buffer
  BY <1>1 DEF Apply, Printable, Typed
<1> QED BY <1>3, <1>4, SameSofar

LEMMA OwnCode == ASSUME NEW c \in Typed \cup Control PROVE Decode(<<c>>) = c
<1> DEFINE q == <<c>>
<1>1. q[1] = c /\ Len(q) = 1 /\ q \notin PosixSequences /\ c # "lead"
  BY DEF PosixSequences, Typed, Control
<1> HIDE DEF q
<1>2. Decode(q) = c
  BY <1>1 DEF Decode, Printable
<1> QED BY <1>2 DEF q

(* What is left of a terminal when the codes of one key are taken. *)
LEMMA FromSecond ==
    ASSUME NEW s \in Seq(Code), s # <<>> PROVE SubSeq(s, 1 + 1, Len(s)) = Tail(s)
<1> DEFINE u == SubSeq(s, 1 + 1, Len(s))
           v == Tail(s)
           l == Len(s)
<1>1. l \in Nat /\ l >= 1 /\ \A n \in 1 + 1 .. l : s[n] \in Code
  OBVIOUS
<1>2. v \in Seq(Code) /\ Len(v) = l - 1 /\ \A n \in 1 .. l - 1 : v[n] = s[n + 1]
  OBVIOUS
<1> HIDE DEF l
<1>3. /\ SubSeq(s, 1 + 1, l) \in Seq(Code) /\ Len(SubSeq(s, 1 + 1, l)) = l - 1
      /\ \A n \in 1 .. l - 1 : SubSeq(s, 1 + 1, l)[n] = s[n + 1]
  BY <1>1, SubSeqProperties
<1>4. u \in Seq(Code) /\ Len(u) = l - 1 /\ \A n \in 1 .. l - 1 : u[n] = v[n]
  BY <1>2, <1>3 DEF l
<1> HIDE DEF u, v
<1>5. u = v
  BY <1>2, <1>4, SeqEqual
<1> QED BY <1>5 DEF u, v, l

LEMMA FromThird ==
    ASSUME NEW s \in Seq(Code), s # <<>>, Tail(s) # <<>>
    PROVE  SubSeq(s, 2 + 1, Len(s)) = Tail(Tail(s)) /\ SubSeq(s, 1, 2) = <<Head(s), s[2]>>
<1> DEFINE u == SubSeq(s, 2 + 1, Len(s))
           t == Tail(s)
           v == Tail(t)
           l == Len(s)
<1>1. t \in Seq(Code) /\ Len(t) = l - 1 /\ \A n \in 1 .. l - 1 : t[n] = s[n + 1]
  OBVIOUS
<1>2. l \in Nat /\ l >= 2 /\ (\A n \in 2 + 1 .. l : s[n] \in Code) /\ Head(s) = s[1]
      /\ \A n \in 1 .. 2 : s[n] \in Code
  <2>1. Len(s) \in Nat /\ Len(t) # 0 /\ Len(s) # 0
    BY <1>1
  <2>2. Len(s) >= 2
    BY <1>1, <2>1
  <2> QED BY <2>1, <2>2
<1> HIDE DEF t
<1>3. v \in Seq(Code) /\ Len(v) = l - 2 /\ \A n \in 1 .. l - 2 : v[n] = s[n + 2]
  <2>1. t # <<>>
    BY <1>1, <1>2
  <2>2. v \in Seq(Code) /\ Len(v) = Len(t) - 1 /\ \A n \in 1 .. Len(t) - 1 : v[n] = t[n + 1]
    BY <1>1, <2>1
  <2> QED BY <1>1, <1>2, <2>2
<1> HIDE DEF l, v
<1>4. /\ SubSeq(s, 2 + 1, l) \in Seq(Code) /\ Len(SubSeq(s, 2 + 1, l)) = l - 2
      /\ \A n \in 1 .. l - 2 : SubSeq(s, 2 + 1, l)[n] = s[n + 2]
  BY <1>2, SubSeqProperties
<1>5. u \in Seq(Code) /\ Len(u) = l - 2 /\ \A n \in 1 .. l - 2 : u[n] = v[n]
  BY <1>3, <1>4 DEF l
<1> HIDE DEF u
<1>6. u = v
  BY <1>3, <1>5, SeqEqual
<1> DEFINE a == SubSeq(s, 1, 2)
           b == <<s[1], s[2]>>
<1>7. /\ a \in Seq(Code) /\ Len(a) = 2 /\ a[1] = s[1] /\ a[2] = s[2]
  BY <1>2, SubSeqProperties
<1>8. b \in Seq(Code) /\ Len(b) = 2 /\ b[1] = s[1] /\ b[2] = s[2]
  BY <1>2
<1> HIDE DEF a, b
<1>9. a = b
  BY <1>7, <1>8, SeqEqual
<1> QED BY <1>2, <1>6, <1>9 DEF u, v, t, l, a, b
LEMMA ReadTypes == ASSUME DashInv, LineInv, ReadWindows PROVE LineInv'
<1> SUFFICES ASSUME main' # "over", ~edited'.grave PROVE LineInv'
  BY DEF LineInv
<1>1. /\ main = "key" /\ platform = "windows" /\ terminal # <<>> /\ UNCHANGED edited
      /\ platform' = platform
  BY DEF ReadWindows, Handle
<1>2. /\ terminal \in Seq(Code) /\ Sofar \in Editing /\ Goal \in Editing /\ Makes(terminal, Sofar, Goal)
  BY <1>1 DEF LineInv
<1>3. Sofar = [buffer |-> input_buffer, lines |-> lines, lead |-> FALSE]
  BY <1>1 DEF Sofar, Kept
<1>4. Goal' = Goal
  BY <1>1 DEF Goal
<1>5. PICK s \in Seq(Code) : s = terminal
  BY <1>2
<1>6. PICK d \in Editing : d = Sofar
  BY <1>2
<1>7. PICK g \in Editing : g = Goal
  BY <1>2
<1>8. /\ s # <<>> /\ Makes(s, d, g) /\ ~d.lead /\ ~g.lead
      /\ d.buffer = input_buffer /\ d.lines = lines /\ Len(s) \in Nat /\ Head(s) = s[1]
  BY <1>1, <1>2, <1>3, <1>5, <1>6, <1>7 DEF Goal
<1>9. PICK m \in Editing : Takes(d, Head(s), m) /\ Makes(Tail(s), m, g)
  BY <1>8, MakesFirst
<1>10. CASE Head(s) = "lead"
  <2>1. m = [d EXCEPT !.lead = TRUE] /\ m.lead
    <3>1. "lead" \notin Typed \cup Control
      BY DEF Typed, Control
    <3>2. m = [d EXCEPT !.lead = TRUE]
      BY <1>8, <1>9, <1>10, <3>1 DEF Takes
    <3> QED BY <3>2 DEF Editing
  <2>2. Tail(s) # <<>> /\ Tail(s) \in Seq(Code)
    <3>1. m # g
      BY <1>8, <2>1
    <3>2. Tail(s) # <<>>
      BY <1>7, <1>9, <3>1, MakesNone
    <3> QED BY <1>8, <3>2
  <2>3. PICK n \in Editing : Takes(m, Head(Tail(s)), n) /\ Makes(Tail(Tail(s)), n, g)
    BY <1>9, <2>2, MakesFirst
  <2>4. n = d
    <3>1. n = [m EXCEPT !.lead = FALSE]
      BY <2>1, <2>3 DEF Takes
    <3> QED BY <1>8, <2>1, <3>1 DEF Editing
  <2>5. /\ SubSeq(s, 2 + 1, Len(s)) = Tail(Tail(s)) /\ SubSeq(s, 1, 2) = <<Head(s), s[2]>>
        /\ Tail(Tail(s)) \in Seq(Code)
    BY <1>8, <2>2, FromThird
  <2>6. Handle(Decode(<<"lead", s[2]>>)) /\ terminal' = Tail(Tail(s))
    BY <1>5, <1>10, <2>5 DEF ReadWindows
  <2>7. main' = "key" /\ Sofar' = Sofar
    BY <1>1, <2>6, SpecialTypes
  <2> QED BY <1>1, <1>2, <1>4, <1>6, <1>7, <2>3, <2>4, <2>5, <2>6, <2>7 DEF LineInv
<1>11. CASE Head(s) # "lead"
  <2>1. Head(s) \in Typed \cup Control
    BY <1>8, <1>9, <1>11 DEF Takes
  <2>2. SubSeq(s, 1 + 1, Len(s)) = Tail(s) /\ Tail(s) \in Seq(Code) /\ SubSeq(s, 1, 1) = <<Head(s)>>
    <3>1. 1 \in 1 .. Len(s) /\ s[1] \in Code
      BY <1>8
    <3> DEFINE a == SubSeq(s, 1, 1)
               b == <<s[1]>>
    <3>2. a \in Seq(Code) /\ Len(a) = 1 /\ a[1] = s[1]
      BY <3>1, SubSeqProperties
    <3>3. b \in Seq(Code) /\ Len(b) = 1 /\ b[1] = s[1]
      BY <3>1
    <3> HIDE DEF a, b
    <3>4. a = b
      BY <3>2, <3>3, SeqEqual
    <3> QED BY <1>8, <3>4, FromSecond DEF a, b
  <2>3. Handle(Head(s)) /\ terminal' = Tail(s)
    BY <1>5, <1>11, <2>1, <2>2, OwnCode DEF ReadWindows
  <2>4. /\ main' \notin {"setraw", "escape"}
        /\ Sofar' = [buffer |-> Edit(input_buffer, Head(s)),
                     lines |-> IF Head(s) = "enter" /\ input_buffer # <<>>
                               THEN Append(lines, input_buffer) ELSE lines,
                     lead |-> FALSE]
    BY <1>1, <2>1, <2>3, HandleTypes
  <2>5. m = [buffer |-> Edit(d.buffer, Head(s)),
             lines |-> IF Head(s) = "enter" /\ d.buffer # <<>>
                       THEN Append(d.lines, d.buffer) ELSE d.lines,
             lead |-> FALSE]
    BY <1>8, <1>9, <1>11 DEF Takes
  <2>6. Sofar' = m
    BY <1>8, <2>4, <2>5
  <2> QED BY <1>1, <1>2, <1>4, <1>7, <1>9, <2>2, <2>3, <2>4, <2>6 DEF LineInv
<1> QED BY <1>10, <1>11

LEMMA LineStep == ASSUME DashInv, LineInv, [DashNext]_dashVars PROVE LineInv'
<1> SUFFICES ASSUME platform = "windows", platform' = platform PROVE LineInv'
  <2>1. platform' = platform
    BY DEF dashVars, DashNext, Press, ReadKey, ReadWindows, SetRaw, ReadPosix, ReadEscape, Handle,
           Work, Submit, Command, ShowCaptured, ShowLine, Shown, Disabled, StartTurn, Turn, TurnFails,
           TurnResponds, TurnCallsTool, TurnRunsTool, TurnRaises, TurnGoesOn, InTurn, Answered, Unread,
           OtherThreads, BuildLayout, Update, StderrSays, StderrCuts, keyboard
  <2> QED BY <2>1 DEF LineInv
<1> SUFFICES ASSUME main' # "over", ~edited'.grave PROVE LineInv'
  BY DEF LineInv
<1>1. CASE UNCHANGED <<terminal, edited, input_buffer, lines>> /\ main # "over"
           /\ (main' = main \/ (main # "submit" /\ main' # "submit"))
           /\ main' \in {main} \cup Working \cup {"key"}
  <2>1. Sofar' = Sofar
    BY <1>1, SameSofar
  <2>2. main' \notin {"setraw", "escape"}
    BY <1>1 DEF LineInv, Working
  <2> QED BY <1>1, <2>1, <2>2, SteadyKeeps
<1>2. CASE \E k \in Pressed : Press(k)
  BY <1>2, PressTypes
<1>3. CASE ReadWindows
  BY <1>3, ReadTypes
<1>4. CASE SetRaw \/ ReadPosix \/ ReadEscape
  <2>1. main \in {"setraw", "escape"} /\ UNCHANGED edited
    BY <1>4 DEF SetRaw, ReadPosix, ReadEscape, Handle
  <2> QED BY <2>1 DEF LineInv
<1>5. CASE Submit
  BY <1>5, SubmitTypes
<1>6. CASE UNCHANGED dashVars \/ OtherThreads
  <2>1. UNCHANGED <<terminal, edited, input_buffer, lines, main>>
    BY <1>6 DEF dashVars, OtherThreads, BuildLayout, Update, StderrSays, StderrCuts, keyboard
  <2> QED BY <1>1, <2>1
<1>7. CASE \/ Command \/ ShowCaptured \/ ShowLine \/ Shown
           \/ Disabled \/ StartTurn \/ Turn \/ Answered
  <2>1. /\ UNCHANGED <<terminal, edited, input_buffer, lines>>
        /\ main \in Working /\ main' \in Working \cup {"key"}
    BY <1>7 DEF Command, ShowCaptured, ShowLine, Shown, Disabled, StartTurn, Turn, TurnFails,
           TurnResponds, TurnCallsTool, TurnRunsTool, TurnRaises, TurnGoesOn, InTurn, Answered, Unread,
           Main, Again, Working
  <2> QED BY <1>1, <2>1 DEF Working
<1> QED BY <1>2, <1>3, <1>4, <1>5, <1>6, <1>7 DEF DashNext, ReadKey, Work

LEMMA InitLine == DashInit => LineInv
<1> SUFFICES ASSUME DashInit, platform = "windows" PROVE LineInv
  BY DEF LineInv
<1>1. main = "key" /\ terminal = <<>> /\ input_buffer = <<>> /\ lines = <<>>
      /\ edited.buffer = <<>> /\ edited.lines = <<>>
  BY DEF DashInit, Again
<1>2. Sofar = [buffer |-> <<>>, lines |-> <<>>, lead |-> FALSE] /\ Goal = Sofar
  BY <1>1 DEF Sofar, Goal, Kept
<1>3. PICK d \in Editing : d = Sofar
  <2> DEFINE r == [buffer |-> <<>>, lines |-> <<>>, lead |-> FALSE]
  <2>1. r \in Editing
    BY DEF Editing
  <2> HIDE DEF r
  <2>2. Sofar = r
    BY <1>2 DEF r
  <2> QED BY <2>1, <2>2
<1>4. Makes(<<>>, d, d)
  BY MakesNone
<1> QED BY <1>1, <1>2, <1>3, <1>4 DEF LineInv

(* Where msvcrt reads the keyboard, the lines submitted and the one in the *)
(* footer are what a plain line editor makes of the keys pressed, however  *)
(* many and whenever they are pressed, but for the letter U+00E0.          *)
THEOREM DashLineAsTyped == DashSpec => []LineAsTyped
<1>1. DashInv /\ LineInv => LineAsTyped
  <2> SUFFICES ASSUME DashInv, LineInv, platform = "windows", main = "key", terminal = <<>>,
                      ~edited.grave
               PROVE  input_buffer = edited.buffer /\ lines = edited.lines
    BY DEF LineAsTyped, AllRead, TypedLine
  <2>1. Sofar \in Editing /\ Goal \in Editing /\ Makes(<<>>, Sofar, Goal)
    BY DEF LineInv
  <2>2. PICK d \in Editing : d = Sofar
    BY <2>1
  <2>3. d = Goal
    BY <2>1, <2>2, MakesNone
  <2> QED BY <2>2, <2>3 DEF Sofar, Goal, Kept
<1> QED BY <1>1, InitDash, DashStep, InitLine, LineStep, PTL DEF DashSpec
=============================================================================
