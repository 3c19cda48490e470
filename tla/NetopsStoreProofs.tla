-------------------------- MODULE NetopsStoreProofs --------------------------
(***************************************************************************)
(* The store keeps its promises (TicketLedger), for any number of threads, *)
(* accounts, slots and tickets, and wherever saves fail or the process is  *)
(* killed.                                                                 *)
(***************************************************************************)
EXTENDS NetopsStore, TLAPS

(* In memory, but not yet saved: a visit being scheduled under the lock. *)
Midway == {"visitStatus", "visitHistory"}

InVisit == {"visitLook", "visitLock", "visitReply", "visitSave"} \cup Midway

(* What a worker has in hand is so, wherever it is. *)
JobOK(w) ==
    /\ pc[w] # "idle" => up
    /\ pc[w] = "openLock" => job[w].account \in Accounts
    /\ pc[w] = "openSave" => Recorded(memory, Opened(job[w].id, job[w].account))
    /\ pc[w] = "openReply" => Recorded(book, Opened(job[w].id, job[w].account))
    /\ pc[w] \in InVisit => job[w].id \in Ids /\ job[w].slot \in Slots
    /\ pc[w] \in {"getVisit", "getDump"} => job[w].id \in Ids
    /\ pc[w] = "visitSave" => Recorded(memory, Scheduled(job[w].id, job[w].slot))
    /\ pc[w] = "visitReply" => Recorded(book, Scheduled(job[w].id, job[w].slot))

StoreInv ==
    /\ StoreTypeOK
    /\ up => Grows(book, memory)
    /\ LockFollowsWork
    /\ \A w \in Workers : JobOK(w)
    /\ \A fact \in acked : Recorded(book, fact)

-----------------------------------------------------------------------------
(* Books. *)
LEMMA EmptyBook == IsBook(Empty) /\ Empty.count = 0
BY DEF IsBook, Empty, Ticket

LEMMA GrowsSelf ==
    ASSUME NEW b, IsBook(b) PROVE Grows(b, b)
BY DEF Grows, Extends, IsBook, Ticket

LEMMA ExtendsMore ==
    ASSUME NEW s \in Seq(Slots), NEW t \in Seq(Slots), NEW u \in Seq(Slots),
           Extends(s, t), Extends(t, u)
    PROVE  Extends(s, u)
BY DEF Extends

LEMMA GrowsMore ==
    ASSUME NEW b, NEW c, NEW d, IsBook(b), IsBook(c), IsBook(d), Grows(b, c), Grows(c, d)
    PROVE  Grows(b, d)
<1>1. ASSUME NEW i \in 1 .. b.count
      PROVE  /\ d.tickets[i].account = b.tickets[i].account
             /\ Extends(b.tickets[i].history, d.tickets[i].history)
    <2>1. i \in 1 .. c.count /\ i \in 1 .. d.count
        BY DEF Grows, IsBook
    <2>2. /\ b.tickets[i].history \in Seq(Slots)
          /\ c.tickets[i].history \in Seq(Slots)
          /\ d.tickets[i].history \in Seq(Slots)
        BY <2>1 DEF IsBook, Ticket
    <2> QED
        BY <2>1, <2>2, ExtendsMore DEF Grows
<1>2. b.count <= d.count /\ DOMAIN b.visits \subseteq DOMAIN d.visits
    BY DEF Grows, IsBook
<1> QED
    BY <1>1, <1>2 DEF Grows

LEMMA RecordedGrows ==
    ASSUME NEW b, NEW c, IsBook(b), IsBook(c), Grows(b, c), NEW fact, Recorded(b, fact)
    PROVE  Recorded(c, fact)
<1>1. fact.id \in 1 .. b.count /\ fact.id \in 1 .. c.count
    BY DEF Recorded, Grows, IsBook
<1>2. /\ b.tickets[fact.id].history \in Seq(Slots)
      /\ c.tickets[fact.id].history \in Seq(Slots)
    BY <1>1 DEF IsBook, Ticket
<1>3. /\ c.tickets[fact.id].account = b.tickets[fact.id].account
      /\ Extends(b.tickets[fact.id].history, c.tickets[fact.id].history)
    BY <1>1 DEF Grows
<1>4. (\E n \in 1 .. Len(b.tickets[fact.id].history) : b.tickets[fact.id].history[n] = fact.of)
      => \E n \in 1 .. Len(c.tickets[fact.id].history) : c.tickets[fact.id].history[n] = fact.of
    BY <1>2, <1>3 DEF Extends
<1> QED
    BY <1>1, <1>3, <1>4 DEF Recorded

LEMMA BookFields ==
    ASSUME NEW b, IsBook(b)
    PROVE  /\ b.count \in Nat
           /\ \A i \in 1 .. b.count : /\ b.tickets[i] \in Ticket
                                      /\ b.tickets[i].account \in Accounts
                                      /\ b.tickets[i].status \in Status
                                      /\ b.tickets[i].history \in Seq(Slots)
BY DEF IsBook, Ticket

LEMMA AddTicket ==
    ASSUME NEW b, IsBook(b), NEW a \in Accounts
    PROVE  /\ IsBook(WithTicket(b, a)) /\ Grows(b, WithTicket(b, a))
           /\ Recorded(WithTicket(b, a), Opened(b.count + 1, a))
<1> DEFINE new == [account |-> a, status |-> "open", history |-> <<>>]
           c == WithTicket(b, a)
<1>1. new \in Ticket
    BY DEF Ticket, Status
<1>2. c = [count |-> b.count + 1,
           tickets |-> Insert(b.tickets, b.count + 1, new),
           visits |-> b.visits]
    BY DEF WithTicket
<1>3. /\ DOMAIN b.tickets = 1 .. b.count /\ b.count \in Nat
      /\ DOMAIN b.tickets \cup {b.count + 1} = 1 .. b.count + 1
    BY DEF IsBook
<1>4. c.tickets = [j \in 1 .. b.count + 1 |-> IF j = b.count + 1 THEN new ELSE b.tickets[j]]
    BY <1>2, <1>3 DEF Insert
<1>5. c.tickets \in [1 .. c.count -> Ticket]
    BY <1>1, <1>2, <1>3, <1>4 DEF IsBook
<1>6. IsBook(c)
    BY <1>2, <1>3, <1>5 DEF IsBook
<1>7. ASSUME NEW i \in 1 .. b.count PROVE c.tickets[i] = b.tickets[i]
    BY <1>3, <1>4
<1>8. Grows(b, c)
    BY <1>2, <1>3, <1>7, BookFields DEF Grows, Extends
<1>9. c.tickets[b.count + 1].account = a
    BY <1>3, <1>4
<1> HIDE DEF c
<1>10. Recorded(c, Opened(b.count + 1, a))
    <2>1. c.count = b.count + 1 /\ b.count + 1 \in 1 .. c.count
        BY <1>2, <1>3
    <2> QED
        BY <2>1, <1>9 DEF Recorded, Opened
<1> QED
    BY <1>6, <1>8, <1>10 DEF c

LEMMA AddVisit ==
    ASSUME NEW b, IsBook(b), NEW i \in 1 .. b.count, NEW s \in Slots
    PROVE  IsBook(WithVisit(b, i, s)) /\ Grows(b, WithVisit(b, i, s))
<1> DEFINE c == WithVisit(b, i, s)
<1>1. c = [count |-> b.count, tickets |-> b.tickets, visits |-> Insert(b.visits, i, s)]
    BY DEF WithVisit, IsBook
<1>2. /\ DOMAIN c.visits = DOMAIN b.visits \cup {i}
      /\ c.visits \in [DOMAIN c.visits -> Slots]
    BY <1>1 DEF Insert, IsBook
<1>3. IsBook(c)
    BY <1>1, <1>2 DEF IsBook
<1>4. Grows(b, c)
    BY <1>1, <1>2, BookFields DEF Grows, Extends
<1> QED
    BY <1>3, <1>4

(* Replacing ticket i by one of the same account and at least its history. *)
LEMMA ChangeTicket ==
    ASSUME NEW b, IsBook(b), NEW i \in 1 .. b.count, NEW t \in Ticket,
           t.account = b.tickets[i].account, Extends(b.tickets[i].history, t.history),
           NEW c, c = [b EXCEPT !.tickets = [b.tickets EXCEPT ![i] = t]]
    PROVE  IsBook(c) /\ Grows(b, c)
<1>1. c = [count |-> b.count, tickets |-> [b.tickets EXCEPT ![i] = t], visits |-> b.visits]
    BY DEF IsBook
<1>2. c.tickets \in [1 .. b.count -> Ticket] /\ c.tickets[i] = t
      /\ \A j \in 1 .. b.count : j # i => c.tickets[j] = b.tickets[j]
    BY <1>1 DEF IsBook
<1>3. IsBook(c)
    BY <1>1, <1>2 DEF IsBook
<1>4. ASSUME NEW j \in 1 .. b.count
      PROVE  /\ c.tickets[j].account = b.tickets[j].account
             /\ Extends(b.tickets[j].history, c.tickets[j].history)
    <2>1. CASE j = i
        BY <2>1, <1>2
    <2>2. CASE j # i
        BY <2>2, <1>2, BookFields DEF Extends
    <2> QED
        BY <2>1, <2>2
<1>5. Grows(b, c)
    <2>1. c.count = b.count /\ c.visits = b.visits
        BY <1>1
    <2> QED
        BY <1>4, <2>1, BookFields DEF Grows
<1> QED
    BY <1>1, <1>2, <1>3, <1>5

LEMMA SetStatus ==
    ASSUME NEW b, IsBook(b), NEW i \in 1 .. b.count
    PROVE  IsBook(WithStatus(b, i)) /\ Grows(b, WithStatus(b, i))
<1> DEFINE t == [b.tickets[i] EXCEPT !.status = "scheduled"]
<1>1. /\ t \in Ticket /\ t.account = b.tickets[i].account
      /\ t.history = b.tickets[i].history
    BY BookFields DEF Ticket, Status
<1>2. Extends(b.tickets[i].history, t.history)
    BY <1>1, BookFields DEF Extends
<1>3. WithStatus(b, i) = [b EXCEPT !.tickets = [b.tickets EXCEPT ![i] = t]]
    BY DEF WithStatus, IsBook
<1> HIDE DEF t
<1> QED
    BY <1>1, <1>2, <1>3, ChangeTicket

LEMMA AddHistory ==
    ASSUME NEW b, IsBook(b), NEW i \in 1 .. b.count, NEW s \in Slots
    PROVE  /\ IsBook(WithHistory(b, i, s)) /\ Grows(b, WithHistory(b, i, s))
           /\ Recorded(WithHistory(b, i, s), Scheduled(i, s))
<1> DEFINE h == b.tickets[i].history
           t == [b.tickets[i] EXCEPT !.history = Append(@, s)]
<1>1. h \in Seq(Slots) /\ Append(h, s) \in Seq(Slots) /\ Len(Append(h, s)) = Len(h) + 1
      /\ Append(h, s)[Len(h) + 1] = s /\ \A n \in 1 .. Len(h) : Append(h, s)[n] = h[n]
    BY BookFields
<1>2. t \in Ticket /\ t.account = b.tickets[i].account
    BY <1>1, BookFields DEF Ticket
<1>3. t.history = Append(h, s) /\ Extends(b.tickets[i].history, t.history)
    BY <1>1, BookFields DEF Extends, Ticket
<1>4. WithHistory(b, i, s) = [b EXCEPT !.tickets = [b.tickets EXCEPT ![i] = t]]
    BY DEF WithHistory, IsBook
<1> HIDE DEF t, h
<1>5. IsBook(WithHistory(b, i, s)) /\ Grows(b, WithHistory(b, i, s))
    <2>1. Extends(b.tickets[i].history, t.history)
        BY <1>3
    <2> QED
        BY <1>2, <2>1, <1>4, ChangeTicket
<1>6. Recorded(WithHistory(b, i, s), Scheduled(i, s))
    <2>1. Len(h) + 1 \in 1 .. Len(t.history) /\ t.history[Len(h) + 1] = s
        BY <1>1, <1>3
    <2>2. WithHistory(b, i, s).count = b.count /\ WithHistory(b, i, s).tickets[i] = t
        BY <1>4 DEF IsBook
    <2> QED
        BY <2>1, <2>2 DEF Recorded, Scheduled
<1> QED
    BY <1>5, <1>6

-----------------------------------------------------------------------------
(* Worker v keeps what it has in hand while another one moves. *)
LEMMA OthersKeep ==
    ASSUME StoreTypeOK, IsBook(memory'), IsBook(book'),
           Grows(memory, memory'), Grows(book, book'), up' = up,
           NEW v \in Workers, JobOK(v), pc'[v] = pc[v], job'[v] = job[v]
    PROVE  JobOK(v)'
<1>1. memory.count \in Nat /\ memory'.count \in Nat /\ memory.count <= memory'.count
    BY BookFields DEF StoreTypeOK, Grows
<1>2. \A i \in Ids : i \in Ids'
    BY <1>1 DEF Ids
<1>3. \A fact : Recorded(memory, fact) => Recorded(memory', fact)
    BY RecordedGrows DEF StoreTypeOK
<1>4. \A fact : Recorded(book, fact) => Recorded(book', fact)
    BY RecordedGrows DEF StoreTypeOK
<1>5. \A fact : Recorded(memory, fact)' <=> Recorded(memory', fact)
    BY DEF Recorded
<1>6. \A fact : Recorded(book, fact)' <=> Recorded(book', fact)
    BY DEF Recorded
<1> QED
    BY <1>2, <1>3, <1>4, <1>5, <1>6 DEF JobOK, Opened, Scheduled

(* What a step of worker w owes, that the invariant may hold after it. *)
LEMMA WorkerStep ==
    ASSUME StoreInv, up, up' = up, NEW w \in Workers,
           IsBook(memory'), IsBook(book'),
           Grows(memory, memory'), Grows(book, book'), Grows(book', memory'),
           NEW to \in WorkerPC, pc' = [pc EXCEPT ![w] = to],
           NEW j \in Job, job' = [job EXCEPT ![w] = j],
           reply' \in [Workers -> Reply], acked' \subseteq Fact,
           lock' \in Workers \cup {Nobody}, lock' = w <=> to \in Locked,
           \A v \in Workers \ {w} : lock' = v <=> pc[v] \in Locked,
           \A fact \in acked' : Recorded(book', fact),
           JobOK(w)'
    PROVE  StoreInv'
<1>1. StoreTypeOK'
    BY DEF StoreInv, StoreTypeOK
<1>2. LockFollowsWork'
    BY DEF LockFollowsWork, StoreInv, StoreTypeOK
<1>3. \A v \in Workers : JobOK(v)'
    <2>1. ASSUME NEW v \in Workers, v # w PROVE JobOK(v)'
        <3>1. pc'[v] = pc[v] /\ job'[v] = job[v]
            BY <2>1 DEF StoreInv, StoreTypeOK
        <3> QED
            BY <2>1, <3>1, OthersKeep DEF StoreInv
    <2> QED
        BY <2>1
<1> QED
    BY <1>1, <1>2, <1>3 DEF StoreInv

(* The same when neither the books nor the lock are touched. *)
LEMMA QuietStep ==
    ASSUME StoreInv, up, NEW w \in Workers, UNCHANGED <<memory, book, up, lock>>,
           NEW to \in WorkerPC \ Locked, pc[w] \notin Locked, pc' = [pc EXCEPT ![w] = to],
           NEW j \in Job, job' = [job EXCEPT ![w] = j],
           reply' \in [Workers -> Reply], acked' \subseteq Fact,
           \A fact \in acked' : Recorded(book, fact),
           JobOK(w)'
    PROVE  StoreInv'
<1>1. IsBook(memory) /\ IsBook(book) /\ Grows(book, memory)
      /\ lock \in Workers \cup {Nobody} /\ \A v \in Workers : lock = v <=> pc[v] \in Locked
    BY DEF StoreInv, StoreTypeOK, LockFollowsWork
<1>2. Grows(memory, memory) /\ Grows(book, book)
    BY <1>1, GrowsSelf
<1>3. IsBook(memory') /\ IsBook(book') /\ Grows(memory, memory') /\ Grows(book, book')
      /\ Grows(book', memory') /\ lock' = lock /\ \A fact \in acked' : Recorded(book', fact)
    BY <1>1, <1>2
<1> QED
    BY <1>1, <1>3, WorkerStep

-----------------------------------------------------------------------------
(* Well-typed jobs. *)
LEMMA BlankJob == Blank \in Job
BY DEF Blank, Asked, Job, Status

LEMMA StoreInvInit == StoreInit => StoreInv
<1> SUFFICES ASSUME StoreInit PROVE StoreInv
    OBVIOUS
<1> USE StoreAssumption DEF StoreInit, LedgerInit
<1>1. IsBook(memory) /\ IsBook(book) /\ Grows(book, memory)
    BY EmptyBook, GrowsSelf
<1>2. StoreTypeOK
    <2>1. pc \in [Workers -> WorkerPC] /\ reply \in [Workers -> Reply]
        BY DEF WorkerPC, Reply
    <2>2. job \in [Workers -> Job]
        BY BlankJob
    <2> QED
        BY <1>1, <2>1, <2>2 DEF StoreTypeOK
<1>3. \A w \in Workers : JobOK(w) /\ pc[w] \notin Locked
    BY DEF JobOK, InVisit, Midway, Locked
<1> QED
    BY <1>1, <1>2, <1>3 DEF StoreInv, LockFollowsWork

(* Reading and answering. *)
LEMMA ArrivesPreserves ==
    ASSUME StoreInv, NEW w \in Workers, Arrives(w)
    PROVE  StoreInv'
<1>1. ASSUME NEW to \in {"openLock", "visitLook", "getVisit"}, NEW j \in Job, Begin(w, to, j),
             to = "openLock" => j.account \in Accounts,
             to # "openLock" => j.id \in Ids,
             to = "visitLook" => j.slot \in Slots
      PROVE  StoreInv'
    <2>1. /\ up /\ UNCHANGED <<memory, book, up, lock, acked>>
          /\ pc[w] = "idle" /\ pc' = [pc EXCEPT ![w] = to]
          /\ job' = [job EXCEPT ![w] = j] /\ pc'[w] = to /\ job'[w] = j
          /\ reply' = [reply EXCEPT ![w] = NoReply]
        BY <1>1 DEF Begin, Goto, StoreInv, StoreTypeOK
    <2>2. reply' \in [Workers -> Reply] /\ acked' \subseteq Fact
          /\ \A fact \in acked' : Recorded(book, fact)
        BY <2>1 DEF StoreInv, StoreTypeOK, Reply
    <2>3. to \in WorkerPC \ Locked /\ pc[w] \notin Locked
        BY <1>1, <2>1 DEF WorkerPC, Locked
    <2>4. JobOK(w)'
        BY <1>1, <2>1 DEF JobOK, InVisit, Midway, Ids
    <2> QED
        BY <1>1, <2>1, <2>2, <2>3, <2>4, QuietStep
<1>2. ASSUME NEW a \in Accounts, OpenTicket(w, a) PROVE StoreInv'
    <2>1. Asked(0, a, None, "open") \in Job /\ Asked(0, a, None, "open").account = a
        BY DEF Asked, Job, Status
    <2> QED
        BY <1>1, <1>2, <2>1 DEF OpenTicket
<1>3. ASSUME NEW i \in Ids, NEW x \in Slots, ScheduleVisit(w, i, x) PROVE StoreInv'
    <2> DEFINE j == Asked(i, None, x, "open")
    <2>1. j \in Job /\ j.id = i /\ j.slot = x
        BY DEF Asked, Job, Status, Ids
    <2>2. Begin(w, "visitLook", j)
        BY <1>3 DEF ScheduleVisit
    <2> HIDE DEF j
    <2> QED
        BY <1>1, <2>1, <2>2
<1>4. ASSUME NEW i \in Ids, GetTicket(w, i) PROVE StoreInv'
    <2>1. memory.tickets[i].status \in Status
        BY BookFields DEF StoreInv, StoreTypeOK, Ids
    <2> DEFINE j == Asked(i, None, None, memory.tickets[i].status)
    <2>2. j \in Job /\ j.id = i
        BY <2>1, BookFields DEF Asked, Job, Status, Ids
    <2>3. Begin(w, "getVisit", j)
        BY <1>4 DEF GetTicket
    <2> HIDE DEF j
    <2> QED
        BY <1>1, <2>2, <2>3
<1> QED
    BY <1>2, <1>3, <1>4 DEF Arrives

LEMMA AnswerPreserves ==
    ASSUME StoreInv, NEW w \in Workers, AnswerOpen(w) \/ AnswerVisit(w) \/ AnswerGet(w)
    PROVE  StoreInv'
<1>1. ASSUME NEW from \in {"openReply", "visitReply", "getDump"}, NEW r \in Reply,
             Answer(w, from, r), acked' \subseteq Fact,
             \A fact \in acked' : Recorded(book, fact)
      PROVE  StoreInv'
    <2>1. /\ pc[w] = from /\ pc' = [pc EXCEPT ![w] = "idle"] /\ pc'[w] = "idle"
          /\ job' = [job EXCEPT ![w] = Blank] /\ job'[w] = Blank
          /\ reply' \in [Workers -> Reply] /\ UNCHANGED <<memory, book, up, lock>>
        BY <1>1 DEF Answer, Goto, StoreInv, StoreTypeOK
    <2>2. up /\ pc[w] \notin Locked
        BY <1>1, <2>1 DEF StoreInv, JobOK, Locked
    <2>3. JobOK(w)' /\ "idle" \in WorkerPC \ Locked
        BY <2>1 DEF JobOK, InVisit, Midway, WorkerPC, Locked
    <2> QED
        BY <1>1, <2>1, <2>2, <2>3, BlankJob, QuietStep
<1>2. /\ acked \subseteq Fact /\ job[w] \in Job /\ JobOK(w)
      /\ \A fact \in acked : Recorded(book, fact)
    BY DEF StoreInv, StoreTypeOK
<1>3. CASE AnswerOpen(w)
    <2>1. pc[w] = "openReply" /\ Recorded(book, Opened(job[w].id, job[w].account))
        BY <1>2, <1>3 DEF AnswerOpen, Answer, Goto, JobOK
    <2>2. job[w].id \in Ids /\ job[w].id \in 1 .. book.count
        <3>1. job[w].id \in 1 .. book.count /\ book.count <= memory.count
              /\ book.count \in Nat /\ memory.count \in Nat
            BY <1>2, <2>1, BookFields DEF Recorded, Opened, JobOK, StoreInv, StoreTypeOK, Grows
        <3> QED
            BY <3>1 DEF Ids
    <2>3. memory.tickets[job[w].id].status \in Status /\ job[w].id \in Nat
        BY <2>2, BookFields DEF StoreInv, StoreTypeOK, Ids
    <2>4. [op |-> "opened", id |-> job[w].id, status |-> memory.tickets[job[w].id].status]
             \in Reply
        BY <2>3 DEF Reply
    <2>5. Opened(job[w].id, job[w].account) \in Fact
        <3>1. job[w].account = book.tickets[job[w].id].account
            BY <2>1 DEF Recorded, Opened
        <3>2. job[w].account \in Accounts
            BY <2>2, <3>1, BookFields DEF StoreInv, StoreTypeOK
        <3> QED
            BY <2>3, <3>2 DEF Fact, Opened
    <2> QED
        BY <1>1, <1>2, <1>3, <2>1, <2>4, <2>5 DEF AnswerOpen
<1>4. CASE AnswerVisit(w)
    <2>1. /\ pc[w] = "visitReply" /\ Recorded(book, Scheduled(job[w].id, job[w].slot))
          /\ job[w].slot \in Slots /\ job[w].id \in Nat /\ job[w].already \in BOOLEAN
        BY <1>2, <1>4 DEF AnswerVisit, Answer, Goto, JobOK, InVisit, Job
    <2>2. [op |-> "scheduled", id |-> job[w].id, slot |-> job[w].slot,
           rescheduled |-> job[w].already] \in Reply
        BY <2>1 DEF Reply
    <2>3. Scheduled(job[w].id, job[w].slot) \in Fact
        BY <2>1 DEF Fact, Scheduled
    <2> QED
        BY <1>1, <1>2, <1>4, <2>1, <2>2, <2>3 DEF AnswerVisit
<1>5. CASE AnswerGet(w)
    <2>1. pc[w] = "getDump" /\ job[w].id \in Ids /\ job[w].id \in Nat
          /\ job[w].status \in Status /\ job[w].visit \in Slots \cup {None}
        BY <1>2, <1>5 DEF AnswerGet, Answer, Goto, JobOK, Job
    <2>2. memory.tickets[job[w].id].account \in Accounts
          /\ memory.tickets[job[w].id].history \in Seq(Slots)
        BY <2>1, BookFields DEF StoreInv, StoreTypeOK, Ids
    <2>3. [op |-> "shown", id |-> job[w].id, account |-> memory.tickets[job[w].id].account,
           status |-> job[w].status, visit |-> job[w].visit,
           history |-> memory.tickets[job[w].id].history] \in Reply
        BY <2>1, <2>2 DEF Reply
    <2> QED
        BY <1>1, <1>2, <1>5, <2>3 DEF AnswerGet
<1> QED
    BY <1>3, <1>4, <1>5

(* Reading ahead of the answer. *)
LEMMA ReadPreserves ==
    ASSUME StoreInv, NEW w \in Workers, LookForVisit(w) \/ ReadVisit(w)
    PROVE  StoreInv'
<1>1. job[w] \in Job /\ JobOK(w) /\ pc \in [Workers -> WorkerPC] /\ job \in [Workers -> Job]
    BY DEF StoreInv, StoreTypeOK
<1>2. /\ reply \in [Workers -> Reply] /\ acked \subseteq Fact
      /\ \A fact \in acked : Recorded(book, fact)
    BY DEF StoreInv, StoreTypeOK
<1>3. CASE LookForVisit(w)
    <2> DEFINE b == job[w].id \in DOMAIN memory.visits
               j == [job[w] EXCEPT !.already = b]
    <2>1. j \in Job /\ j.id = job[w].id /\ j.slot = job[w].slot
        <3>1. b \in BOOLEAN
            OBVIOUS
        <3> HIDE DEF b
        <3> QED
            BY <1>1, <3>1 DEF Job
    <2>2. /\ job' = [job EXCEPT ![w] = j] /\ job'[w] = j
          /\ pc' = [pc EXCEPT ![w] = "visitLock"] /\ pc'[w] = "visitLock" /\ pc[w] = "visitLook"
          /\ UNCHANGED <<memory, book, up, lock, reply, acked>>
        BY <1>1, <1>3 DEF LookForVisit, Goto
    <2> HIDE DEF j
    <2>3. up /\ job[w].id \in Ids /\ job[w].slot \in Slots
        BY <1>1, <2>2 DEF JobOK, InVisit
    <2>4. JobOK(w)'
        BY <2>1, <2>2, <2>3 DEF JobOK, InVisit, Midway, Ids
    <2> QED
        BY <1>2, <2>1, <2>2, <2>3, <2>4, QuietStep DEF WorkerPC, Locked
<1>4. CASE ReadVisit(w)
    <2> DEFINE v == IF job[w].id \in DOMAIN memory.visits
                    THEN memory.visits[job[w].id] ELSE None
               j == [job[w] EXCEPT !.visit = v]
    <2>1. v \in Slots \cup {None}
        BY DEF StoreInv, StoreTypeOK, IsBook
    <2>2. /\ job' = [job EXCEPT ![w] = j] /\ job'[w] = j
          /\ pc' = [pc EXCEPT ![w] = "getDump"] /\ pc'[w] = "getDump" /\ pc[w] = "getVisit"
          /\ UNCHANGED <<memory, book, up, lock, reply, acked>>
        BY <1>1, <1>4 DEF ReadVisit, Goto
    <2> HIDE DEF v
    <2>3. j \in Job /\ j.id = job[w].id
        BY <1>1, <2>1 DEF Job
    <2> HIDE DEF j
    <2>4. up /\ job[w].id \in Ids
        BY <1>1, <2>2 DEF JobOK
    <2>5. JobOK(w)'
        BY <2>2, <2>3, <2>4 DEF JobOK, InVisit, Midway, Ids
    <2> QED
        BY <1>2, <2>2, <2>3, <2>4, <2>5, QuietStep DEF WorkerPC, Locked
<1> QED
    BY <1>3, <1>4

(* The four changes to memory, each made by the holder of the lock. *)
LEMMA ChangePreserves ==
    ASSUME StoreInv, NEW w \in Workers,
           CreateTicket(w) \/ PutVisit(w) \/ PutStatus(w) \/ PutHistory(w)
    PROVE  StoreInv'
<1> USE DEF Goto
<1>1. /\ job[w] \in Job /\ JobOK(w) /\ pc \in [Workers -> WorkerPC]
      /\ job \in [Workers -> Job] /\ reply \in [Workers -> Reply] /\ acked \subseteq Fact
      /\ IsBook(memory) /\ IsBook(book) /\ memory.count \in Nat
      /\ \A fact \in acked : Recorded(book, fact)
      /\ \A v \in Workers : lock = v <=> pc[v] \in Locked
      /\ lock \in Workers \cup {Nobody} /\ Nobody \notin Workers
    BY StoreAssumption, BookFields DEF StoreInv, StoreTypeOK, LockFollowsWork
<1>2. up /\ Grows(book, memory)
    BY <1>1 DEF CreateTicket, PutVisit, PutStatus, PutHistory, JobOK, StoreInv
<1>3. ASSUME IsBook(memory'), Grows(memory, memory'), UNCHANGED <<book, up, reply, acked>>,
             NEW to \in Locked, pc' = [pc EXCEPT ![w] = to],
             NEW j \in Job, job' = [job EXCEPT ![w] = j],
             lock = Nobody \/ pc[w] \in Locked, lock' = w, JobOK(w)'
      PROVE  StoreInv'
    <2>1. \A v \in Workers \ {w} : pc[v] \notin Locked
        BY <1>1, <1>3
    <2>2. IsBook(book') /\ Grows(book, book') /\ Grows(book', memory')
        BY <1>1, <1>2, <1>3, GrowsSelf, GrowsMore
    <2>3. \A fact \in acked' : Recorded(book', fact)
        BY <1>1, <1>3
    <2>4. to \in WorkerPC
        BY DEF WorkerPC
    <2> QED
        BY <1>1, <1>2, <1>3, <2>1, <2>2, <2>3, <2>4, WorkerStep
<1>4. CASE CreateTicket(w)
    <2> DEFINE a == job[w].account
               j == [job[w] EXCEPT !.id = memory.count + 1]
    <2>1. /\ job' = [job EXCEPT ![w] = j] /\ job'[w] = j
          /\ pc' = [pc EXCEPT ![w] = "openSave"] /\ pc'[w] = "openSave"
          /\ memory' = WithTicket(memory, a) /\ lock = Nobody /\ lock' = w
          /\ UNCHANGED <<book, up, reply, acked>>
        BY <1>1, <1>4 DEF CreateTicket
    <2>2. j \in Job /\ j.id = memory.count + 1 /\ j.account = a
        BY <1>1 DEF Job
    <2> HIDE DEF j
    <2>3. a \in Accounts
        BY <1>1, <1>4 DEF CreateTicket, JobOK
    <2>4. /\ IsBook(memory') /\ Grows(memory, memory')
          /\ Recorded(memory', Opened(memory.count + 1, a))
        BY <1>1, <2>1, <2>3, AddTicket
    <2>5. JobOK(w)'
        <3>1. Recorded(memory', Opened(job'[w].id, job'[w].account))
            BY <2>1, <2>2, <2>4
        <3> QED
            BY <1>2, <2>1, <3>1 DEF JobOK, InVisit, Midway, Recorded, Opened
    <2> QED
        BY <1>3, <2>1, <2>2, <2>4, <2>5 DEF Locked
<1>5. ASSUME NEW from \in {"visitLock", "visitStatus", "visitHistory"},
             NEW to \in {"visitStatus", "visitHistory", "visitSave"},
             pc[w] = from, pc' = [pc EXCEPT ![w] = to],
             IsBook(memory'), Grows(memory, memory'), UNCHANGED <<book, up, job, reply, acked>>,
             lock = Nobody \/ pc[w] \in Locked, lock' = w,
             to = "visitSave" => Recorded(memory', Scheduled(job[w].id, job[w].slot))
      PROVE  StoreInv'
    <2>1. job[w].id \in Ids /\ job[w].slot \in Slots
        BY <1>1, <1>5 DEF JobOK, InVisit, Midway
    <2>2. job[w].id \in Ids'
        <3>1. memory'.count \in Nat /\ memory.count <= memory'.count
            BY <1>5, BookFields DEF Grows
        <3> QED
            BY <1>1, <2>1, <3>1 DEF Ids
    <2>3. pc'[w] = to /\ job' = [job EXCEPT ![w] = job[w]] /\ job'[w] = job[w]
        BY <1>1, <1>5
    <2>4. JobOK(w)'
        BY <1>2, <1>5, <2>1, <2>2, <2>3 DEF JobOK, InVisit, Midway, Recorded, Scheduled, Ids
    <2> QED
        BY <1>1, <1>3, <1>5, <2>3, <2>4 DEF Locked
<1>6. pc[w] \in {"visitLock", "visitStatus", "visitHistory"}
      => job[w].id \in 1 .. memory.count /\ job[w].slot \in Slots
    BY <1>1 DEF JobOK, InVisit, Midway, Ids
<1>7. CASE PutVisit(w)
    <2>1. IsBook(memory') /\ Grows(memory, memory')
        BY <1>1, <1>6, <1>7, AddVisit DEF PutVisit
    <2> QED
        BY <1>5, <1>7, <2>1 DEF PutVisit
<1>8. CASE PutStatus(w)
    <2>1. IsBook(memory') /\ Grows(memory, memory')
        BY <1>1, <1>6, <1>8, SetStatus DEF PutStatus
    <2>2. lock' = w /\ pc[w] \in Locked
        BY <1>1, <1>8 DEF PutStatus, Locked
    <2> QED
        BY <1>5, <1>8, <2>1, <2>2 DEF PutStatus
<1>9. CASE PutHistory(w)
    <2>1. /\ IsBook(memory') /\ Grows(memory, memory')
          /\ Recorded(memory', Scheduled(job[w].id, job[w].slot))
        BY <1>1, <1>6, <1>9, AddHistory DEF PutHistory
    <2>2. lock' = w /\ pc[w] \in Locked
        BY <1>1, <1>9 DEF PutHistory, Locked
    <2> QED
        BY <1>5, <1>9, <2>1, <2>2 DEF PutHistory
<1> QED
    BY <1>4, <1>7, <1>8, <1>9

(* Saving, or failing to; either way the lock is free again. *)
LEMMA SavePreserves ==
    ASSUME StoreInv, NEW w \in Workers, SaveTicket(w) \/ SaveVisit(w) \/ SaveFails(w)
    PROVE  StoreInv' /\ IsBook(book') /\ Grows(book, book') /\ UNCHANGED acked
<1> USE DEF Goto
<1>1. /\ job[w] \in Job /\ JobOK(w) /\ pc \in [Workers -> WorkerPC]
      /\ job \in [Workers -> Job] /\ reply \in [Workers -> Reply] /\ acked \subseteq Fact
      /\ IsBook(memory) /\ IsBook(book)
      /\ \A fact \in acked : Recorded(book, fact)
      /\ Nobody \notin Workers /\ \A v \in Workers : lock = v <=> pc[v] \in Locked
    BY StoreAssumption DEF StoreInv, StoreTypeOK, LockFollowsWork
<1>2. pc[w] \in {"openSave", "visitSave"}
    BY DEF SaveTicket, SaveVisit, Save, SaveFails
<1>3. up /\ Grows(book, memory) /\ \A v \in Workers \ {w} : pc[v] \notin Locked
    BY <1>1, <1>2 DEF JobOK, StoreInv, Locked
<1>4. CASE SaveFails(w)
    <2>1. /\ UNCHANGED <<memory, book, up, acked>> /\ lock' = Nobody
          /\ pc' = [pc EXCEPT ![w] = "idle"] /\ pc'[w] = "idle"
          /\ job' = [job EXCEPT ![w] = Blank]
          /\ reply' \in [Workers -> Reply]
        BY <1>1, <1>4 DEF SaveFails, Reply
    <2>2. JobOK(w)'
        BY <2>1 DEF JobOK, InVisit, Midway
    <2>3. /\ IsBook(memory') /\ IsBook(book') /\ Grows(memory, memory') /\ Grows(book, book')
          /\ Grows(book', memory')
        BY <1>1, <1>3, <2>1, GrowsSelf
    <2>4. acked' \subseteq Fact /\ \A fact \in acked' : Recorded(book', fact)
        BY <1>1, <2>1
    <2>5. "idle" \in WorkerPC /\ "idle" \notin Locked
        BY DEF WorkerPC, Locked
    <2>6. /\ lock' \in Workers \cup {Nobody} /\ (lock' = w <=> "idle" \in Locked)
          /\ \A v \in Workers \ {w} : lock' = v <=> pc[v] \in Locked
        BY <1>1, <1>3, <2>1, <2>5
    <2> QED
        BY <1>3, <2>1, <2>2, <2>3, <2>4, <2>5, <2>6, BlankJob, WorkerStep
<1>5. ASSUME NEW to \in {"openReply", "visitReply"}, NEW from \in {"openSave", "visitSave"},
             Save(w, from, to), from = "openSave" <=> to = "openReply"
      PROVE  StoreInv' /\ IsBook(book') /\ Grows(book, book') /\ UNCHANGED acked
    <2>1. /\ UNCHANGED <<memory, up, reply, acked>> /\ lock' = Nobody /\ book' = memory
          /\ pc[w] = from /\ pc' = [pc EXCEPT ![w] = to] /\ pc'[w] = to
          /\ job' = [job EXCEPT ![w] = job[w]] /\ job'[w] = job[w]
        BY <1>1, <1>5 DEF Save
    <2>2. /\ IsBook(memory') /\ IsBook(book') /\ Grows(memory, memory') /\ Grows(book, book')
          /\ Grows(book', memory')
        BY <1>1, <1>3, <2>1, GrowsSelf
    <2>3. acked' \subseteq Fact /\ \A fact \in acked' : Recorded(book', fact)
        BY <1>1, <1>3, <2>1, RecordedGrows
    <2>4. JobOK(w)'
        <3>1. to = "openReply" => Recorded(book', Opened(job[w].id, job[w].account))
            BY <1>1, <1>5, <2>1 DEF JobOK
        <3>2. to = "visitReply" =>
                  /\ Recorded(book', Scheduled(job[w].id, job[w].slot))
                  /\ job[w].id \in Ids /\ job[w].slot \in Slots
            BY <1>1, <1>5, <2>1 DEF JobOK, InVisit
        <3> QED
            BY <1>3, <1>5, <2>1, <3>1, <3>2
            DEF JobOK, InVisit, Midway, Recorded, Opened, Scheduled, Ids
    <2>5. to \in WorkerPC \ Locked
        BY DEF WorkerPC, Locked
    <2>6. StoreInv'
        BY <1>1, <1>3, <2>1, <2>2, <2>3, <2>4, <2>5, WorkerStep
    <2> QED
        BY <2>1, <2>2, <2>6
<1> QED
    BY <1>4, <1>5 DEF SaveTicket, SaveVisit

LEMMA RestartPreserves ==
    ASSUME StoreInv, Crash \/ Restart
    PROVE  StoreInv'
<1>1. IsBook(memory) /\ IsBook(book) /\ IsBook(Empty) /\ Grows(book, book)
    BY EmptyBook, GrowsSelf DEF StoreInv, StoreTypeOK
<1>2. \A fact \in acked' : Recorded(book', fact)
    BY DEF StoreInv, Crash, Restart
<1>3. CASE Crash
    <2>1. pc' \in [Workers -> WorkerPC] /\ job' \in [Workers -> Job]
          /\ \A v \in Workers : pc'[v] = "idle"
        BY <1>3, BlankJob DEF Crash, WorkerPC
    <2>2. StoreTypeOK'
        BY <1>1, <1>3, <2>1 DEF Crash, StoreInv, StoreTypeOK
    <2>3. \A v \in Workers : JobOK(v)' /\ pc'[v] \notin Locked
        BY <2>1 DEF JobOK, InVisit, Midway, Locked
    <2> QED
        BY <1>2, <1>3, <2>2, <2>3, StoreAssumption DEF StoreInv, Crash, LockFollowsWork
<1>4. CASE Restart
    <2>1. StoreTypeOK'
        BY <1>1, <1>4 DEF Restart, StoreInv, StoreTypeOK
    <2>2. \A v \in Workers : pc'[v] = "idle"
        BY <1>4 DEF Restart, StoreInv, JobOK
    <2>3. \A v \in Workers : JobOK(v)' /\ pc'[v] \notin Locked
        BY <2>2 DEF JobOK, InVisit, Midway, Locked
    <2>4. LockFollowsWork'
        BY <1>4 DEF Restart, StoreInv, LockFollowsWork
    <2> QED
        BY <1>1, <1>2, <1>4, <2>1, <2>4, <2>3 DEF StoreInv, Restart
<1> QED
    BY <1>3, <1>4

LEMMA StoreInvStep == StoreInv /\ [StoreNext]_storeVars => StoreInv'
<1> SUFFICES ASSUME StoreInv, [StoreNext]_storeVars PROVE StoreInv'
    OBVIOUS
<1>1. ASSUME NEW w \in Workers, Serves(w) PROVE StoreInv'
    BY <1>1, AnswerPreserves, ReadPreserves, ChangePreserves, SavePreserves DEF Serves
<1>2. CASE UNCHANGED storeVars
    <2> USE DEF StoreInv
    <2>1. /\ memory' = memory /\ book' = book /\ acked' = acked /\ up' = up
          /\ pc' = pc /\ job' = job /\ reply' = reply /\ lock' = lock
        BY <1>2 DEF storeVars
    <2>2. StoreTypeOK'
        BY <2>1 DEF StoreTypeOK, IsBook, Ids
    <2>3. ASSUME NEW w \in Workers PROVE JobOK(w)'
        <3>1. JobOK(w)
            OBVIOUS
        <3> QED
            BY <2>1, <3>1 DEF JobOK, Recorded, Opened, Scheduled, Ids
    <2>4. LockFollowsWork'
        BY <2>1 DEF LockFollowsWork
    <2>5. (up' => Grows(book', memory')) /\ \A fact \in acked' : Recorded(book', fact)
        BY <2>1
    <2> QED
        BY <2>1, <2>2, <2>3, <2>4, <2>5
<1> QED
    BY <1>1, <1>2, ArrivesPreserves, RestartPreserves DEF StoreNext

-----------------------------------------------------------------------------
(* Whatever the threads, failed saves and restarts: what a client was told *)
(* is on disk before it is told and is served ever after, and no ticket id *)
(* is given to two tickets.                                                *)
THEOREM StoreSafety == StoreSpec => [](StoreTypeOK /\ LockFollowsWork /\ AckedIsServed)
<1>1. StoreSpec => []StoreInv
    BY StoreInvInit, StoreInvStep, PTL DEF StoreSpec
<1>2. StoreInv => StoreTypeOK /\ LockFollowsWork /\ AckedIsServed
    BY RecordedGrows DEF StoreInv, StoreTypeOK, AckedIsServed
<1> QED
    BY <1>1, <1>2, PTL

(* A step of the store is one of the ledger's, or changes neither the file *)
(* nor what clients were told.                                             *)
LEMMA LedgerStep == StoreInv /\ [StoreNext]_storeVars => [LedgerNext]_<<book, acked>>
<1> SUFFICES ASSUME StoreInv, [StoreNext]_storeVars
             PROVE  [LedgerNext]_<<book, acked>>
    OBVIOUS
<1>1. ASSUME NEW w \in Workers, Arrives(w) PROVE UNCHANGED <<book, acked>>
    BY <1>1 DEF Arrives, OpenTicket, ScheduleVisit, GetTicket, Begin
<1>2. ASSUME NEW w \in Workers,
             \/ CreateTicket(w) \/ LookForVisit(w) \/ PutVisit(w) \/ PutStatus(w)
             \/ PutHistory(w) \/ ReadVisit(w) \/ AnswerGet(w)
      PROVE  UNCHANGED <<book, acked>>
    BY <1>2 DEF CreateTicket, LookForVisit, PutVisit, PutStatus, PutHistory, ReadVisit,
                AnswerGet, Answer
<1>3. ASSUME NEW w \in Workers, SaveTicket(w) \/ SaveVisit(w) \/ SaveFails(w) PROVE Commit
    BY <1>3, SavePreserves DEF Commit
<1>4. ASSUME NEW w \in Workers, AnswerOpen(w) PROVE Acknowledge
    <2>1. /\ Recorded(book, Opened(job[w].id, job[w].account))
          /\ UNCHANGED book /\ acked' = acked \cup {Opened(job[w].id, job[w].account)}
        BY <1>4 DEF AnswerOpen, Answer, Goto, StoreInv, JobOK
    <2>2. job[w].id \in 1 .. book.count /\ job[w].account = book.tickets[job[w].id].account
        BY <2>1 DEF Recorded, Opened
    <2>3. job[w].account \in Accounts
        BY <2>2, BookFields DEF StoreInv, StoreTypeOK
    <2> QED
        BY <2>1, <2>2, <2>3 DEF Acknowledge
<1>5. ASSUME NEW w \in Workers, AnswerVisit(w) PROVE Acknowledge
    <2>1. /\ Recorded(book, Scheduled(job[w].id, job[w].slot))
          /\ UNCHANGED book /\ acked' = acked \cup {Scheduled(job[w].id, job[w].slot)}
          /\ job[w].slot \in Slots
        BY <1>5 DEF AnswerVisit, Answer, Goto, StoreInv, JobOK, InVisit
    <2>2. job[w].id \in 1 .. book.count
        BY <2>1 DEF Recorded, Scheduled
    <2> QED
        BY <2>1, <2>2 DEF Acknowledge
<1>6. CASE Crash \/ Restart \/ UNCHANGED storeVars
    BY <1>6 DEF Crash, Restart, storeVars
<1> QED
    BY <1>1, <1>2, <1>3, <1>4, <1>5, <1>6 DEF StoreNext, Serves, LedgerNext

(* The threads, their lock and their file implement the ledger. *)
THEOREM StoreImplementsLedger == StoreSpec => LedgerSpec
<1>1. StoreSpec => []StoreInv
    BY StoreInvInit, StoreInvStep, PTL DEF StoreSpec
<1>2. StoreInit => LedgerInit
    BY DEF StoreInit
<1> QED
    BY <1>1, <1>2, LedgerStep, PTL DEF StoreSpec, LedgerSpec
-----------------------------------------------------------------------------
(* What each change does to the tickets and visits. *)
LEMMA NewTicket ==
    ASSUME NEW b, IsBook(b), NEW a \in Accounts, NEW c, c = WithTicket(b, a)
    PROVE  /\ c.count = b.count + 1 /\ c.visits = b.visits
           /\ c.tickets[b.count + 1].status = "open" /\ c.tickets[b.count + 1].history = <<>>
           /\ \A j \in 1 .. b.count : c.tickets[j] = b.tickets[j]
<1>1. DOMAIN b.tickets = 1 .. b.count /\ b.count \in Nat
    BY DEF IsBook
<1> QED
    BY <1>1 DEF WithTicket, Insert

LEMMA NewVisit ==
    ASSUME NEW b, IsBook(b), NEW i \in 1 .. b.count, NEW x \in Slots, NEW c, c = WithVisit(b, i, x)
    PROVE  /\ c.count = b.count /\ c.tickets = b.tickets
           /\ DOMAIN c.visits = DOMAIN b.visits \cup {i} /\ c.visits[i] = x
           /\ \A j \in DOMAIN b.visits : j # i => c.visits[j] = b.visits[j]
<1>1. c = [count |-> b.count, tickets |-> b.tickets, visits |-> Insert(b.visits, i, x)]
    BY DEF WithVisit, IsBook
<1> QED
    BY <1>1 DEF Insert

LEMMA NewStatus ==
    ASSUME NEW b, IsBook(b), NEW i \in 1 .. b.count, NEW c, c = WithStatus(b, i)
    PROVE  /\ c.count = b.count /\ c.visits = b.visits
           /\ c.tickets[i].status = "scheduled" /\ c.tickets[i].history = b.tickets[i].history
           /\ \A j \in 1 .. b.count : j # i => c.tickets[j] = b.tickets[j]
<1> DEFINE t == [b.tickets[i] EXCEPT !.status = "scheduled"]
<1>1. t.status = "scheduled" /\ t.history = b.tickets[i].history
    BY BookFields DEF Ticket
<1>2. c = [count |-> b.count, tickets |-> [b.tickets EXCEPT ![i] = t], visits |-> b.visits]
    BY DEF WithStatus, IsBook
<1> HIDE DEF t
<1> QED
    BY <1>1, <1>2 DEF IsBook

LEMMA NewHistory ==
    ASSUME NEW b, IsBook(b), NEW i \in 1 .. b.count, NEW x \in Slots,
           NEW c, c = WithHistory(b, i, x)
    PROVE  /\ c.count = b.count /\ c.visits = b.visits
           /\ c.tickets[i].status = b.tickets[i].status
           /\ c.tickets[i].history # <<>>
           /\ c.tickets[i].history[Len(c.tickets[i].history)] = x
           /\ \A j \in 1 .. b.count : j # i => c.tickets[j] = b.tickets[j]
<1> DEFINE h == b.tickets[i].history
           t == [b.tickets[i] EXCEPT !.history = Append(@, x)]
<1>1. t.status = b.tickets[i].status /\ t.history = Append(h, x)
    BY BookFields DEF Ticket
<1>2. c = [count |-> b.count, tickets |-> [b.tickets EXCEPT ![i] = t], visits |-> b.visits]
    BY DEF WithHistory, IsBook
<1>3. h \in Seq(Slots)
    BY BookFields
<1> HIDE DEF t, h
<1>4. Append(h, x) # <<>> /\ Append(h, x)[Len(Append(h, x))] = x
    BY <1>3
<1> QED
    BY <1>1, <1>2, <1>4 DEF IsBook

-----------------------------------------------------------------------------
(* A scheduled ticket has its visit from before it is called scheduled. *)
VisitFirst(b) == \A i \in 1 .. b.count : b.tickets[i].status = "scheduled" => i \in DOMAIN b.visits

(* Where the change to a ticket that worker w is half way through stands,  *)
(* and what w has read so far, of which the visit comes last.              *)
HalfWay(w) ==
    LET i == job[w].id
        t == memory.tickets[i]
    IN  /\ pc[w] \in Midway => i \in DOMAIN memory.visits /\ memory.visits[i] = job[w].slot
        /\ pc[w] = "visitHistory" => t.status = "scheduled"

SeenFirst(w) ==
    /\ pc[w] = "getVisit" /\ job[w].status = "scheduled" => job[w].id \in DOMAIN memory.visits
    /\ pc[w] = "getDump" /\ job[w].status = "scheduled" => job[w].visit # None
    /\ reply[w].op = "shown" /\ reply[w].status = "scheduled" => reply[w].visit # None

SettledInv ==
    /\ FileConsistent /\ VisitFirst(book) /\ VisitFirst(memory)
    /\ \A i \in Ids : Settled(memory, i) \/ \E w \in Workers : pc[w] \in Midway /\ job[w].id = i
    /\ \A w \in Workers : HalfWay(w) /\ SeenFirst(w)

-----------------------------------------------------------------------------
LEMMA SettledInit == StoreInit => SettledInv
<1> SUFFICES ASSUME StoreInit PROVE SettledInv
    OBVIOUS
<1>1. memory = Empty /\ book = Empty /\ 1 .. Empty.count = {}
    BY EmptyBook DEF StoreInit, LedgerInit
<1>2. FileConsistent /\ VisitFirst(book) /\ VisitFirst(memory) /\ Ids = {}
    BY <1>1 DEF FileConsistent, VisitFirst, Ids
<1>3. ASSUME NEW w \in Workers PROVE HalfWay(w) /\ SeenFirst(w)
    <2>1. pc[w] = "idle" /\ reply[w] = NoReply
        BY DEF StoreInit
    <2> QED
        BY <2>1 DEF HalfWay, SeenFirst, Midway, NoReply
<1> QED
    BY <1>2, <1>3 DEF SettledInv

(* A step of w that leaves memory as it is, and saves it or does not. *)
LEMMA MemoryStands ==
    ASSUME SettledInv, NEW w \in Workers,
           memory' = memory,
           \A v \in Workers \ {w} : pc'[v] = pc[v] /\ job'[v] = job[v] /\ reply'[v] = reply[v],
           pc[w] \notin Midway, pc'[w] \notin Midway, SeenFirst(w)',
           book' = book \/ (book' = memory /\ \A i \in Ids : Settled(memory, i))
    PROVE  SettledInv'
<1>1. FileConsistent' /\ VisitFirst(book)' /\ VisitFirst(memory)'
    BY DEF SettledInv, FileConsistent, VisitFirst, Settled, Ids
<1>2. ASSUME NEW i \in Ids'
      PROVE  Settled(memory', i) \/ \E v \in Workers : pc'[v] \in Midway /\ job'[v].id = i
    <2>1. i \in Ids
        BY DEF Ids
    <2> QED
        BY <2>1 DEF SettledInv
<1>3. ASSUME NEW v \in Workers PROVE HalfWay(v)' /\ SeenFirst(v)'
    <2>1. HalfWay(v) /\ SeenFirst(v)
        BY DEF SettledInv
    <2>2. CASE v = w
        BY <2>2 DEF HalfWay, Midway
    <2>3. CASE v # w
        BY <2>1, <2>3 DEF HalfWay, SeenFirst
    <2> QED
        BY <2>2, <2>3
<1> QED
    BY <1>1, <1>2, <1>3 DEF SettledInv

(* A step of w that changes memory, holding the lock. *)
LEMMA MemoryChanges ==
    ASSUME SettledInv, NEW w \in Workers,
           UNCHANGED <<book, reply>>,
           \A v \in Workers \ {w} : pc'[v] = pc[v] /\ job'[v] = job[v] /\ pc[v] \notin Midway,
           pc'[w] \notin {"getVisit", "getDump"},
           DOMAIN memory.visits \subseteq DOMAIN memory'.visits,
           VisitFirst(memory)', HalfWay(w)',
           \A i \in Ids' : Settled(memory', i) \/ (pc'[w] \in Midway /\ job'[w].id = i)
    PROVE  SettledInv'
<1>1. FileConsistent' /\ VisitFirst(book)'
    BY DEF SettledInv, FileConsistent, VisitFirst, Settled
<1>2. ASSUME NEW v \in Workers PROVE HalfWay(v)' /\ SeenFirst(v)'
    <2>1. SeenFirst(v)
        BY DEF SettledInv
    <2>2. CASE v = w
        BY <2>1, <2>2 DEF SeenFirst
    <2>3. CASE v # w
        BY <2>1, <2>3 DEF HalfWay, SeenFirst, Midway
    <2> QED
        BY <2>2, <2>3
<1> QED
    BY <1>1, <1>2 DEF SettledInv

(* The steps of a worker that leave memory as it is. *)
LEMMA SettledStands ==
    ASSUME StoreInv, SettledInv, NEW w \in Workers,
           \/ Arrives(w) \/ LookForVisit(w) \/ ReadVisit(w) \/ SaveFails(w)
           \/ SaveTicket(w) \/ SaveVisit(w)
           \/ AnswerOpen(w) \/ AnswerVisit(w) \/ AnswerGet(w)
    PROVE  SettledInv'
<1> USE DEF Goto
<1>1. /\ pc \in [Workers -> WorkerPC] /\ job \in [Workers -> Job] /\ reply \in [Workers -> Reply]
      /\ job[w] \in Job /\ SeenFirst(w) /\ JobOK(w) /\ IsBook(memory)
      /\ \A v \in Workers : lock = v <=> pc[v] \in Locked
    BY DEF StoreInv, StoreTypeOK, LockFollowsWork, SettledInv
<1>2. CASE Arrives(w)
    <2>1. ASSUME NEW a \in Accounts, OpenTicket(w, a) PROVE SettledInv'
        <3>1. SeenFirst(w)'
            BY <1>1, <2>1 DEF OpenTicket, Begin, SeenFirst, NoReply
        <3> QED
            BY <1>1, <2>1, <3>1, MemoryStands DEF OpenTicket, Begin, Midway
    <2>2. ASSUME NEW i \in Ids, NEW x \in Slots, ScheduleVisit(w, i, x) PROVE SettledInv'
        <3>1. SeenFirst(w)'
            BY <1>1, <2>2 DEF ScheduleVisit, Begin, SeenFirst, NoReply
        <3> QED
            BY <1>1, <2>2, <3>1, MemoryStands DEF ScheduleVisit, Begin, Midway
    <2>3. ASSUME NEW i \in Ids, GetTicket(w, i) PROVE SettledInv'
        <3>1. memory.tickets[i].status = "scheduled" => i \in DOMAIN memory.visits
            BY DEF SettledInv, VisitFirst, Ids
        <3>2. SeenFirst(w)'
            BY <1>1, <2>3, <3>1 DEF GetTicket, Begin, SeenFirst, Asked, NoReply
        <3> QED
            BY <1>1, <2>3, <3>2, MemoryStands DEF GetTicket, Begin, Midway
    <2> QED
        BY <1>2, <2>1, <2>2, <2>3 DEF Arrives
<1>3. CASE LookForVisit(w)
    <2>1. SeenFirst(w)'
        BY <1>1, <1>3 DEF LookForVisit, SeenFirst
    <2> QED
        BY <1>1, <1>3, <2>1, MemoryStands DEF LookForVisit, Midway
<1>4. CASE ReadVisit(w)
    <2>1. job[w].id \in DOMAIN memory.visits => memory.visits[job[w].id] # None
        BY <1>1, StoreAssumption DEF IsBook
    <2>2. /\ job'[w].status = job[w].status
          /\ job[w].id \in DOMAIN memory.visits => job'[w].visit # None
        BY <1>1, <1>4, <2>1 DEF ReadVisit, Job
    <2>3. pc[w] = "getVisit" /\ pc'[w] = "getDump" /\ reply' = reply
        BY <1>1, <1>4 DEF ReadVisit
    <2>4. SeenFirst(w)'
        BY <1>1, <2>2, <2>3 DEF SeenFirst
    <2> QED
        BY <1>1, <1>4, <2>4, MemoryStands DEF ReadVisit, Midway
<1>5. CASE SaveFails(w)
    <2>1. SeenFirst(w)'
        BY <1>1, <1>5 DEF SaveFails, SeenFirst, Failed
    <2> QED
        BY <1>1, <1>5, <2>1, MemoryStands DEF SaveFails, Midway
<1>6. CASE SaveTicket(w) \/ SaveVisit(w)
    <2>1. pc[w] \in {"openSave", "visitSave"} /\ pc'[w] \in {"openReply", "visitReply"}
        BY <1>1, <1>6 DEF SaveTicket, SaveVisit, Save
    <2>2. SeenFirst(w)'
        BY <1>1, <1>6, <2>1 DEF SaveTicket, SaveVisit, Save, SeenFirst
    <2>3. \A v \in Workers : pc[v] \notin Midway
        BY <1>1, <2>1 DEF Locked, Midway
    <2>4. \A i \in Ids : Settled(memory, i)
        BY <2>3 DEF SettledInv
    <2> QED
        BY <1>1, <1>6, <2>1, <2>2, <2>3, <2>4, MemoryStands DEF SaveTicket, SaveVisit, Save, Midway
<1>7. CASE AnswerOpen(w)
    <2>1. SeenFirst(w)'
        BY <1>1, <1>7 DEF AnswerOpen, Answer, SeenFirst
    <2> QED
        BY <1>1, <1>7, <2>1, MemoryStands DEF AnswerOpen, Answer, Midway
<1>8. CASE AnswerVisit(w)
    <2>1. SeenFirst(w)'
        BY <1>1, <1>8 DEF AnswerVisit, Answer, SeenFirst
    <2> QED
        BY <1>1, <1>8, <2>1, MemoryStands DEF AnswerVisit, Answer, Midway
<1>9. CASE AnswerGet(w)
    <2>1. SeenFirst(w)'
        BY <1>1, <1>9 DEF AnswerGet, Answer, SeenFirst
    <2> QED
        BY <1>1, <1>9, <2>1, MemoryStands DEF AnswerGet, Answer, Midway
<1> QED
    BY <1>2, <1>3, <1>4, <1>5, <1>6, <1>7, <1>8, <1>9

(* The steps that change memory: only the holder of the lock is half way. *)
LEMMA SettledChanges ==
    ASSUME StoreInv, SettledInv, NEW w \in Workers,
           CreateTicket(w) \/ PutVisit(w) \/ PutStatus(w) \/ PutHistory(w)
    PROVE  SettledInv'
<1> USE DEF Goto
<1>1. /\ pc \in [Workers -> WorkerPC] /\ job \in [Workers -> Job]
      /\ job[w] \in Job /\ HalfWay(w) /\ JobOK(w) /\ IsBook(memory) /\ VisitFirst(memory)
      /\ Nobody \notin Workers /\ \A v \in Workers : lock = v <=> pc[v] \in Locked
    BY StoreAssumption DEF StoreInv, StoreTypeOK, LockFollowsWork, SettledInv
<1>2. lock = Nobody \/ pc[w] \in Locked
    BY DEF CreateTicket, PutVisit, PutStatus, PutHistory, Locked
<1>3. \A v \in Workers \ {w} : pc[v] \notin Midway
    BY <1>1, <1>2 DEF Locked, Midway
<1>4. \A i \in Ids : Settled(memory, i) \/ (pc[w] \in Midway /\ job[w].id = i)
    BY <1>3 DEF SettledInv
<1>5. /\ UNCHANGED <<book, reply>>
      /\ \A v \in Workers \ {w} : pc'[v] = pc[v] /\ job'[v] = job[v] /\ pc[v] \notin Midway
    BY <1>1, <1>3 DEF CreateTicket, PutVisit, PutStatus, PutHistory
<1> DEFINE i == job[w].id
           x == job[w].slot
<1>6. pc[w] \in InVisit => i \in Ids /\ x \in Slots
    BY <1>1 DEF JobOK
<1> HIDE DEF i, x
<1>7. CASE CreateTicket(w)
    <2>1. pc[w] = "openLock" /\ pc'[w] = "openSave" /\ job[w].account \in Accounts
        BY <1>1, <1>7 DEF CreateTicket, JobOK
    <2>2. memory' = WithTicket(memory, job[w].account)
        BY <1>7 DEF CreateTicket
    <2>3. /\ memory'.count = memory.count + 1 /\ memory'.visits = memory.visits
          /\ memory'.tickets[memory.count + 1].status = "open"
          /\ memory'.tickets[memory.count + 1].history = <<>>
          /\ \A j \in 1 .. memory.count : memory'.tickets[j] = memory.tickets[j]
        BY <1>1, <2>1, <2>2, NewTicket
    <2>4. memory.count \in Nat /\ memory.count + 1 \notin DOMAIN memory.visits
        BY <1>1 DEF IsBook
    <2>5. \A j \in 1 .. memory'.count : j \in 1 .. memory.count \/ j = memory.count + 1
        BY <2>3, <2>4
    <2>6. \A j \in 1 .. memory.count : Settled(memory, j)
        BY <1>4, <2>1 DEF Midway, Ids
    <2>7. \A j \in 1 .. memory'.count : Settled(memory', j)
        BY <2>3, <2>4, <2>5, <2>6 DEF Settled
    <2>8. VisitFirst(memory)'
        BY <2>7 DEF VisitFirst, Settled
    <2>9. HalfWay(w)'
        BY <2>1 DEF HalfWay, Midway
    <2> QED
        BY <1>5, <2>1, <2>3, <2>7, <2>8, <2>9, MemoryChanges DEF Ids
<1>8. CASE PutVisit(w)
    <2>1. pc[w] = "visitLock" /\ pc'[w] = "visitStatus" /\ job' = job /\ i \in Ids /\ x \in Slots
        BY <1>1, <1>6, <1>8 DEF PutVisit, InVisit
    <2>2. memory' = WithVisit(memory, i, x)
        BY <1>8 DEF PutVisit, i, x
    <2>3. /\ memory'.count = memory.count /\ memory'.tickets = memory.tickets
          /\ DOMAIN memory'.visits = DOMAIN memory.visits \cup {i} /\ memory'.visits[i] = x
          /\ \A j \in DOMAIN memory.visits : j # i => memory'.visits[j] = memory.visits[j]
        BY <1>1, <2>1, <2>2, NewVisit DEF Ids
    <2>4. \A j \in Ids' : j \in Ids /\ (Settled(memory', j) \/ j = i)
        BY <1>4, <2>1, <2>3 DEF Ids, Settled, Midway
    <2>5. VisitFirst(memory)'
        BY <1>1, <2>3 DEF VisitFirst
    <2>6. HalfWay(w)'
        BY <2>1, <2>3 DEF HalfWay, Midway, i, x
    <2>7. pc'[w] \in Midway /\ job'[w].id = i
        BY <2>1 DEF Midway, i
    <2> QED
        BY <1>5, <2>1, <2>3, <2>4, <2>5, <2>6, <2>7, MemoryChanges
<1>9. CASE PutStatus(w)
    <2>1. pc[w] = "visitStatus" /\ pc'[w] = "visitHistory" /\ job' = job /\ i \in Ids
        BY <1>1, <1>6, <1>9 DEF PutStatus, InVisit, Midway
    <2>2. memory' = WithStatus(memory, i)
        BY <1>9 DEF PutStatus, i
    <2>3. /\ memory'.count = memory.count /\ memory'.visits = memory.visits
          /\ memory'.tickets[i].status = "scheduled"
          /\ \A j \in 1 .. memory.count : j # i => memory'.tickets[j] = memory.tickets[j]
        BY <1>1, <2>1, <2>2, NewStatus DEF Ids
    <2>4. i \in DOMAIN memory.visits /\ memory.visits[i] = x
        BY <1>1, <2>1 DEF HalfWay, Midway, i, x
    <2>5. \A j \in Ids' : Settled(memory', j) \/ j = i
        BY <1>4, <2>3 DEF Ids, Settled, i
    <2>6. VisitFirst(memory)'
        BY <1>1, <2>3, <2>4 DEF VisitFirst
    <2>7. HalfWay(w)'
        BY <2>1, <2>3, <2>4 DEF HalfWay, Midway, i, x
    <2>8. pc'[w] \in Midway /\ job'[w].id = i
        BY <2>1 DEF Midway, i
    <2> QED
        BY <1>5, <2>1, <2>3, <2>5, <2>6, <2>7, <2>8, MemoryChanges
<1>10. CASE PutHistory(w)
    <2>1. pc[w] = "visitHistory" /\ pc'[w] = "visitSave" /\ job' = job /\ i \in Ids /\ x \in Slots
        BY <1>1, <1>6, <1>10 DEF PutHistory, InVisit, Midway
    <2>2. memory' = WithHistory(memory, i, x)
        BY <1>10 DEF PutHistory, i, x
    <2>3. /\ memory'.count = memory.count /\ memory'.visits = memory.visits
          /\ memory'.tickets[i].status = memory.tickets[i].status
          /\ memory'.tickets[i].history # <<>>
          /\ memory'.tickets[i].history[Len(memory'.tickets[i].history)] = x
          /\ \A j \in 1 .. memory.count : j # i => memory'.tickets[j] = memory.tickets[j]
        BY <1>1, <2>1, <2>2, NewHistory DEF Ids
    <2>4. /\ i \in DOMAIN memory.visits /\ memory.visits[i] = x
          /\ memory.tickets[i].status = "scheduled"
        BY <1>1, <2>1 DEF HalfWay, Midway, i, x
    <2>5. Settled(memory', i)
        BY <2>3, <2>4 DEF Settled
    <2>6. \A j \in Ids' : Settled(memory', j)
        BY <1>4, <2>3, <2>5 DEF Ids, Settled, i
    <2>7. VisitFirst(memory)'
        BY <2>6 DEF VisitFirst, Settled, Ids
    <2>8. HalfWay(w)'
        BY <2>1 DEF HalfWay, Midway
    <2> QED
        BY <1>5, <2>1, <2>3, <2>6, <2>7, <2>8, MemoryChanges
<1> QED
    BY <1>7, <1>8, <1>9, <1>10

(* A killed process forgets; a restarted one takes up the file. *)
LEMMA SettledRestart ==
    ASSUME StoreInv, SettledInv, Crash \/ Restart PROVE SettledInv'
<1>1. book' = book /\ reply' = reply /\ \A w \in Workers : pc'[w] = "idle"
    BY DEF Crash, Restart, StoreInv, JobOK
<1>2. memory' = Empty \/ memory' = book
    BY DEF Crash, Restart
<1>3. 1 .. Empty.count = {}
    BY EmptyBook
<1>4. FileConsistent' /\ VisitFirst(book)'
    BY <1>1 DEF SettledInv, FileConsistent, VisitFirst, Settled
<1>5. VisitFirst(memory)' /\ \A i \in Ids' : Settled(memory', i)
    BY <1>2, <1>3 DEF SettledInv, FileConsistent, VisitFirst, Ids
<1>6. ASSUME NEW w \in Workers PROVE HalfWay(w)' /\ SeenFirst(w)'
    BY <1>1 DEF SettledInv, HalfWay, SeenFirst, Midway
<1> QED
    BY <1>4, <1>5, <1>6 DEF SettledInv

LEMMA SettledStep == StoreInv /\ SettledInv /\ [StoreNext]_storeVars => SettledInv'
<1> SUFFICES ASSUME StoreInv, SettledInv, [StoreNext]_storeVars PROVE SettledInv'
    OBVIOUS
<1>1. CASE UNCHANGED storeVars
    <2>1. /\ memory' = memory /\ book' = book /\ pc' = pc /\ job' = job /\ reply' = reply
        BY <1>1 DEF storeVars
    <2> QED
        BY <2>1 DEF SettledInv, FileConsistent, VisitFirst, Settled, Ids, HalfWay, SeenFirst
<1>2. ASSUME NEW w \in Workers, Arrives(w) \/ Serves(w) PROVE SettledInv'
    BY <1>2, SettledStands, SettledChanges DEF Serves
<1> QED
    BY <1>1, <1>2, SettledRestart DEF StoreNext

(* The file is never saved half way through an operation, and no reader is *)
(* shown a scheduled ticket without its visit, though readers take no lock *)
(* and every save writes what all the threads have in memory.              *)
THEOREM StoreSettled == StoreSpec => [](FileConsistent /\ ShownWithVisit)
<1>1. StoreInit => StoreInv /\ SettledInv
    BY StoreInvInit, SettledInit
<1>2. (StoreInv /\ SettledInv) /\ [StoreNext]_storeVars => (StoreInv /\ SettledInv)'
    BY StoreInvStep, SettledStep
<1>3. SettledInv => FileConsistent /\ ShownWithVisit
    BY DEF SettledInv, SeenFirst, ShownWithVisit
<1> QED
    BY <1>1, <1>2, <1>3, PTL DEF StoreSpec
=============================================================================
