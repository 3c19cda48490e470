----------------------------- MODULE NetopsStore -----------------------------
(***************************************************************************)
(* The tickets of servers/netops: NetopsStore (store.py) and the handlers  *)
(* of core.py that read and change it, on the threads of one server        *)
(* process, which may be killed at any point and started again.            *)
(*                                                                         *)
(* Changes are made in memory and then saved whole, under _lock; readers   *)
(* take no lock.  A handler's reads of shared state, its writes to it and  *)
(* the replacement of state.json are separate steps.  A request that is    *)
(* refused (unknown account or ticket, unreal or past date, bad arguments) *)
(* changes nothing and is left out.                                        *)
(***************************************************************************)
EXTENDS TicketLedger, FiniteSets

CONSTANTS Workers,     \* threads serving requests
          Nobody,
          None,        \* no account, no slot, no visit
          MaxTickets,  \* bound: tickets in memory
          MaxVisits    \* bound: visits scheduled, in memory

ASSUME StoreAssumption == /\ Nobody \notin Workers
                          /\ None \notin Accounts \cup Slots
                          /\ MaxTickets \in Nat
                          /\ MaxVisits \in Nat

VARIABLES
    memory,       \* NetopsStore.state
    up,           \* the process runs
    lock,         \* NetopsStore._lock
    pc,           \* per worker: where it is in its request
    job,          \* per worker: what it was asked and what it has read
    reply         \* per worker: what its last request was answered

storeVars == <<memory, book, up, lock, pc, job, reply, acked>>

Ids == 1 .. memory.count

Locked == {"openSave", "visitStatus", "visitHistory", "visitSave"}
WorkerPC == {"idle", "openLock", "openReply", "visitLook", "visitLock", "visitReply",
             "getVisit", "getDump"} \cup Locked

NoReply == [op |-> "none"]
Failed == [op |-> "failed"]
Reply == {NoReply, Failed}
         \cup [op : {"opened"}, id : Nat, status : Status]
         \cup [op : {"scheduled"}, id : Nat, slot : Slots, rescheduled : BOOLEAN]
         \cup [op : {"shown"}, id : Nat, account : Accounts, status : Status,
               visit : Slots \cup {None}, history : Seq(Slots)]

(* What a worker was asked and has read; Blank between requests. *)
Job == [id : Nat, account : Accounts \cup {None}, slot : Slots \cup {None},
        already : BOOLEAN, status : Status, visit : Slots \cup {None}]
Asked(i, a, s, status) == [id |-> i, account |-> a, slot |-> s, already |-> FALSE,
                          status |-> status, visit |-> None]
Blank == Asked(0, None, None, "open")

StoreTypeOK ==
    /\ IsBook(memory) /\ IsBook(book)
    /\ up \in BOOLEAN
    /\ lock \in Workers \cup {Nobody}
    /\ pc \in [Workers -> WorkerPC]
    /\ job \in [Workers -> Job]
    /\ reply \in [Workers -> Reply]
    /\ acked \subseteq Fact

StoreInit ==
    /\ LedgerInit
    /\ memory = Empty
    /\ up = TRUE
    /\ lock = Nobody
    /\ pc = [w \in Workers |-> "idle"]
    /\ job = [w \in Workers |-> Blank]
    /\ reply = [w \in Workers |-> NoReply]

-----------------------------------------------------------------------------
Goto(w, from, to) == pc[w] = from /\ pc' = [pc EXCEPT ![w] = to]

(* A request arrives for an idle thread of the running process. *)
Begin(w, to, asked) ==
    /\ up /\ Goto(w, "idle", to)
    /\ job' = [job EXCEPT ![w] = asked]
    /\ reply' = [reply EXCEPT ![w] = NoReply]
    /\ UNCHANGED <<memory, book, up, lock, acked>>

Answer(w, from, answer) ==
    /\ Goto(w, from, "idle")
    /\ job' = [job EXCEPT ![w] = Blank]
    /\ reply' = [reply EXCEPT ![w] = answer]
    /\ UNCHANGED <<memory, book, up, lock>>

(* What the methods of the store do to its state. *)
Insert(f, i, value) == [j \in DOMAIN f \cup {i} |-> IF j = i THEN value ELSE f[j]]

WithTicket(b, a) ==
    [count |-> b.count + 1,
     tickets |-> Insert(b.tickets, b.count + 1,
                        [account |-> a, status |-> "open", history |-> <<>>]),
     visits |-> b.visits]
WithVisit(b, i, s) == [b EXCEPT !.visits = Insert(@, i, s)]
WithStatus(b, i) == [b EXCEPT !.tickets[i].status = "scheduled"]
WithHistory(b, i, s) == [b EXCEPT !.tickets[i].history = Append(@, s)]

Mut_Save(w, from, to) ==
    /\ Goto(w, from, to)
    /\ lock' = Nobody
    /\ UNCHANGED <<memory, book, up, job, reply, acked>>

(* _save_state: a temporary file, flushed and then moved over state.json,  *)
(* so the whole state replaces the old one or nothing does.                *)
Save(w, from, to) ==
    /\ Goto(w, from, to)
    /\ book' = memory
    /\ lock' = Nobody
    /\ UNCHANGED <<memory, up, job, reply, acked>>

(* It raises: the lock is released, the client gets -32603, and the change *)
(* stays in memory.                                                        *)
SaveFails(w) ==
    /\ \E from \in {"openSave", "visitSave"} : Goto(w, from, "idle")
    /\ lock' = Nobody
    /\ job' = [job EXCEPT ![w] = Blank]
    /\ reply' = [reply EXCEPT ![w] = Failed]
    /\ UNCHANGED <<memory, book, up, acked>>

-----------------------------------------------------------------------------
(* open_ticket *)

OpenTicket(w, a) ==
    /\ memory.count + Cardinality({v \in Workers : pc[v] = "openLock"}) < MaxTickets
    /\ Begin(w, "openLock", Asked(0, a, None, "open"))

Mut_CreateTicket(w) ==
    /\ Goto(w, "openLock", "openSave")
    /\ lock' = w
    /\ memory' = WithTicket(memory, job[w].account)
    /\ job' = [job EXCEPT ![w].id = memory.count + 1]
    /\ UNCHANGED <<book, up, reply, acked>>

CreateTicket(w) ==
    /\ lock = Nobody
    /\ Goto(w, "openLock", "openSave")
    /\ lock' = w
    /\ memory' = WithTicket(memory, job[w].account)
    /\ job' = [job EXCEPT ![w].id = memory.count + 1]
    /\ UNCHANGED <<book, up, reply, acked>>

SaveTicket(w) == Save(w, "openSave", "openReply")

(* handle_open_ticket reads the status off the shared ticket, lock released. *)
AnswerOpen(w) ==
    LET i == job[w].id
    IN  /\ Answer(w, "openReply",
               [op |-> "opened", id |-> i, status |-> memory.tickets[i].status])
        /\ acked' = acked \cup {Opened(i, job[w].account)}

-----------------------------------------------------------------------------
(* schedule_visit *)

ScheduleVisit(w, i, s) ==
    /\ Cardinality({e \in Ids \X (1 .. MaxVisits) : e[2] <= Len(memory.tickets[e[1]].history)})
         + Cardinality({v \in Workers : pc[v] \in {"visitLook", "visitLock", "visitStatus",
                                                   "visitHistory"}}) < MaxVisits
    /\ Begin(w, "visitLook", Asked(i, None, s, "open"))

(* `already', read before the lock is taken. *)
LookForVisit(w) ==
    /\ Goto(w, "visitLook", "visitLock")
    /\ job' = [job EXCEPT ![w].already = job[w].id \in DOMAIN memory.visits]
    /\ UNCHANGED <<memory, book, up, lock, reply, acked>>

PutVisit(w) ==
    /\ lock = Nobody
    /\ Goto(w, "visitLock", "visitStatus")
    /\ lock' = w
    /\ memory' = WithVisit(memory, job[w].id, job[w].slot)
    /\ UNCHANGED <<book, up, job, reply, acked>>

PutStatus(w) ==
    /\ Goto(w, "visitStatus", "visitHistory")
    /\ memory' = WithStatus(memory, job[w].id)
    /\ UNCHANGED <<book, up, lock, job, reply, acked>>

PutHistory(w) ==
    /\ Goto(w, "visitHistory", "visitSave")
    /\ memory' = WithHistory(memory, job[w].id, job[w].slot)
    /\ UNCHANGED <<book, up, lock, job, reply, acked>>

SaveVisit(w) == Save(w, "visitSave", "visitReply")

AnswerVisit(w) ==
    /\ Answer(w, "visitReply", [op |-> "scheduled", id |-> job[w].id,
                                slot |-> job[w].slot, rescheduled |-> job[w].already])
    /\ acked' = acked \cup {Scheduled(job[w].id, job[w].slot)}

-----------------------------------------------------------------------------
(* get_ticket: dict(ticket), then the visit, then the reply is serialised, *)
(* and only then is the history, still the shared list, read.              *)

GetTicket(w, i) ==
    Begin(w, "getVisit", Asked(i, None, None, memory.tickets[i].status))

ReadVisit(w) ==
    /\ Goto(w, "getVisit", "getDump")
    /\ job' = [job EXCEPT ![w].visit = IF job[w].id \in DOMAIN memory.visits
                                       THEN memory.visits[job[w].id] ELSE None]
    /\ UNCHANGED <<memory, book, up, lock, reply, acked>>

Mut_AnswerGet(w) ==
    LET i == job[w].id
    IN  /\ Answer(w, "getDump",
               [op |-> "shown", id |-> i, account |-> memory.tickets[i].account,
                status |-> memory.tickets[i].status, visit |-> job[w].visit,
                history |-> memory.tickets[i].history])
        /\ UNCHANGED acked

AnswerGet(w) ==
    LET i == job[w].id
    IN  /\ Answer(w, "getDump",
               [op |-> "shown", id |-> i, account |-> memory.tickets[i].account,
                status |-> job[w].status, visit |-> job[w].visit,
                history |-> memory.tickets[i].history])
        /\ UNCHANGED acked

-----------------------------------------------------------------------------
(* The process is killed, and its threads with it; what clients were told  *)
(* before stands.                                                          *)
Crash ==
    /\ up /\ up' = FALSE
    /\ memory' = Empty
    /\ lock' = Nobody
    /\ pc' = [w \in Workers |-> "idle"]
    /\ job' = [w \in Workers |-> Blank]
    /\ UNCHANGED <<book, reply, acked>>

Mut_Restart ==
    /\ ~up /\ up' = TRUE
    /\ UNCHANGED <<memory, book, lock, pc, job, reply, acked>>

(* NetopsStore(): _load_state. *)
Restart ==
    /\ ~up /\ up' = TRUE
    /\ memory' = book
    /\ UNCHANGED <<book, lock, pc, job, reply, acked>>

-----------------------------------------------------------------------------
Arrives(w) ==
    \/ \E a \in Accounts : OpenTicket(w, a)
    \/ \E i \in Ids : GetTicket(w, i) \/ \E s \in Slots : ScheduleVisit(w, i, s)

Serves(w) ==
    \/ CreateTicket(w) \/ SaveTicket(w) \/ AnswerOpen(w)
    \/ LookForVisit(w) \/ PutVisit(w) \/ PutStatus(w) \/ PutHistory(w)
    \/ SaveVisit(w) \/ AnswerVisit(w)
    \/ ReadVisit(w) \/ AnswerGet(w)
    \/ SaveFails(w)

StoreNext == (\E w \in Workers : Arrives(w) \/ Serves(w)) \/ Crash \/ Restart

StoreSpec == StoreInit /\ [][StoreNext]_storeVars

-----------------------------------------------------------------------------
(* Ticket i is in no operation's middle: it is "scheduled" exactly when it *)
(* has a visit, the last its history tells of.                             *)
Settled(b, i) ==
    LET t == b.tickets[i]
    IN  /\ t.status = "scheduled" <=> i \in DOMAIN b.visits
        /\ t.status = "scheduled" <=> t.history # <<>>
        /\ i \in DOMAIN b.visits => b.visits[i] = t.history[Len(t.history)]

(* state.json never holds an operation half done, though each one changes  *)
(* memory in several steps and any thread's save writes all of memory.     *)
FileConsistent == \A i \in 1 .. book.count : Settled(book, i)

(* SPEC.md 4.5: "so a subsequent get_ticket - in this session or a later   *)
(* one - sees it".  Every ticket and visit a client was told of is in the  *)
(* running process's memory, and it is that client's: no id is given out   *)
(* twice, before or after a restart.                                       *)
AckedIsServed == up => \A fact \in acked : Recorded(memory, fact)

(* SPEC.md 4.6: "and visit when one has been scheduled": get_ticket takes  *)
(* no lock, yet never shows a scheduled ticket without its visit.          *)
ShownWithVisit ==
    \A w \in Workers :
        reply[w].op = "shown" /\ reply[w].status = "scheduled" => reply[w].visit # None

(* The lock is held by the thread that is inside a change and by no other: *)
(* it is let go of however the change ends - saved, failed or killed - so   *)
(* no request waits for a thread that has left.                            *)
LockFollowsWork == \A w \in Workers : lock = w <=> pc[w] \in Locked

-----------------------------------------------------------------------------
(* SPEC.md 4.7: "Scheduling against a ticket that already has a visit      *)
(* reschedules it, and the response carries "rescheduled": true": at most  *)
(* one client is told that its visit was a ticket's first.                 *)
RescheduledIsTold ==
    \A v, w \in Workers :
        /\ reply[v].op = "scheduled" /\ ~reply[v].rescheduled
        /\ reply[w].op = "scheduled" /\ ~reply[w].rescheduled
        /\ reply[v].id = reply[w].id
        => v = w
=============================================================================
