----------------------------- MODULE TicketLedger -----------------------------
(***************************************************************************)
(* What netops promises of its tickets and visits, whatever threads,       *)
(* failures and restarts lie underneath (servers/netops/SPEC.md 4.5-4.7):  *)
(* the book on disk only grows, and a client is told of a ticket or of a   *)
(* visit only once the book has it.                                        *)
(*                                                                         *)
(* A book numbers its tickets 1, 2, ... ("TCK-00001", ...).  A ticket has  *)
(* an account, a status and the visits ever scheduled for it, in order     *)
(* (its history, after the entry that opened it); `visits' gives the       *)
(* current visit of each ticket that has one.                              *)
(***************************************************************************)
EXTENDS Naturals, Sequences

CONSTANTS Accounts,    \* accounts of the seed
          Slots        \* dates, not past, with an arrival window

VARIABLES book, acked

Status == {"open", "scheduled"}
Ticket == [account : Accounts, status : Status, history : Seq(Slots)]

(* EMPTY_STATE *)
Empty == [count |-> 0, tickets |-> [i \in {} |-> 0], visits |-> [i \in {} |-> 0]]

IsBook(b) ==
    /\ b = [count |-> b.count, tickets |-> b.tickets, visits |-> b.visits]
    /\ b.count \in Nat
    /\ b.tickets \in [1 .. b.count -> Ticket]
    /\ DOMAIN b.visits \subseteq 1 .. b.count
    /\ b.visits \in [DOMAIN b.visits -> Slots]

(* A fact a client may be told: this ticket is this account's, or this     *)
(* visit was scheduled for it.                                             *)
Fact == [kind : {"opened", "scheduled"}, id : Nat, of : Accounts \cup Slots]
Opened(i, a) == [kind |-> "opened", id |-> i, of |-> a]
Scheduled(i, s) == [kind |-> "scheduled", id |-> i, of |-> s]

Recorded(b, fact) ==
    /\ fact.id \in 1 .. b.count
    /\ LET ticket == b.tickets[fact.id]
       IN  \/ fact.kind = "opened" /\ ticket.account = fact.of
           \/ /\ fact.kind = "scheduled"
              /\ \E n \in 1 .. Len(ticket.history) : ticket.history[n] = fact.of

(* Nothing that b records is lost or rewritten in c. *)
Extends(s, t) == Len(s) <= Len(t) /\ \A n \in 1 .. Len(s) : t[n] = s[n]

Grows(b, c) ==
    /\ b.count <= c.count
    /\ \A i \in 1 .. b.count :
        /\ c.tickets[i].account = b.tickets[i].account
        /\ Extends(b.tickets[i].history, c.tickets[i].history)
    /\ DOMAIN b.visits \subseteq DOMAIN c.visits

-----------------------------------------------------------------------------
LedgerInit == book = Empty /\ acked = {}

(* Any number of changes become durable at once: a change whose own write  *)
(* failed is written with the next one.                                    *)
Commit == IsBook(book') /\ Grows(book, book') /\ UNCHANGED acked

Acknowledge ==
    /\ UNCHANGED book
    /\ \E i \in 1 .. book.count, x \in Accounts \cup Slots :
        \E fact \in {Opened(i, x), Scheduled(i, x)} :
            Recorded(book, fact) /\ acked' = acked \cup {fact}

LedgerNext == Commit \/ Acknowledge

LedgerSpec == LedgerInit /\ [][LedgerNext]_<<book, acked>>
=============================================================================
