---------------------------- MODULE SharedDataDir ----------------------------
(***************************************************************************)
(* Two netops processes on one data directory: the host's own stdio server *)
(* and Claude Desktop's (SPEC.md 7.6), which both use servers/netops/data  *)
(* unless NETOPS_DATA_DIR says otherwise.  Each is a NetopsStore of its    *)
(* own; they share state.json (`book') and nothing else, and each is told  *)
(* its tickets by different clients (`acked' is all that anyone was told). *)
(***************************************************************************)
EXTENDS TicketLedger

CONSTANTS HostWorkers, DesktopWorkers, Nobody, None, MaxTickets, MaxVisits

VARIABLES hMemory, hUp, hLock, hPc, hJob, hReply,
          dMemory, dUp, dLock, dPc, dJob, dReply

Host == INSTANCE NetopsStore WITH
    Workers <- HostWorkers, memory <- hMemory, up <- hUp, lock <- hLock,
    pc <- hPc, job <- hJob, reply <- hReply

Desktop == INSTANCE NetopsStore WITH
    Workers <- DesktopWorkers, memory <- dMemory, up <- dUp, lock <- dLock,
    pc <- dPc, job <- dJob, reply <- dReply

hVars == <<hMemory, hUp, hLock, hPc, hJob, hReply>>
dVars == <<dMemory, dUp, dLock, dPc, dJob, dReply>>

SharedInit == Host!StoreInit /\ Desktop!StoreInit

SharedNext == \/ Host!StoreNext /\ UNCHANGED dVars
              \/ Desktop!StoreNext /\ UNCHANGED hVars

SharedSpec == SharedInit /\ [][SharedNext]_<<book, acked, hVars, dVars>>

(* SPEC.md 4.5: "The ticket is written to disk before the response is      *)
(* sent, so a subsequent get_ticket - in this session or a later one -     *)
(* sees it".                                                               *)
AckedOnDisk == \A fact \in acked : Recorded(book, fact)
=============================================================================
