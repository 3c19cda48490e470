---------------------------- MODULE StdioTransport ----------------------------
(***************************************************************************)
(* host/mcp/stdio_transport.py: a local server reached through its pipes.  *)
(*                                                                         *)
(* Threads send() and close(); the "<name>-stdout" thread (the pump) moves *)
(* lines from the child's stdout onto the inbox and ends it with _EOF;     *)
(* receive() takes from the inbox and puts _EOF back.  The child process   *)
(* is external and may do anything: answer late, twice or never, stop      *)
(* reading, close its stdout, exit.                                        *)
(*                                                                         *)
(* The child's stdout pipe and the inbox are one queue here: the pump only *)
(* moves lines from one to the other, in order.                            *)
(***************************************************************************)
EXTENDS Naturals, Sequences

CONSTANTS Users,        \* threads that call send() and close()
          Message,      \* what may travel either way
          EOF,          \* the _EOF sentinel
          NoThread,
          PipeSize,     \* messages the child's stdin pipe holds
          MaxOutput     \* bound: lines the child may write

(* What whoever instantiates this module assumes of them. *)
StdioAssumption == /\ EOF \notin Message
                   /\ NoThread \notin Users
                   /\ PipeSize \in Nat \ {0}
                   /\ MaxOutput \in Nat

VARIABLES
    tpc,          \* per thread: where it is in send() or close()
    sendLock,     \* _send_lock
    stdinOpen,    \* our end of the child's stdin is open
    stdin,        \* lines written and not yet read by the child
    child,        \* "none", "alive", "dead"
    stdoutOpen,   \* the child's end of its stdout is open
    written,      \* lines the child has written
    pumping,      \* the pump thread is running
    inbox,        \* _inbox
    tclosed       \* _closed

process == <<stdinOpen, stdin, child, stdoutOpen, written>>
stdioVars == <<tpc, sendLock, process, pumping, inbox, tclosed>>

SendPC == {"poll", "lock", "write", "blocked"}
ClosePC == {"tcheck", "tset", "stdin", "await", "eof"}
Verdict == {"sent", "TransportError", "ValueError", "shutdown"}

StdioTypeOK ==
    /\ tpc \in [Users -> {"idle"} \cup SendPC \cup ClosePC \cup Verdict]
    /\ sendLock \in Users \cup {NoThread}
    /\ stdinOpen \in BOOLEAN
    /\ stdin \in Seq(Message)
    /\ child \in {"none", "alive", "dead"}
    /\ stdoutOpen \in BOOLEAN
    /\ written \in Nat
    /\ pumping \in BOOLEAN
    /\ inbox \in Seq(Message \cup {EOF})
    /\ tclosed \in BOOLEAN

StdioInit ==
    /\ tpc = [t \in Users |-> "idle"]
    /\ sendLock = NoThread
    /\ stdinOpen = FALSE
    /\ stdin = <<>>
    /\ child = "none"
    /\ stdoutOpen = FALSE
    /\ written = 0
    /\ pumping = FALSE
    /\ inbox = <<>>
    /\ tclosed = FALSE

-----------------------------------------------------------------------------
TGoto(t, from, to) == tpc[t] = from /\ tpc' = [tpc EXCEPT ![t] = to]

(* start(): the child runs and the pump reads from it. *)
Start ==
    /\ child = "none"
    /\ child' = "alive"
    /\ stdinOpen' = TRUE
    /\ stdoutOpen' = TRUE
    /\ pumping' = TRUE
    /\ UNCHANGED <<tpc, sendLock, stdin, written, inbox, tclosed>>

-----------------------------------------------------------------------------
(* send() *)

BeginSend(t) ==
    /\ TGoto(t, "idle", "poll")
    /\ UNCHANGED <<sendLock, process, pumping, inbox, tclosed>>

(* process.poll(), before the lock: not started or already exited. *)
Poll(t) ==
    /\ TGoto(t, "poll", IF child = "alive" THEN "lock" ELSE "TransportError")
    /\ UNCHANGED <<sendLock, process, pumping, inbox, tclosed>>

Acquire(t) ==
    /\ sendLock = NoThread
    /\ TGoto(t, "lock", "write")
    /\ sendLock' = t
    /\ UNCHANGED <<process, pumping, inbox, tclosed>>

(* The write and the flush go through. *)
Write(t, m) ==
    /\ \E from \in {"write", "blocked"} : TGoto(t, from, "sent")
    /\ stdinOpen /\ child = "alive" /\ Len(stdin) < PipeSize
    /\ stdin' = Append(stdin, m)
    /\ sendLock' = NoThread
    /\ UNCHANGED <<stdinOpen, child, stdoutOpen, written, pumping, inbox, tclosed>>

(* The pipe is full: the thread waits inside the write, with both locks.   *)
Block(t) ==
    /\ stdinOpen /\ child = "alive" /\ Len(stdin) = PipeSize
    /\ TGoto(t, "write", "blocked")
    /\ UNCHANGED <<sendLock, process, pumping, inbox, tclosed>>

(* BrokenPipeError becomes TransportError; writing to a stream that        *)
(* close() closed after the poll is a ValueError, which nothing converts.  *)
WriteFails(t) ==
    /\ ~stdinOpen \/ child = "dead"
    /\ \E from \in {"write", "blocked"} :
           TGoto(t, from, IF stdinOpen THEN "TransportError" ELSE "ValueError")
    /\ sendLock' = NoThread
    /\ UNCHANGED <<process, pumping, inbox, tclosed>>

-----------------------------------------------------------------------------
(* close() *)

BeginShutdown(t) ==
    /\ TGoto(t, "idle", "tcheck")
    /\ UNCHANGED <<sendLock, process, pumping, inbox, tclosed>>

TestClosed(t) ==
    /\ TGoto(t, "tcheck", IF tclosed THEN "shutdown" ELSE "tset")
    /\ UNCHANGED <<sendLock, process, pumping, inbox, tclosed>>

SetClosed(t) ==
    /\ TGoto(t, "tset", IF child = "none" THEN "shutdown" ELSE "stdin")
    /\ tclosed' = TRUE
    /\ UNCHANGED <<sendLock, process, pumping, inbox>>

(* stdin.close() flushes first, so it waits for a write in progress. *)
CloseStdin(t) ==
    /\ \A u \in Users : tpc[u] # "blocked"
    /\ TGoto(t, "stdin", "await")
    /\ stdinOpen' = FALSE
    /\ UNCHANGED <<sendLock, stdin, child, stdoutOpen, written, pumping, inbox, tclosed>>

Mut_AwaitExit(t) ==
    /\ TGoto(t, "await", "eof")
    /\ UNCHANGED <<sendLock, process, pumping, inbox, tclosed>>

(* wait, terminate, wait, kill, wait: whichever it took, the child is gone. *)
AwaitExit(t) ==
    /\ TGoto(t, "await", "eof")
    /\ child' = "dead"
    /\ stdoutOpen' = FALSE
    /\ UNCHANGED <<sendLock, stdinOpen, stdin, written, pumping, inbox, tclosed>>

(* Its streams are closed, the pump has been joined (or the join timed     *)
(* out), and whoever still sits in receive() is woken.                     *)
PutEof(t) ==
    /\ TGoto(t, "eof", "shutdown")
    /\ inbox' = Append(inbox, EOF)
    /\ UNCHANGED <<sendLock, process, pumping, tclosed>>

(* The caller of send() or close() sees how it ended. *)
Finish(t, verdict) ==
    /\ TGoto(t, verdict, "idle")
    /\ UNCHANGED <<sendLock, process, pumping, inbox, tclosed>>

-----------------------------------------------------------------------------
(* The pump and receive() *)

Mut_PumpEnds ==
    /\ pumping /\ ~stdoutOpen
    /\ pumping' = FALSE
    /\ UNCHANGED <<tpc, sendLock, process, inbox, tclosed>>

PumpEnds ==
    /\ pumping /\ ~stdoutOpen
    /\ pumping' = FALSE
    /\ inbox' = Append(inbox, EOF)
    /\ UNCHANGED <<tpc, sendLock, process, tclosed>>

Receive(m) ==
    /\ inbox # <<>> /\ Head(inbox) = m /\ m # EOF
    /\ inbox' = Tail(inbox)
    /\ UNCHANGED <<tpc, sendLock, process, pumping, tclosed>>

ReceiveNone ==
    /\ inbox # <<>> /\ Head(inbox) = EOF
    /\ inbox' = Append(Tail(inbox), EOF)
    /\ UNCHANGED <<tpc, sendLock, process, pumping, tclosed>>

-----------------------------------------------------------------------------
(* The child process (external) *)

ChildReads ==
    /\ child = "alive" /\ stdin # <<>>
    /\ stdin' = Tail(stdin)
    /\ UNCHANGED <<tpc, sendLock, stdinOpen, child, stdoutOpen, written,
                   pumping, inbox, tclosed>>

ChildWrites(m) ==
    /\ child = "alive" /\ stdoutOpen /\ written < MaxOutput
    /\ written' = written + 1
    /\ inbox' = Append(inbox, m)
    /\ UNCHANGED <<tpc, sendLock, stdinOpen, stdin, child, stdoutOpen,
                   pumping, tclosed>>

ChildClosesStdout ==
    /\ child = "alive" /\ stdoutOpen
    /\ stdoutOpen' = FALSE
    /\ UNCHANGED <<tpc, sendLock, stdinOpen, stdin, child, written, pumping,
                   inbox, tclosed>>

ChildExits ==
    /\ child = "alive"
    /\ child' = "dead"
    /\ stdoutOpen' = FALSE
    /\ UNCHANGED <<tpc, sendLock, stdinOpen, stdin, written, pumping, inbox, tclosed>>

-----------------------------------------------------------------------------
(* Steps a thread takes by itself once it is inside send() or close(). *)
SendLocal(t) == Poll(t) \/ Acquire(t) \/ Block(t) \/ WriteFails(t)
CloseLocal(t) == \/ TestClosed(t) \/ SetClosed(t) \/ CloseStdin(t)
                 \/ AwaitExit(t) \/ PutEof(t)

StdioNext ==
    \/ Start
    \/ \E t \in Users :
        \/ BeginSend(t) \/ SendLocal(t) \/ \E m \in Message : Write(t, m)
        \/ BeginShutdown(t) \/ CloseLocal(t)
        \/ \E v \in Verdict : Finish(t, v)
    \/ PumpEnds
    \/ (\E m \in Message : Receive(m)) \/ ReceiveNone
    \/ ChildReads \/ (\E m \in Message : ChildWrites(m))
    \/ ChildClosesStdout \/ ChildExits

StdioSpec == StdioInit /\ [][StdioNext]_stdioVars

-----------------------------------------------------------------------------
(* "Returns None once the peer has closed the channel and no messages      *)
(* remain": nothing ever stands behind an _EOF, although the pump, every   *)
(* close() and every receive() may each put one.                           *)
NothingBehindEof ==
    \A i, j \in 1 .. Len(inbox) : i < j /\ inbox[i] = EOF => inbox[j] = EOF

(* None is never premature: an _EOF in the inbox means the child can write *)
(* nothing more.                                                           *)
EofMeansOver == (\E i \in 1 .. Len(inbox) : inbox[i] = EOF) => ~stdoutOpen

(* "Put it back so every other waiter also sees the close": once an _EOF   *)
(* is there, no step ever leaves a receiver to block again.                *)
EofStays ==
    [][(\E i \in 1 .. Len(inbox) : inbox[i] = EOF)
         => \E i \in 1 .. Len(inbox') : inbox'[i] = EOF]_stdioVars
=============================================================================
