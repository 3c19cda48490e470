------------------------------ MODULE McpLogger ------------------------------
(***************************************************************************)
(* host/logging/mcp_logger.py: the session log every message goes into,    *)
(* from whichever thread sends or receives it.                             *)
(*                                                                         *)
(* record() runs under the logger's lock, so it is one step.  The bounded  *)
(* buffer behind "/log tail", which only feeds the screen, and timestamps  *)
(* are left out, as is the order of lines that have nothing to do with     *)
(* each other; that an answer was timed is kept as the method of the     *)
(* request it was timed against (request_method).                          *)
(***************************************************************************)
EXTENDS Integers, Sequences

CONSTANTS Server,     \* the names of the configured servers
          Method,     \* methods, either way
          NoMethod,   \* what a message that names none has
          MaxFaults   \* bound: writes that fail

VARIABLES timers,     \* _pending: the requests that wait for an answer
          lines,      \* per server and direction: the lines of the file about
                      \* requests that went that way, in order
          logClosed,  \* _closed
          faults      \* writes that failed, counted against the bound

logVars == <<timers, lines, logClosed, faults>>

(* A message has a type (what classify() calls it: request, notification,  *)
(* response or error), an id (0 for none) and a method.                    *)
Direction == {"out", "in"}
IsAnswer(m) == m.type \in {"response", "error"}
Opposite(d) == IF d = "out" THEN "in" ELSE "out"

LogInit == timers = {} /\ lines = [s \in Server |-> [d \in Direction |-> <<>>]] /\ logClosed = FALSE /\ faults = 0

-----------------------------------------------------------------------------
Mut_Waiting(s, d, i) == {x \in timers : x.direction = d /\ x.id = i}

(* The entry of _pending, if any, for request i that went direction d.     *)
Waiting(s, d, i) == {x \in timers : x.server = s /\ x.direction = d /\ x.id = i}

(* _correlate() starts a timer for a request and stops one for an answer.  *)
Correlate(s, d, m) ==
    timers' = CASE m.id # 0 /\ m.type = "request" ->
                       (timers \ Waiting(s, d, m.id))
                           \cup {[server |-> s, direction |-> d, id |-> m.id, method |-> m.method]}
                [] m.id # 0 /\ IsAnswer(m) ->
                       timers \ Waiting(s, Opposite(d), m.id)
                [] OTHER -> timers

(* The method of the request that message m is taken to answer. *)
Answered(s, d, m) ==
    LET for == Waiting(s, Opposite(d), m.id)
    IN  IF IsAnswer(m) /\ for # {}
        THEN (CHOOSE x \in for : TRUE).method ELSE NoMethod

Written(s, d, m) ==
    [lines EXCEPT ![s][IF IsAnswer(m) THEN Opposite(d) ELSE d] =
        Append(@, [type |-> m.type, id |-> m.id, method |-> m.method,
                   answers |-> Answered(s, d, m)])]

(* record(); once the log is closed it writes nothing.                     *)
Record(s, d, m) ==
    /\ Correlate(s, d, m)
    /\ lines' = IF logClosed THEN lines ELSE Written(s, d, m)
    /\ UNCHANGED <<logClosed, faults>>

(* record() raises, as when the disk is full: the timer has been started   *)
(* or stopped by then, and the line may still be in the file's buffer.     *)
RecordFails(s, d, m) ==
    /\ ~logClosed /\ faults < MaxFaults
    /\ faults' = faults + 1
    /\ Correlate(s, d, m)
    /\ lines' \in {lines, Written(s, d, m)}
    /\ UNCHANGED logClosed

CloseLog == logClosed' = TRUE /\ UNCHANGED <<timers, lines, faults>>
=============================================================================
