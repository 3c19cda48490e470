----------------------------- MODULE StdioServer -----------------------------
(***************************************************************************)
(* servers/netops/stdio_server.py: one line at a time from stdin, through  *)
(* the one session, to stdout; and what the body of an answer is, which    *)
(* NetopsSession leaves at a result or an error.                           *)
(*                                                                         *)
(* A line is blank, or not a JSON object, or an envelope; a tools/call     *)
(* carries its call.                                                       *)
(***************************************************************************)
EXTENDS NetopsSession, NetopsTools, Sequences

CONSTANTS Pump      \* the thread that serves stdin

ASSUME StdioServerAssumption == Pump \in Exchanges

VARIABLES
    stdin,        \* lines the server has not read
    eof,          \* the client has closed them
    hand,         \* the line being handled
    stdout,       \* replies the client has not read
    exited

pipes == <<stdin, eof, hand, stdout, exited>>
session == <<received, ready, served, at, job, reply>>

NoLine == [text |-> "none"]
Nameless == [name |-> "bad", arguments |-> NoArguments]
Envelope(raw, call) == [text |-> "envelope", raw |-> raw, call |-> call]

Calls(raw) == Parse(raw) = "request" /\ raw.method = "tools/call"

Line == {[text |-> "blank"], [text |-> "undecodable"]}
        \cup UNION {{Envelope(raw, call) :
                        call \in IF Calls(raw) /\ raw.params = "structured" THEN Call
                                 ELSE {Nameless}} : raw \in Raw}

Body == {"result", "isError", "parse_error", "invalid_request", "method_not_found",
         "invalid_params", "internal_error"}
Succeeds(body) == body \in {"result", "isError"}

StdioServerInit ==
    /\ received = {} /\ ready = {} /\ served = {}
    /\ at = [x \in Exchanges |-> "idle"]
    /\ job = [x \in Exchanges |-> NoJob]
    /\ reply = [x \in Exchanges |-> "none"]
    /\ stdin = <<>> /\ eof = FALSE /\ hand = NoLine /\ stdout = <<>> /\ exited = FALSE

-----------------------------------------------------------------------------
(* How the step at hand may answer its line, if it answers. *)
Bodies(x, line) ==
    LET m == job[x].message
    IN  IF at[x] = "tool"
        THEN IF m.method = "tools/list" THEN {"result"} ELSE Ends(line.call)
        ELSE IF m.kind = "invalid" THEN {"invalid_request"}
        ELSE CASE m.method \in {"tools/list", "tools/call"} -> {"invalid_request"}
               [] m.method \in {"initialize", "ping"} -> {"result"}
               [] OTHER -> {"method_not_found"}

(* A step of handle_message(), which ends in this body if in any. *)
Works(x, line, body) ==
    /\ HandleMessage(x)
    /\ body \in Bodies(x, line)
    /\ reply'[x] \in {"result", "rpcError"} /\ at'[x] = "idle" =>
          (reply'[x] = "result" <=> Succeeds(body))

(* The id a reply carries: that of the message, if it has one; null        *)
(* otherwise.  main() has stdout write "?" for what UTF-8 cannot hold.     *)
ReplyId(line) ==
    CASE line.text = "undecodable" -> "null"
      [] line.text = "envelope" /\ line.raw.id = "absent" -> "null"
      [] line.text = "envelope" /\ line.raw.id = "halved" -> "?"
      [] OTHER -> line.raw.id

Writes(line, body) == stdout' = Append(stdout, [id |-> ReplyId(line), body |-> body])

(* The next line: nothing is owed for a blank one, and one that is not a   *)
(* JSON object never reaches the session.                                  *)
TakeLine ==
    /\ hand = NoLine /\ stdin # <<>> /\ stdin' = Tail(stdin)
    /\ LET line == Head(stdin)
       IN  \/ line.text = "blank" /\ UNCHANGED <<hand, stdout, session>>
           \/ line.text = "undecodable" /\ Writes(line, "parse_error") /\ UNCHANGED <<hand, session>>
           \/ /\ line.text = "envelope" /\ hand' = line
              /\ at' = [at EXCEPT ![Pump] = "handle"]
              /\ job' = [job EXCEPT ![Pump] =
                    [message |-> [kind |-> Parse(line.raw), method |-> Named(line.raw)],
                     session |-> 1]]
              /\ UNCHANGED <<received, ready, served, reply, stdout>>
    /\ UNCHANGED <<eof, exited>>

Mut_HandleLine ==
    /\ hand # NoLine
    /\ \E body \in Body :
          /\ Works(Pump, hand, body)
          /\ hand' = IF at'[Pump] = "idle" THEN NoLine ELSE hand
          /\ IF at'[Pump] = "idle" THEN Writes(hand, body) ELSE UNCHANGED stdout
    /\ UNCHANGED <<stdin, eof, exited>>

HandleLine ==
    /\ hand # NoLine
    /\ \E body \in Body :
          /\ Works(Pump, hand, body)
          /\ hand' = IF at'[Pump] = "idle" THEN NoLine ELSE hand
          /\ IF at'[Pump] = "idle" /\ reply'[Pump] # "nothing" THEN Writes(hand, body)
                                                              ELSE UNCHANGED stdout
    /\ UNCHANGED <<stdin, eof, exited>>

(* stdin is closed, and everything that was in it has been dealt with. *)
Exit ==
    /\ eof /\ stdin = <<>> /\ hand = NoLine /\ ~exited /\ exited' = TRUE
    /\ UNCHANGED <<stdin, eof, hand, stdout, session>>

StdioServe == TakeLine \/ HandleLine \/ Exit

-----------------------------------------------------------------------------
(* The client. *)
SendLine(line) ==
    /\ ~eof /\ stdin' = Append(stdin, line)
    /\ UNCHANGED <<eof, hand, stdout, exited, session>>

ReadLine ==
    /\ stdout # <<>> /\ stdout' = Tail(stdout)
    /\ UNCHANGED <<stdin, eof, hand, exited, session>>

CloseStdin ==
    /\ ~eof /\ eof' = TRUE
    /\ UNCHANGED <<stdin, hand, stdout, exited, session>>

-----------------------------------------------------------------------------
(* What the client's own parse_message would say of a reply. *)
ReplyKind(written) ==
    Parse([version |-> "2.0", id |-> written.id, method |-> "absent", params |-> "absent",
           result |-> IF Succeeds(written.body) THEN "given" ELSE "absent",
           error |-> IF Succeeds(written.body) THEN "absent" ELSE "object"])

Written == SubSeq(stdout', Len(stdout) + 1, Len(stdout'))

(* Every request has one reply that the client can pair with it, with its  *)
(* id if UTF-8 can write that; a notification and a stray response have    *)
(* none; an envelope that is no message has one error.  The one reply that *)
(* is no response is that to a message whose id was none.                  *)
RepliesPair ==
    [][hand # NoLine /\ hand' = NoLine =>
        CASE Parse(hand.raw) = "request" ->
                /\ Len(Written) = 1
                /\ hand.raw.id # "halved" => Written[1].id = hand.raw.id
                /\ ReplyKind(Written[1]) \in {"success", "error"}
          [] Parse(hand.raw) = "invalid" ->
                /\ Len(Written) = 1
                /\ ReplyKind(Written[1]) = IF hand.raw.id = "bad" THEN "invalid" ELSE "error"
          [] OTHER -> Written = <<>>]_<<pipes, session>>

(* The advertised schema is all a caller has to go by: a call that         *)
(* satisfies it never makes a handler raise what nobody maps, unless the   *)
(* state cannot be saved, and is refused only by the two rules the schema  *)
(* cannot express; one that does not is refused before the store is asked. *)
SchemaGuardsHandlers ==
    [][hand # NoLine /\ Calls(hand.raw) /\ at[Pump] = "tool" /\ hand' # hand =>
        LET call == hand.call
            said == Written[1].body
        IN  /\ said = "internal_error" => Saves(call)
            /\ said = "invalid_params" /\ call.name \in Tool /\ Valid(call.name, call.arguments) =>
                  \/ call.name = "lookup_account" /\ Cardinality(OneOf(call.arguments)) # 1
                  \/ call.name = "schedule_visit" /\ call.arguments.date = "unreal"
            /\ said \in {"result", "isError"} =>
                  call.name \in Tool /\ Valid(call.name, call.arguments)]_<<pipes, session>>
=============================================================================
