----------------------------- MODULE Conformance -----------------------------
(***************************************************************************)
(* tools/conformance_check.py: a client that shares no code with the host, *)
(* against the server it launches on its pipes (StdioServer) or against    *)
(* one that others use as well, over HTTP (HttpServer).  It sends its      *)
(* script one message after the other, and reads a reply wherever it       *)
(* expects one, so that a reply nobody asked for would be taken for the    *)
(* next.                                                                   *)
(*                                                                         *)
(* A third way to the pipes is any client at all, which sends any line.    *)
(* The network loses nothing, and no other client has the probe's session. *)
(***************************************************************************)
EXTENDS HttpServer, StdioServer

ASSUME ConformanceAssumption == Id # {}

VARIABLES
    way,          \* how the server is reached
    step,         \* the message of the script it is at
    waiting,      \* a reply is being waited for
    sid,          \* session_id
    body,         \* over HTTP, the body of the last reply
    failed,       \* some check failed
    phase         \* "script", "closing", or "done"

probe == <<step, waiting, sid, body, failed, phase>>
conformanceVars == <<received, ready, served, at, job, reply, table, created, dropped, status, odd, stained,
                     stdin, eof, hand, stdout, exited, way, step, waiting, sid, body, failed,
                     phase>>

SomeId == CHOOSE id \in Id : TRUE
Request(method, params) ==
    [version |-> "2.0", id |-> SomeId, method |-> method, params |-> params,
     result |-> "absent", error |-> "absent"]
Asks(method, expected) == [line |-> Envelope(Request(method, "absent"), Nameless), expected |-> expected]
CallsTool(tool, args, expected) ==
    [line |-> Envelope(Request("tools/call", "structured"), [name |-> tool, arguments |-> args]),
     expected |-> expected]
Account(value) == [name \in {"account_id"} |-> value]

(* What main() sends, and what it expects. *)
Script == <<
    Asks("initialize", {"result"}),
    [line |-> Envelope([Request("notifications/initialized", "absent") EXCEPT !.id = "absent"],
                       Nameless), expected |-> {}],
    Asks("ping", {"result"}),
    Asks("tools/list", {"result"}),
    CallsTool("lookup_account", Account("known"), {"result"}),
    CallsTool("lookup_account", Account("unknown"), {"isError"}),
    CallsTool("check_service_status", NoArguments, {"invalid_params"}),
    Asks("other", {"method_not_found"}),
    [line |-> Envelope(Request("tools/call", "bad"), Nameless), expected |-> Body \ {"result", "isError"}]
  >>

Current == Script[step]
HasReply == Current.expected # {}

ConformanceInit ==
    /\ StdioServerInit
    /\ table = {} /\ created = 0 /\ dropped = {} /\ status = [x \in Exchanges |-> 0]
    /\ odd = [x \in Exchanges |-> "nothing"] /\ stained = FALSE
    /\ way \in {"stdio", "http", "lines"}
    /\ step = 1 /\ waiting = FALSE /\ sid = 0 /\ body = "none" /\ failed = FALSE
    /\ phase = "script"

-----------------------------------------------------------------------------
(* On to the next message, or to close(). *)
Advance ==
    /\ waiting' = FALSE
    /\ IF step = Len(Script) THEN phase' = "closing" /\ UNCHANGED step
                             ELSE step' = step + 1 /\ UNCHANGED phase

Check(passes) == failed' = (failed \/ ~passes)

Sent == IF HasReply THEN waiting' = TRUE /\ UNCHANGED <<step, phase>> ELSE Advance

(* ForeignStdioClient *)
StdioRequest ==
    /\ way = "stdio" /\ phase = "script" /\ ~waiting
    /\ SendLine(Current.line) /\ Sent
    /\ UNCHANGED <<registry, answers, way, sid, body, failed>>

StdioReply ==
    /\ way = "stdio" /\ waiting /\ ReadLine
    /\ Check((step = 1 => Head(stdout).id = SomeId) /\ Head(stdout).body \in Current.expected)
    /\ Advance
    /\ UNCHANGED <<registry, answers, way, sid, body>>

StdioClose ==
    /\ way = "stdio" /\ phase = "closing"
    /\ \/ CloseStdin /\ UNCHANGED <<phase, failed>>
       \/ exited /\ phase' = "done" /\ UNCHANGED <<pipes, session, failed>>
    /\ UNCHANGED <<registry, answers, way, step, waiting, sid, body>>

(* ForeignHttpClient: the answer to a notification is read and discarded.  *)
(* Nothing the script sends is beyond writing back.                        *)
Posts(raw) ==
    LET m == [kind |-> Parse(raw), method |-> Named(raw)]
    IN  /\ \/ ToNewSession(Pump, m)
           \/ m.method # "initialize" /\ NoSession(Pump, sid)
           \/ ToSession(Pump, m, sid)
        /\ odd'[Pump] = "nothing" /\ status'[Pump] # 500

HttpRequest ==
    /\ way = "http" /\ phase = "script" /\ ~waiting
    /\ Posts(Current.line.raw) /\ waiting' = TRUE
    /\ sid' = IF Current.line.raw.method = "initialize" THEN created' ELSE sid
    /\ body' = "invalid_request"
    /\ UNCHANGED <<pipes, way, step, failed, phase>>

HttpReply ==
    /\ way = "http" /\ phase = "script" /\ waiting /\ at[Pump] = "idle" /\ Advance
    /\ Check(HasReply => body \in Current.expected)
    /\ UNCHANGED <<netops, at, job, reply, registry, answers, pipes, way, sid, body>>

(* DELETE, and a ping to see whether it did anything. *)
HttpDelete ==
    /\ way = "http" /\ phase = "closing" /\ UNCHANGED <<pipes, way, step, sid>>
    /\ \/ EndSession(Pump, sid) /\ phase' = "refused" /\ UNCHANGED <<waiting, body, failed>>
       \/ EndUnknown(Pump, sid) /\ phase' = "done" /\ Check(FALSE) /\ UNCHANGED <<waiting, body>>

HttpPing ==
    /\ way = "http" /\ phase = "refused" /\ UNCHANGED <<pipes, way, step, sid>>
    /\ \/ /\ ~waiting /\ Posts(Request("ping", "absent"))
          /\ waiting' = TRUE /\ body' = "invalid_request" /\ UNCHANGED <<failed, phase>>
       \/ /\ waiting /\ at[Pump] = "idle" /\ phase' = "done" /\ Check(~Succeeds(body))
          /\ waiting' = FALSE /\ UNCHANGED <<netops, at, job, reply, registry, answers, body>>

Probe == StdioRequest \/ StdioReply \/ StdioClose
         \/ HttpRequest \/ HttpReply \/ HttpDelete \/ HttpPing

-----------------------------------------------------------------------------
(* The server works on the probe's message; no call of the script has an   *)
(* answer that shows tickets.                                              *)
HttpServes ==
    /\ way = "http" /\ Runs(Pump) /\ status'[Pump] # 500
    /\ UNCHANGED <<pipes, way, step, waiting, sid, failed, phase>>
    /\ \E b \in Body : Works(Pump, Current.line, b)
                       /\ body' = IF at'[Pump] = "idle" THEN b ELSE body

Serves ==
    \/ HttpServes
    \/ way # "http" /\ StdioServe /\ UNCHANGED <<registry, answers, way, probe>>

(* The other clients of a public server.  Bounds: they leave the probe a   *)
(* session to create, and send nothing odd, which only spoils answers      *)
(* other than the probe's.                                                 *)
Others ==
    /\ way = "http" /\ UNCHANGED <<pipes, way, probe>>
    /\ \E x \in Exchanges \ {Pump} : Arrives(x) \/ Runs(x)
    /\ \A x \in Exchanges \ {Pump} : sid # 0 => job'[x].session # sid
    /\ sid \in dropped' => sid \in dropped
    /\ sid # 0 \/ created' < MaxCreated
    /\ odd' = odd

(* Any client of the pipes.  Bound: it lets the server finish a line       *)
(* before it sends another.                                                *)
AnyClient ==
    /\ way = "lines" /\ UNCHANGED <<registry, answers, way, probe>>
    /\ \/ stdin = <<>> /\ hand = NoLine /\ stdout = <<>> /\ \E line \in Line : SendLine(line)
       \/ ReadLine
       \/ CloseStdin

ConformanceNext == Probe \/ Serves \/ Others \/ AnyClient

(* Neither the probe nor the thread that serves it stops half way. *)
ConformanceSpec ==
    /\ ConformanceInit /\ [][ConformanceNext]_conformanceVars
    /\ WF_conformanceVars(Probe) /\ WF_conformanceVars(Serves)

-----------------------------------------------------------------------------
(* "Drop the oldest rather than refuse the newest": a check fails only     *)
(* over HTTP, after newer clients have pushed the probe's session out of   *)
(* the table, and then some check does fail; on the pipes it passes, and   *)
(* when it is over no reply is left that nobody waited for.                *)
ChecksPass ==
    /\ failed => way = "http" /\ sid # 0 /\ sid \notin table \cup dropped
    /\ way = "http" /\ phase = "done" => failed \/ sid \in dropped
    /\ way = "stdio" /\ phase = "done" => stdout = <<>>

(* The probe has its verdict at last, whatever other clients do. *)
ScriptEnds == way # "lines" ~> phase = "done"
=============================================================================
