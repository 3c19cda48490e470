# TLA+ models of the MCP host and the netops server

The repository holds an MCP *host* (`host/`: a chat client whose language model
calls tools on several MCP servers) and one MCP *server* of its own
(`servers/netops/`: ISP support tickets, reachable over pipes or over HTTP).
These modules model the parts of it where threads, time limits, failures and
restarts meet, check them with TLC, and prove the main results with TLAPS for
every value of the constants.

## 1. The system

| Component | State it keeps | Operations | Talks to |
|---|---|---|---|
| MCP client session, `host/mcp/client.py` | next id, `_pending` (id to Future), `_closed`, `initialized`, reader thread | `connect`, `request` (`call_tool`, `list_tools`, `ping`), `notify`, `close`, `_read_loop` | calls a Transport; calls the logger with every message; called by registry and agent |
| Transport interface, `host/mcp/transport.py` | none | `start`, `send`, `receive`, `close` and what they promise | |
| Stdio transport, `host/mcp/stdio_transport.py` | child process, its pipes, `_inbox`, `_send_lock`, `_closed`, pump thread | the four above, `_read_loop` | the child process |
| HTTP transport, `host/mcp/http_transport.py` | `_inbox`, `_send_lock`, session id, negotiated version, `_closed` | the four above, `_post` with its retry | the HTTP server |
| Server registry, `host/mcp/registry.py` | clients, failures, tool table, transports | `connect_all`, `call`, `close_all` | one client per server |
| MCP logger, `host/logging/mcp_logger.py` | event buffer, timers of open requests, file | `record`, `tail`, `close` | called from every thread that traces |
| Agent and conversation, `host/agent.py`, `host/session.py` | message history | `run_turn`, `execute_tool`, `clear` | the model, the registry |
| LLM clients, `host/llm/` | none | `create`, retries | remote services |
| CLI, `host/main.py` | the registry, the agent, the console it prints to | `run`, `ask`, the commands | all of the above |
| Dashboard, `host/ui/app.py`, `host/ui/keyboard.py` | input line, transcript, header, captured output, what is on screen | `read_key`, `submit`, `refresh` | the CLI; redrawn by every thread that logs |
| Configuration, `host/config.py` | none after the start | `load_llm`, `is_usable`, `why_unusable`, `load_servers` | the environment |
| JSON-RPC, `host/mcp/jsonrpc.py`; validation, `servers/netops/validation.py` | none | pure functions | |
| netops session, `servers/netops/protocol.py` | `initialize_received`, `initialized` | `handle_message` | the handlers |
| netops HTTP server, `servers/netops/http_server.py` | session table | `POST /mcp`, `DELETE /mcp` | netops sessions, on a thread pool |
| netops stdio server, `servers/netops/stdio_server.py` | one netops session | a read loop | |
| netops handlers, `servers/netops/core.py` | none | the seven tools | the store |
| Conformance tool, `tools/conformance_check.py` | its session, what passed | a script of requests, over pipes or HTTP | either netops server |
| netops store, `servers/netops/store.py` | tickets, visits, counter, `_lock`, `state.json` | `create_ticket`, `schedule_visit`, `get_ticket`, `get_visit`, load, save | the disk |

What is hard: a Future that an answer, a timeout, the end of the stream and
`close()` may all want to settle; end of stream on a shared inbox; a child that
stops reading; changes made in memory in several steps, saved whole, read
without the lock, and cut short by failed saves and crashes; two server
processes on one file; POSTs that are retried; a session table at its cap; a
conversation left half-way by an exception; keys pressed while nothing reads
them; a screen that several threads draw; a schema that says one thing and a
handler that does another.  `PROJECT.json` lists each of these
hazards at its line, with the properties that cover it.

### What makes each component correct

- *Client session.* A Future is settled once, by one thread; every call returns,
  with its answer or an error, within its timeout; nothing is left in `_pending`
  behind it; `close()` leaves neither thread nor child.
- *Transports.* `send` delivers or raises; after the end of the stream `receive`
  says so to everybody, and never before what was sent has been received; the
  HTTP session id on a POST is the one that the answer to `initialize` named.
- *Registry, logger, command line.* Each tool of the table belongs to a live
  entry of the client table; an answer is timed against its own request; on the
  way out sessions are quiet before the log closes, as far as `close()` waits for
  that; the prompt always comes back.
- *Agent.* Tool results stand behind their calls, in the session and on the wire;
  a turn ends.
- *netops session and HTTP server.* No tool before the handshake is complete; the
  table keeps to its cap, evicts only the oldest, never revives an id; each
  message gets the answer it is owed.
- *Dashboard.* The lines submitted are those typed, whenever the keys were pressed;
  the header says what the turn is at and is idle at the prompt; output stands
  under the line that caused it, also when the transcript is trimmed; the keyboard
  always comes back.
- *netops tools and stdio server.* What an advertised schema accepts, its handler
  can take, and nothing else reaches the store; each request has one reply that
  its sender can pair with it, and nothing else has any.
- *netops store.* The file never holds half a change; what a client was told
  survives a crash; no id is given out twice.

## 2. The modules

| Module | Models | State and actions |
|---|---|---|
| `MCPClient` | `client.py`, over any transport | `pending`, `future`, `pc` per thread; one action per step between two lock regions. The transport is whatever `send`/`receive` may do, and the two sessions below put one in its place |
| `StdioTransport` | `stdio_transport.py` | inbox, `sendLock`, `closed`, the pump, the child and its two pipes |
| `StdioSession` | both together | a call of the client and its part of the transport interleave step by step; `M!` is the client, `T!` the transport |
| `HttpTransport` | `http_transport.py` | inbox, lock, session id, attempts of a POST, those that were given up and may still arrive; the network and the server are external |
| `HttpSession` | the client over it | as `StdioSession` |
| `JsonRpc` | `jsonrpc.parse_message` | operators: what an envelope is taken for |
| `NetopsSession` | `protocol.py` | one action per branch of `handle_message`, on any number of exchanges at once |
| `HttpServer` | `http_server.py` over `NetopsSession` | the session table; look-up on the event loop and handling on a thread are two steps; what cannot be written as JSON |
| `TicketLedger` | what the store promises | a book that only grows; a client is told only of what is in it |
| `NetopsStore` | `store.py` with the handlers of `core.py` that write or read tickets | memory, `state.json`, lock, and each step of a handler between which another thread may run; saves fail, the process dies and restarts |
| `SharedDataDir` | two such processes on one directory | two instances of `NetopsStore` on one file |
| `McpLogger` | `mcp_logger.py` | `timers` is `_pending`; `record()` is one step, under the logger's lock |
| `ServerRegistry` | `registry.py` | its four tables |
| `Host` | `main.py` from start to exit, with the two above | the main thread's control and one reader thread per server, with the send of its own reply |
| `AgentLoop` | `agent.py`, `session.py` | the conversation as kinds and call ids; one action per step of `run_turn` |
| `OpenAIAgent` | the loop over `llm/openai_compatible.py` | adds the retries and the conversion both ways |
| `Keyboard` | `ui/keyboard.py` | operators: what a key sends on either platform, what a read collects of it, `decode`, `apply` |
| `Configuration` | the model backend in `config.py` | operators over every environment |
| `Dashboard` | `ui/app.py` over `AgentLoop`, `Keyboard`, `Configuration` | the key loop and `submit` on the main thread, step by step; a reader thread's redraw in two steps; the transcript, trimmed by `say()` and by stderr threads; `ask` and `handle_command` as far as what they print and raise |
| `NetopsTools` | the schemas and handlers of `core.py`, `validation.py` | operators: what a call may carry, what the validator says, how the handler ends |
| `StdioServer` | `stdio_server.py` over `NetopsSession` and `NetopsTools` | stdin, the line in hand, stdout |
| `Conformance` | `conformance_check.py` against `HttpServer` and `StdioServer` | the step of its script, its session, its verdict |

A definition named `Mut_X` is a plausible bug in `X` - a dropped guard, a missing
reset, a swapped order.  No specification uses it: it is there to be put in the
place of `X`, and the property `PROJECT.json` lists with it then fails.

Abstractions that hold throughout: payloads, texts, timestamps and stderr are
left out; ids and tickets are numbers, servers, threads and tools model values;
counters that grow without limit stop at a `Max...` constant, named as a bound
where it is declared.

Per module:

- *MCPClient*: `Register` is `_next_id()` and the insertion in one step (the id is
  nobody else's until it is in the table). The branches for a Future that is
  already `done()` are in the model and never taken, which is `OneSettler`. Of
  `list_tools` and `call_tool` only the gate and the request are there; `ping`
  takes the same path.
- *StdioTransport*: the child's standard output and the inbox are one queue, the
  pump's only visible step being the `_EOF` at the end; the child alone holds its
  pipes. A line that is not JSON is only reported, so it is left out. In close(),
  `AwaitExit` is the three waits for the child in one; closing the streams is left
  out, and `join(timeout)` is taken to be long enough (that it may not be is
  `Host`'s subject).
- *HttpTransport*: the protocol-version header and the wording of errors are left
  out; a redirect counts as success, as in the code. Only the server speaks
  JSON-RPC; an intermediary may answer with errors, garbage or nothing. An attempt
  that timed out may reach the server at any later time (`LateArrival`); nobody
  reads its answer. An answer names the session that its attempt opened, or none
  when it comes from something in between.
- *HttpServer*: sessions are numbers in the order of their creation in the place
  of random ids; a response carries its request's id by construction of
  `handle_message`, so ids are left out. Invalid messages differ only in whether
  they name `initialize`. `odd` says where a message holds something that parses
  and cannot be written: its id (NaN, half a surrogate pair) or a text; a ticket
  that was opened with such a text is in `stained` memory, and later calls may
  meet it.
- *NetopsStore*: the temporary file and `os.replace` are one `Save`; a damaged
  `state.json` is not modelled; a refused call changes nothing and is left out.
- *McpLogger*: the order of lines that concern different servers, or requests in
  different directions, is left out.
- *Host*: a session is what the registry and the log see of it (the rest is
  `MCPClient`); `First` is the order of the configuration, whichever it is; a write
  of the main thread that blocks is `StdioSession`'s subject; the agent is the user
  calling tools in any order. A reader that answers a server's own request traces,
  then sends, and the send may last (`ReplySent`): `JoinReader` either finds the
  reader gone or gives up on one that is inside it. Ctrl+C while `close_all` waits
  (`Interrupted`) leaves the rest unclosed, and the log too; other exceptions out
  of `close()` are left out.
- *Keyboard*, *Dashboard*: an arrow stands for the keys the program ignores, F2 for
  the two it acts on; "grave" is the one letter whose code, U+00E0, is also the
  lead of an arrow. What follows an escape on POSIX is collected in one step. Which command a line names is open, as is what it prints;
  `/reset` alone changes the conversation. The lengths at which the transcript and
  the captured output are cut are constants; widths are left out. `say()` on the
  main thread tests and deletes in one step, a stderr thread in two. Turning Ctrl+C into a signal while no key is being read
  is the terminal's doing.
- *Configuration*: a setting is there or not; a provider's own variable and the
  general one are one setting.
- *NetopsTools*: a value is named by the keyword of the schema it breaks, or by
  what the store or the calendar makes of it. Numeric bounds and `items`, which
  no schema of `core.py` uses, are left out.
- *StdioServer*: a line on which the JSON parser itself gives up for its size is
  left out; a line is blank, or no object, or an envelope as `JsonRpc` has them.
- *Conformance*: the network loses nothing, and nobody else has the probe's
  session id; of a check it keeps the kind of reply expected.
- *AgentLoop*: `stop_reason` is any; `OpenAIAgent` narrows it to what
  `from_openai_response` produces.

## 3. The runs

| Run | Instance | Shows |
|---|---|---|
| `stdio_session` | two threads, pipes of one message, one message of output | the end of the stream, and that requests, reader and `close()` end |
| `http_session` | two threads, two requests, one retry, two bodies | over a network that loses, delays, reorders and answers anything: who settles a Future, that nothing is lost or left, which session a POST carries, and that requests and reader end |
| `http_server` | cap two, three sessions, two exchanges at once | handshake, cap, eviction, answers |
| `store` | two threads, two tickets, failing saves, a crash and restart | file, memory and clients agree; the store implements `TicketLedger` |
| `host` | two servers, one tool name between them, one failed write, one stray message, one call, joins that may give up | registry, log and shutdown from start to exit |
| `agent` | two questions, two rounds, two calls, one retry | shape of the conversation, on both sides of the conversion |
| `dashboard` | four keys out of five, at any moment; turns of two rounds, one call each; a transcript of three entries, one of them from stderr | lines, header, output and prompt, on both platforms, for every configuration |
| `conformance` | the script of nine messages; a table of two, three sessions, one other client; every line of any client | replies, schemas, and that the script ends and what its verdict means |

The bounds are the smallest at which each hazard occurs: two threads for every
race in the code (none needs three: each lock has one holder and one that waits),
two servers for ids that coincide, three sessions over a cap of two for an
eviction, two rounds for a cap that is met, four keys for a second line typed
while the first one's turn runs.  `stdio_session` has one message of output
because the inbox's discipline is proved for every bound.
In `dashboard` the terminal takes no key while it holds two codes (`MaxAhead`), so
type-ahead is two keys at a time. F2, Backspace, Ctrl+D and the letter U+00E0 are not
among its keys: the first is `posix_keys`' subject, Ctrl+D is handled as Ctrl+C is, and
all of them are covered by the proofs. A reader thread draws once between two
refreshes; a second time could only bring the header up to date.  In `conformance` the
other client leaves the probe a session to create, and a client that sends any
line lets the server finish one before it sends the next; the server takes them
one at a time anyway.

The type invariants are not run: they are proved with the rest (section 5; of
`Host` only the types its argument needs, `Shape`), and TLC checked them before.

The other runs show where the code does not do what its documents say; each has
one property, which fails (`PROJECT.json`, `findings`):

- `store_rescheduled`: two concurrent first visits are both called first.
- `shared_data_dir`: two server processes erase each other's tickets.
- `one_bad_server`: a server that answers `initialize` with an error keeps the
  host from trying the others, and ends it.
- `posix_keys`: on POSIX, F2 types "OQ": `read(1)` takes the whole escape sequence
  into Python's buffer, `select()` then sees nothing more to come, and the rest
  is read back as text.

Deadlock is checked except where the system may stop: `http_session` (all idle
after `close()`), `host`, `dashboard` and `conformance` (the program ends),
`agent` (no more questions), and the runs that stop at a violation.

## 4. Fairness

Only the liveness properties of `stdio_session`, `http_session`, `host`, `agent`,
`dashboard` and `conformance` assume any: weak fairness of each thread, as an
operating system gives it, and of a `future.result(timeout)`, a `join(timeout)`
or an HTTP timeout running out, because those calls return by themselves.  In
`dashboard` it is the main thread's, between keys, and takes a post and a tool
call to return (`TurnEnds` and `RequestsEnd` are about those); the user need
never press a key.  In `conformance` it is the script's and that of the thread
that serves it.  Nothing is assumed of a
child process, a server, the network, the model or the user: they may stop at any
time.  A write into a pipe nobody reads has no timeout in the code; `RequestsEnd`
and `CloseEndsAll` say so by their exception `Wedged`.  `Host` takes the main thread's sends to
return, which the sessions' runs examine; a reader's send is a step of its own,
so that the join of `close()` can run out inside it.  In `http_session` a lock is passed on
because requests are bounded; starvation under endless contention is not covered.

## 5. The proofs

All theorems hold for every value of the constants, under the assumptions named
beside these (`...Assumption`), which only say that the model values differ and
the bounds are numbers.

- *`MCPClientProofs`.* `ClientInv` adds to the checked invariants who holds an
  open Future (`OpenInHand`, `Hands`): it is in the table, or in the hands of
  exactly one thread that has taken it out and will settle it. `OneSettler` and
  `NoOrphan` are not inductive without that, because a step that takes a Future
  out of the table says nothing about the other threads' hands.
- *`StdioTransportProofs`.* `EofInv`: an `_EOF` on the inbox implies that the
  pump has ended, and messages come before it. The order of the shutdown
  (`EndingOrder`) is what makes that inductive.
- *`StdioSessionProofs`, `HttpSessionProofs`.* Each step of the composition is built
  from a step of `MCPClient`, or leaves its variables alone, so that safety of the
  client carries over; that it is so is a lemma, and says nothing about the code.
  In the other direction the session's steps have to be steps of the transport
  (`StdioSessionEof`). `HttpCarriesSession` needs both sides at once: either the
  server has said nothing yet that the client heeds, and then only the initialize
  is under way (`Silent`), or it has been answered, and then no answer will name
  another session (`Known`, `Opening`); what arrives late opens sessions nobody
  hears of. `Link` ties a thread inside
  `send()` or `close()` to the place where the client calls it.
- *`NetopsStoreProofs`.* `StoreInv` says of each thread what its job has done so
  far (`JobOK`), and that the file only ever falls behind memory
  (`Grows(book, memory)`); whence the refinement of `TicketLedger`. `SettledInv`
  adds that a ticket in memory is settled unless the thread that holds the lock is
  half way through it (`HalfWay`), so what is saved is whole, and that a status is
  read before its visit but written after it (`SeenFirst`, `VisitFirst`), so what a
  reader without the lock shows is too.
- *`ConformanceProofs`.* Of the HTTP server, `HttpInv` adds what a message in a
  thread's hands knows of its session (`InHand`): it exists, though perhaps no
  longer in the table. That an evicted session gave way to the cap's worth of newer
  ones is by counting. Of the probe, `ConformanceInv` says how far the server is
  for each place in the script. Over HTTP (`OverHttpInv`), `Posted` holds what the
  thread has in its hands and what its answer may be, and each clause has the
  exception that the session was pushed out by newer ones (`Gone`), which stays so
  (`GoneKept`). Over pipes (`StdioInv`), the lines in the server's hand and behind it
  are the message asked and at most the one notification nobody waits for (`Sequel`):
  two lines may be before the server, and only one of them has a reply. For a
  client that sends any line (`PipesInv`) the thread is busy with the line in hand and
  nothing else, whence `RepliesPair`; `SchemaGuardsHandlers` is by the kinds of value
  a schema lets through (`HandlerEnds`).
- *`HostProofs`.* `IInv`: only the client being closed, and one whose join gave up,
  may still have its reader (`Quiet`, with the exception `late`), a server not yet tried has no session (`Untried`, else a reconnect
  could revive a closed one), and tools are listed on behalf of a client. For
  `TimedByItsRequest`, `TimerInv` ties the timers to the log: while the log is open,
  the timer of an id runs exactly if the last line with that id is a request, and
  it names that request (`InStep`). For the host's own requests that needs what an
  answer on its way may be about (`Heard`, `Owed`): one that was asked, and traced
  before it was sent. The run has one stray message of a server, a request of its
  own or an answer once more; the theorem has any number, and so ids used again.
- *`AgentProofs`.* `AgentInv` ties the last message to the state: while tools run it
  holds the calls done and to do (`results \o todo`). `SentInv` says the same of what is
  sent: its calls all have their tool messages, but those of the last answer while
  they run; the conversion is a fold over the conversation, and `FlattenAppend` says
  what one more message adds to it. `DashInv` carries the screen along. Of the
  transcript it says that entries stand in the order of the lines, under their own
  or at the top of a cut one (`Sound`), and that the line in hand is still there or
  everything of others has been cut from above it (`Underway`); `AppendSound` and
  `CutSound` show that this survives one more entry and one cut, whoever makes it.
  `Header` ties the header to the results of the round, as `TurnAt` ties them to
  where the thread is. `LineInv` is about Windows:
  the codes still in the terminal, applied to the line as it is, make the line that
  the keys pressed so far should have made (`Makes`). A read takes from the front of
  that, a key adds at its end, and two codes that belong together are never parted.

Where a fact is about all sequences (`FlattenJoins`, `MakesFirst`), the induction is
over a set: the lengths at which it fails would have a least one (`WFMin`). The
library's induction theorems, which take an operator, are beyond the provers.

The proofs have also corrected the models. Several `CASE` expressions had guards
that overlap, and TLA+ does not say which arm is taken; TLC takes the first, as the
code does, and the prover showed the value to be open. They are exclusive now
(`WhyUnusable`, `Runs`, `Find`, `OnDate`, `Bodies`). `ConformanceAssumption` - there is an
id to send - came up the same way.

Only model-checked, then: the liveness properties (`RequestsEnd`, `DeathEndsReader`,
`CloseEndsAll`, `CloseEndsReader`, `PromptOrEnd`, `TurnEnds`, `BackToKeys`,
`ScriptEnds`), since the prover has neither fairness nor `ENABLED`, and the findings,
which are counterexamples. Every invariant and every action property of the passing
runs is proved, and so is the refinement of `TicketLedger`.

## 6. Seen, and without a run

- `send()` that races `close()` raises `ValueError`, not the `TransportError` of
  `transport.py:35`.
- A request registered just after the reader failed the table, on a peer that is
  gone, waits for its whole timeout (`client.py:9-11` promises better).
- `open_ticket` may answer status "scheduled" (`SPEC.md:412`: always open), and
  `get_ticket` reads without the lock (`SPEC.md:32-33`).
- `HttpTransport.receive` can say "closed" with a body still behind its `_EOF`
  (`transport.py:40-41`), and the client does not initialise again after a 404.
- A POST that timed out after it was served is posted again: the tool runs twice.
- A client whose handshake failed is never closed; it can trace after the log has
  closed, which `record()` tolerates. So can a reader that `close()` stopped waiting
  for (`client.py:258`), when it comes out of the send of its own reply:
  `main.py:569-570` means to rule that out. `ConnectedAreQuiet` excepts it by `late`.
- `error()` reports a failure "in both layers at once" (`http_server.py:138-140`), but
  the id it echoes may be NaN, or hold half a surrogate pair: `JSONResponse` raises,
  and the client gets a bare 500. So it does at `http_server.py:217`, after the tool
  has run. A ticket with such a text stays in memory, and later answers that
  mention it fail as well. `OwedAnswer` states both exceptions.
- On Windows a typed "à" is taken for the lead of an arrow (`keyboard.py:37,141`): it
  and the next key, Enter too, are lost, where `decode()` promises "the literal
  character it stands for". `LineAsTyped` excepts it by `edited.grave`.
- A tool result that is no object raises out of `execute_tool` (`agent.py:74`:
  "Every failure is reported back"); the turn ends and its calls stay unanswered
  in the session, as they do when `stop_reason` is not `tool_use`. Every later
  request of the conversation carries them, until `/reset`. Through `/call` the
  same result ends the host.
- Two tools of different servers may share a qualified name (`a__b` + `c`, `a` +
  `b__c`); the later one wins.
- An envelope whose id is a JSON array ends the session (the trace of
  `client.py:132` stands outside the `try`, and the logger uses the id as a
  dictionary key; `client.py:136-137` says to drop it and keep the session
  alive). It is the body kind `untraceable` of `HttpSession`.
- An HTTP error without a body passes for an accepted message
  (`http_transport.py:193-198` says it is raised); the request waits for its
  whole timeout. It is the answer `error` with `NoBody` of `HttpSession`. Neither it
  nor the line above breaks a property: a request that waits for its timeout ends,
  and the models have no clock to say that it ends too late. The same goes for
  requests queued behind a POST and its retry (`http_transport.py:157`).
- A screen redrawn by a reader thread may show an older header than the model
  has until the next refresh (`HeaderFollowsTurn` says so by `late`); two reader
  threads may also add to the log panel in another order than to the file
  (`app.py:93-95`), and lose an increment of its counter.
- Ctrl+C while a turn or a command runs is a signal, and ends the program
  (`app.py:258-260` is about a key that is read).
- On POSIX the keys pressed while a turn runs are dropped, by `setraw`'s flush,
  hence the restriction of `LineAsTyped`.
- F3 lists a server as connected when it has died: the registry is not told
  (`app.py:251-252`).
- With `/verbose` on, what the reader threads print while the capture is being
  replaced is lost, and the drain at the start of `run()` finds nothing, the
  capture being newer than the connection messages.
- A user's line can be trimmed from the transcript by its own output when that is
  long (`app.py:147-148`); what is left of it then stands at the top, and
  `OutputBelongs` says so. Two threads may both find the transcript too long and
  both delete.
- `execute_tool` sends no `tool_result` event when it fails, so the transcript has
  a "calling" and no error.
- `build_error` says an id is null only when it could not be recovered; an id of
  the wrong type is echoed as it came (`jsonrpc.py:163`, `protocol.py:122`), in a
  reply its sender's own parser refuses. `RepliesPair` states that exception.
- `open_ticket` keeps a text that UTF-8 cannot encode in memory although its save
  fails, and every later save then fails too; a `state.json` that is not UTF-8
  stops the server at start (`store.py:96-98` is about invalid JSON).

## 7. Not modelled

`config.load_servers` (reads and checks a file once, before anything runs), the
rendering of the dashboard (`dashboard.py`, `theme.py`: frames out of the model,
no state), its log panel and sidebar, the seed queries of the store and a
damaged `state.json`, the numbers the diagnostic tools report, the Anthropic
client beyond renaming exceptions, how the stdio transport builds its command
line, and what the commands of the prompt print.

## 8. Plan

Done: the core (`MCPClient`, both transports and sessions, server, store), `Host`
and `AgentLoop`; the dashboard with its keyboard and configuration; the tools
with their schemas, the stdio server and the conformance tool against both
servers.  Left, in order:

1. `ClassifyAgrees`: that the logger and the parser name every well-formed message
   alike.
2. The store with a damaged `state.json` and the seed queries.
