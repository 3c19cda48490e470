------------------------------ MODULE Dashboard ------------------------------
(***************************************************************************)
(* host/ui/app.py: the key loop, the commands and turns it starts, what    *)
(* the Cli prints into its captured console, and the screen, which reader  *)
(* threads redraw as well, as stderr threads add to the transcript.  The   *)
(* turn itself is AgentLoop, whose events end up in the header and in the  *)
(* transcript.                                                             *)
(*                                                                         *)
(* Which command a line names is left open, and so is what it prints.  The *)
(* log panel, the sidebar and the width of things are left out.            *)
(***************************************************************************)
EXTENDS AgentLoop, Keyboard, Configuration

CONSTANTS MaxEntries,         \* how many entries the transcript may have, ...
          CutEntries,         \* ... and how many say() then deletes
          MAX_CAPTURED_LINES,
          Pressed,            \* bound: the keys the user has
          MaxKeys,            \* bound: how many times one is pressed, ...
          MaxAhead,           \* ... while the terminal holds fewer codes than that
          MaxPrinted,         \* bound: lines a command prints
          MaxStderr           \* bound: lines of stderr

ASSUME DashAssumption == /\ MaxEntries \in Nat /\ CutEntries \in 1 .. MaxEntries
                         /\ MAX_CAPTURED_LINES \in Nat
                         /\ Pressed \subseteq Keystroke
                         /\ MaxKeys \in Nat /\ MaxAhead \in Nat /\ MaxPrinted \in Nat /\ MaxStderr \in Nat

VARIABLES
    platform,     \* sys.platform, as far as the keyboard is concerned
    agent,        \* Cli.agent is not None
    usable,       \* is_usable of the configured backend
    reason,       \* why_unusable() has one
    main,         \* where the main thread is
    terminal,     \* codes the terminal holds
    stdin,        \* codes Python has taken from it and not returned yet
    input_buffer,
    status,       \* the header's TurnState
    capture,      \* what was printed into the capture: for each line, on whose behalf
    showing,      \* the lines show_captured() has yet to say
    transcript,
    cut,          \* entries of it have been deleted
    stderr,       \* lines that came from servers, and the cuts their threads have to make
    frame,        \* the header on the screen
    draw,         \* the header a reader thread is about to put there
    late,         \* it was a reader thread that put it there last
    lines,        \* the lines submitted so far
    edited        \* what a line editor makes of the keys pressed, how many they were, and
                  \* whether "grave" was one of them

config == <<agent, usable, reason>>
screen == <<frame, draw, late>>
keyboard == <<platform, terminal, stdin, edited>>
conversation == <<transcript, cut, stderr>>
dashVars == <<at, messages, iteration, todo, results, turns, platform, agent, usable,
              reason, main, terminal, stdin, input_buffer, status, capture, showing,
              transcript, cut, stderr, frame, draw, late, lines, edited>>

None == "none"
Prompting == {"setraw", "key", "escape"}
Again == IF platform = "posix" THEN "setraw" ELSE "key"

DashInit ==
    /\ AgentInit
    /\ platform \in Platform
    /\ \E env \in Environment, connected \in BOOLEAN :
           /\ usable = IsUsable(LoadLLM(env))
           /\ reason = (WhyUnusable(LoadLLM(env)) # NoReason)
           /\ agent = (usable /\ connected)
    /\ main = Again
    /\ terminal = <<>> /\ stdin = <<>> /\ input_buffer = <<>>
    /\ status = "idle" /\ frame = "idle" /\ draw = None /\ late = FALSE
    /\ capture = <<>> /\ showing = <<>> /\ lines = <<>>
    /\ transcript = <<>> /\ cut = FALSE /\ stderr = [lines |-> 0, cuts |-> 0]
    /\ edited = [buffer |-> <<>>, lines |-> <<>>, keys |-> 0, grave |-> FALSE]

-----------------------------------------------------------------------------
(* The user presses a key.  While the program is not reading one, the      *)
(* terminal turns Ctrl+C into a signal, which ends it: KeyboardInterrupt   *)
(* is nobody's to catch.                                                   *)
Edit(buffer, k) ==
    CASE k \in Typed \cup {"grave"} -> Append(buffer, k)
      [] k = "backspace" -> SubSeq(buffer, 1, Len(buffer) - 1)
      [] k \in {"enter", "interrupt", "eof"} -> <<>>
      [] OTHER -> buffer

Press(k) ==
    /\ main # "over" /\ edited.keys < MaxKeys /\ Len(terminal) < MaxAhead
    /\ edited' = [buffer |-> Edit(edited.buffer, k), keys |-> edited.keys + 1,
                  grave |-> edited.grave \/ k = "grave",
                  lines |-> IF k = "enter" /\ edited.buffer # <<>>
                            THEN Append(edited.lines, edited.buffer) ELSE edited.lines]
    /\ IF k = "interrupt" /\ main \notin {"key", "escape"}
       THEN main' = "over" /\ status' = "idle" /\ UNCHANGED terminal
       ELSE terminal' = terminal \o Codes(platform, k) /\ UNCHANGED <<main, status>>
    /\ UNCHANGED <<agentVars, platform, config, stdin, input_buffer, capture, showing,
                   conversation, screen, lines>>

(* refresh(), on the main thread, which alone changes the header. *)
Refresh == frame' = status' /\ late' = FALSE /\ UNCHANGED draw

(* What run() does with a key. *)
Handle(key) ==
    /\ CASE key = "enter" ->
                lines' = Append(lines, input_buffer) /\ input_buffer' = <<>> /\ main' = "submit"
         [] key \in {"interrupt", "eof"} ->
                /\ input_buffer' = <<>> /\ UNCHANGED lines
                /\ main' = IF input_buffer = <<>> THEN "over" ELSE Again
         [] OTHER ->
                input_buffer' = Apply(input_buffer, key) /\ main' = Again /\ UNCHANGED lines
    /\ UNCHANGED <<agentVars, platform, config, status, capture, showing, conversation, edited>>
    /\ Refresh

(* _read_windows(): behind a lead it waits for one more code, whatever key *)
(* that is of.                                                             *)
ReadWindows ==
    /\ main = "key" /\ platform = "windows" /\ terminal # <<>>
    /\ LET n == IF Head(terminal) = "lead" THEN 2 ELSE 1
       IN  /\ n <= Len(terminal)
           /\ Handle(Decode(SubSeq(terminal, 1, n)))
           /\ terminal' = SubSeq(terminal, n + 1, Len(terminal))
    /\ UNCHANGED stdin

(* tty.setraw() drops what the terminal holds. *)
SetRaw ==
    /\ main = "setraw" /\ main' = "key" /\ terminal' = <<>>
    /\ UNCHANGED <<agentVars, platform, config, stdin, input_buffer, status, capture,
                   showing, conversation, screen, lines, edited>>

(* _read_posix(): read(1) takes all there is and returns the first of it;  *)
(* behind an escape, select() tells only of what has not been taken yet.   *)
ReadPosix ==
    /\ main = "key" /\ platform = "posix" /\ stdin \o terminal # <<>>
    /\ LET held == IF stdin = <<>> THEN terminal ELSE stdin
       IN  /\ terminal' = IF stdin = <<>> THEN <<>> ELSE terminal
           /\ stdin' = Tail(held)
           /\ IF Head(held) = "esc"
              THEN /\ main' = "escape"
                   /\ UNCHANGED <<agentVars, platform, config, input_buffer, status, capture,
                                  showing, conversation, screen, lines, edited>>
              ELSE Handle(Decode(<<Head(held)>>))

ReadEscape ==
    /\ main = "escape"
    /\ LET n == MoreCodes(stdin, terminal)
           held == IF n > Len(stdin) THEN stdin \o terminal ELSE stdin
       IN  /\ Handle(Decode(<<"esc">> \o SubSeq(held, 1, n)))
           /\ stdin' = SubSeq(held, n + 1, Len(held))
           /\ terminal' = IF n > Len(stdin) THEN <<>> ELSE terminal

-----------------------------------------------------------------------------
(* say(): the transcript grows, and loses its oldest entries when it is    *)
(* too long.                                                               *)
WithoutOldest(entries) == SubSeq(entries, CutEntries + 1, Len(entries))

SayEntry(entry) ==
    LET longer == Append(transcript, entry)
    IN  /\ transcript' = IF Len(longer) > MaxEntries THEN WithoutOldest(longer) ELSE longer
        /\ cut' = (cut \/ Len(longer) > MaxEntries)
        /\ UNCHANGED stderr

(* submit().  A new line is the last of lines; This stands for it. *)
This == Len(lines)
Line == lines[This]
Said(role) == [role |-> role, of |-> {This}]
Say(role) == SayEntry(Said(role))

Main(from, to) == main = from /\ main' = to
Unread == UNCHANGED <<platform, config, terminal, stdin, input_buffer, edited>>

(* Nothing, /quit, another command, or a question. *)
Submit ==
    /\ main = "submit" /\ Unread /\ UNCHANGED showing
    /\ \/ /\ Line = <<>> /\ main' = Again /\ lines' = SubSeq(lines, 1, This - 1)
          /\ UNCHANGED <<status, capture, conversation, screen, agentVars>>
       \/ /\ Line # <<>> /\ Head(Line) = "/" /\ Say("user") /\ UNCHANGED <<status, lines, agentVars>>
          /\ Refresh
          /\ \/ main' = "over" /\ UNCHANGED capture
             \/ main' = "command" /\ capture' = <<>>
       \/ /\ Line # <<>> /\ Head(Line) # "/" /\ Say("user") /\ UNCHANGED <<lines, agentVars>>
          /\ main' = "ask" /\ capture' = <<>> /\ status' = "thinking" /\ Refresh

(* The Cli prints: what, and because of which line. *)
Printed(what) == [what |-> what, of |-> This]
Captured(what) == capture' = Append(capture, Printed(what))

(* handle_command(): it prints, or does not, or raises what nobody catches *)
(* before the program ends.  Only /reset changes the state this module has.*)
Command ==
    /\ Unread /\ UNCHANGED <<status, showing, conversation, screen, lines>>
    /\ \/ /\ Main("command", "show") /\ UNCHANGED agentVars
          /\ \E n \in 0 .. MaxPrinted : capture' = capture \o [k \in 1 .. n |-> Printed("output")]
       \/ Main("command", "show") /\ Reset /\ Captured("output")
       \/ Main("command", "over") /\ UNCHANGED <<capture, agentVars>>

(* No more lines than that, and one that says how many are missing. *)
Shortened(captured) ==
    IF Len(captured) > MAX_CAPTURED_LINES
    THEN Append(SubSeq(captured, 1, MAX_CAPTURED_LINES), Printed("more")) ELSE captured

Mut_ShowCaptured ==
    /\ Main("show", "say") /\ Unread
    /\ showing' = Shortened(capture) /\ UNCHANGED capture
    /\ UNCHANGED <<status, conversation, screen, lines, agentVars>>

(* show_captured(): what has been captured is taken out, ...               *)
ShowCaptured ==
    /\ Main("show", "say") /\ Unread
    /\ showing' = Shortened(capture) /\ capture' = <<>>
    /\ UNCHANGED <<status, conversation, screen, lines, agentVars>>

(* ... and each line is an entry. *)
ShowLine ==
    /\ Main("say", "say") /\ Unread /\ showing # <<>> /\ showing' = Tail(showing)
    /\ SayEntry([role |-> "output", of |-> {Head(showing).of}])
    /\ UNCHANGED <<status, capture, lines, agentVars>> /\ Refresh

Shown ==
    /\ Main("say", Again) /\ Unread /\ showing = <<>>
    /\ UNCHANGED <<status, capture, showing, conversation, screen, lines, agentVars>>

(* ask() *)
Disabled ==
    /\ Main("ask", "answered") /\ ~agent /\ Unread
    /\ Captured(IF reason THEN "disabled" ELSE "no_server")
    /\ UNCHANGED <<status, showing, conversation, screen, lines, agentVars>>

(* run_turn() begins, with the event model_request. *)
StartTurn ==
    /\ Main("ask", "turn") /\ agent /\ Ask /\ Unread
    /\ status' = "thinking" /\ Refresh
    /\ UNCHANGED <<capture, showing, conversation, lines>>

(* A step of the turn; when it is over, ask() prints the answer, if there  *)
(* is one, or the exception.                                               *)
InTurn(pc) ==
    /\ main = pc /\ main' = IF at' = "prompt" THEN "answered" ELSE "turn"
    /\ Unread /\ UNCHANGED <<showing, lines>>

Mut_TurnFails ==
    /\ ModelFails /\ main = "turn" /\ main' = "turn" /\ Unread
    /\ UNCHANGED <<capture, showing, status, conversation, screen, lines>>

TurnFails ==
    /\ ModelFails /\ InTurn("turn") /\ Captured("error")
    /\ UNCHANGED <<status, conversation, screen>>

TurnResponds ==
    /\ \E calls \in Responses, stop_reason \in StopReason : Respond(calls, stop_reason)
    /\ InTurn("turn") /\ (UNCHANGED capture \/ (at' = "prompt" /\ Captured("answer")))
    /\ UNCHANGED <<status, conversation, screen>>

(* The event tool_call: a tool is about to run. *)
TurnCallsTool ==
    /\ Main("turn", "tool") /\ at = "tools" /\ todo # <<>> /\ Unread
    /\ status' = "calling" /\ Say("tool") /\ Refresh
    /\ UNCHANGED <<capture, showing, lines, agentVars>>

(* It has run: tool_result, which may say isError.                         *)
TurnRunsTool ==
    /\ ExecuteTool /\ InTurn("tool")
    /\ UNCHANGED <<capture, status>> /\ Refresh
    /\ Say("error") \/ UNCHANGED conversation

TurnRaises ==
    /\ ToolRaises /\ InTurn("tool") /\ Captured("error")
    /\ UNCHANGED <<status, conversation, screen>>

Mut_TurnGoesOn ==
    /\ AddToolResults /\ InTurn("turn")
    /\ IF at' = "prompt" THEN UNCHANGED status /\ Say("error") /\ Captured("answer") /\ Refresh
                         ELSE UNCHANGED <<capture, status, conversation, screen>>

(* model_request, or max_iterations *)
TurnGoesOn ==
    /\ AddToolResults /\ InTurn("turn")
    /\ IF at' = "prompt"
       THEN UNCHANGED status /\ Say("error") /\ Captured("answer") /\ Refresh
       ELSE status' = "thinking" /\ Refresh /\ UNCHANGED <<capture, conversation>>

Turn == TurnFails \/ TurnResponds \/ TurnCallsTool \/ TurnRunsTool \/ TurnRaises \/ TurnGoesOn

(* The rest of submit(): the header is idle again, and what was captured   *)
(* is one entry.                                                           *)
Answered ==
    /\ Main("answered", Again) /\ Unread
    /\ status' = "idle" /\ Refresh /\ capture' = <<>>
    /\ IF capture = <<>> THEN UNCHANGED conversation
       ELSE SayEntry([role |-> "assistant", of |-> {capture[n].of : n \in 1 .. Len(capture)}])
    /\ UNCHANGED <<showing, lines, agentVars>>

-----------------------------------------------------------------------------
(* A reader thread has logged a message: it builds the layout, and then    *)
(* puts it on the screen.  So does a stderr thread.  (Bound: one of them   *)
(* between two refreshes; the next could only show the header as it is.)   *)
BuildLayout ==
    /\ main # "over" /\ draw = None /\ ~late /\ draw' = status
    /\ UNCHANGED <<agentVars, keyboard, config, main, input_buffer, status, capture, showing,
                   conversation, frame, late, lines>>

Update ==
    /\ draw # None /\ frame' = draw /\ late' = TRUE /\ draw' = None
    /\ UNCHANGED <<agentVars, keyboard, config, main, input_buffer, status, capture, showing,
                   conversation, lines>>

(* on_stderr(): an entry of no line.  Having seen that the transcript is   *)
(* too long, the thread deletes entries only later, when another one may   *)
(* have done so already.                                                   *)
StderrSays ==
    /\ main # "over" /\ stderr.lines < MaxStderr
    /\ transcript' = Append(transcript, [role |-> "output", of |-> {}])
    /\ stderr' = [lines |-> stderr.lines + 1,
                  cuts |-> stderr.cuts + IF Len(transcript') > MaxEntries THEN 1 ELSE 0]
    /\ UNCHANGED <<agentVars, keyboard, config, main, input_buffer, status, capture, showing,
                   cut, screen, lines>>

StderrCuts ==
    /\ stderr.cuts > 0 /\ stderr' = [stderr EXCEPT !.cuts = @ - 1]
    /\ transcript' = WithoutOldest(transcript) /\ cut' = TRUE
    /\ UNCHANGED <<agentVars, keyboard, config, main, input_buffer, status, capture, showing,
                   screen, lines>>

ReadKey == ReadWindows \/ SetRaw \/ ReadPosix \/ ReadEscape

Work == \/ Submit \/ Command \/ ShowCaptured \/ ShowLine \/ Shown
        \/ Disabled \/ StartTurn \/ Turn \/ Answered

OtherThreads == BuildLayout \/ Update \/ StderrSays \/ StderrCuts

DashNext == (\E k \in Pressed : Press(k)) \/ ReadKey \/ Work \/ OtherThreads

(* The main thread runs on, and its posts and tool calls end (TurnEnds,    *)
(* RequestsEnd); the user and the other threads may do nothing.            *)
DashSpec == DashInit /\ [][DashNext]_dashVars /\ WF_dashVars(Work)

-----------------------------------------------------------------------------
(* "A stray escape sequence must never end up inside the text the user is  *)
(* typing": the line holds only what the user typed.                       *)
NoStrayEscape == \A n \in 1 .. Len(input_buffer) : input_buffer[n] \in Typed

AllRead == platform = "windows" /\ main = "key" /\ terminal = <<>>
TypedLine == input_buffer = edited.buffer /\ lines = edited.lines

(* Where the keyboard is read by msvcrt, the lines submitted and the one   *)
(* in the footer are what a plain line editor makes of the keys pressed:   *)
(* those pressed while a turn or a command runs are neither lost nor       *)
(* repeated, and no special key leaves a character behind - as long as the *)
(* one letter that looks like a special key was not typed.                 *)
LineAsTyped == AllRead /\ ~edited.grave => TypedLine

(* "The header answers is it working": it is idle at the prompt, however   *)
(* the last turn ended; in a turn it is thinking until the first tool of a *)
(* round is called, and calling from then until the model is asked again;  *)
(* and so is the screen, unless another thread drew it last.               *)
HeaderFollowsTurn ==
    /\ main \in Prompting => status = "idle"
    /\ main = "turn" => status = IF results = <<>> THEN "thinking" ELSE "calling"
    /\ main = "tool" => status = "calling"
    /\ main \in Prompting \cup {"turn", "tool"} => frame = status \/ late

EntriesInOrder ==
    \A i, j \in 1 .. Len(transcript) :
        i < j => \A m \in transcript[i].of, n \in transcript[j].of : m <= n

EntriesHeaded ==
    \A j \in 1 .. Len(transcript) :
        transcript[j].role # "user" /\ transcript[j].of # {} =>
            \/ \E i \in 1 .. j - 1 : transcript[i] = [role |-> "user", of |-> transcript[j].of]
            \/ cut /\ \A i \in 1 .. j - 1 : transcript[i].of \in {{}, transcript[j].of}

NothingHeldBack ==
    /\ main \in Prompting => capture = <<>> /\ showing = <<>>
    /\ \A n \in 1 .. Len(capture) : capture[n].what = "no_server" => usable

(* What a line makes the program say stands under it, before the next one, *)
(* also when the top of the transcript has been cut off in its middle; at  *)
(* the prompt nothing it printed is still held back; and "No server is     *)
(* connected" is said only when the configuration is not to blame.         *)
OutputBelongs == EntriesInOrder /\ EntriesHeaded /\ NothingHeldBack

(* Whatever a line starts, the loop comes back to the keyboard or ends.    *)
BackToKeys == main \notin Prompting ~> main \in Prompting \cup {"over"}
=============================================================================
