------------------------------- MODULE Keyboard -------------------------------
(***************************************************************************)
(* host/ui/keyboard.py: what a key press sends, what the reader collects   *)
(* of it, and what it is decoded to.  A code is one character as the       *)
(* terminal sends it; "a" stands for the printable ones a user types, "/"  *)
(* is the one that begins a command, and "grave" is U+00E0, the letter a   *)
(* with a grave accent, whose code msvcrt uses as a lead as well.          *)
(***************************************************************************)
EXTENDS Naturals, Sequences, FiniteSetsExt

Platform == {"windows", "posix"}

(* F3 is to F2 as the log panel is to the sidebar; an arrow stands for the *)
(* special keys the program has no use for.                                *)
Keystroke == {"a", "/", "grave", "enter", "backspace", "interrupt", "eof", "F2", "arrow"}
Typed == {"a", "/"}

(* What a key sends, all at once. *)
Codes(platform, k) ==
    CASE k = "F2"    -> IF platform = "windows" THEN <<"lead", "<">> ELSE <<"esc", "O", "Q">>
      [] k = "arrow" -> IF platform = "windows" THEN <<"lead", "H">> ELSE <<"esc", "[", "A">>
      [] k = "grave" -> <<"lead">>
      [] OTHER       -> <<k>>

Printable == Typed \cup {"<", "H", "O", "Q", "[", "A"}
Control == {"enter", "backspace", "interrupt", "eof"}
PosixSequences == {<<"esc", "O", "Q">>}
LongestSequence == 6

Mut_Decode(sequence) ==
    CASE sequence \in PosixSequences -> "toggle_log"
      [] sequence[1] = "lead" ->
            IF sequence[Len(sequence)] = "<" THEN "toggle_log" ELSE sequence[Len(sequence)]
      [] sequence[1] \in Control \cup Printable -> sequence[1]
      [] OTHER -> "ignore"

(* decode() *)
Decode(sequence) ==
    CASE sequence \in PosixSequences -> "toggle_log"
      [] sequence[1] = "lead" ->
            IF Len(sequence) > 1 /\ sequence[2] = "<" THEN "toggle_log" ELSE "ignore"
      [] sequence[1] \in Control -> sequence[1]
      [] Len(sequence) = 1 /\ sequence[1] \in Printable -> sequence[1]
      [] OTHER -> "ignore"

(* apply() *)
Apply(buffer, key) ==
    CASE key = "backspace" -> SubSeq(buffer, 1, Len(buffer) - 1)
      [] key \in Printable -> Append(buffer, key)
      [] OTHER -> buffer

(* _read_posix() behind an escape: how many more codes it collects, out of *)
(* those Python holds and those the terminal does.  It goes on as long as  *)
(* the terminal has some, though it takes Python's first; the last of      *)
(* these makes Python take all that the terminal has.                      *)
MoreCodes(held, waiting) ==
    IF waiting = <<>> THEN 0
    ELSE LET next == held \o waiting
         IN  Min({Len(held) + 1} \cup
                 {n \in 1 .. Len(held) : \/ <<"esc">> \o SubSeq(next, 1, n) \in PosixSequences
                                         \/ n + 1 > LongestSequence})
=============================================================================
