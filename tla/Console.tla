------------------------------ MODULE Console ------------------------------
(***************************************************************************)
(* The text terminal of tty.c and, on top of it, the kernel debugger of    *)
(* kdb.c: its line editor and its history.  The debugger runs with         *)
(* interrupts off and polls the keyboard, so that nothing else prints      *)
(* while it does.  The contents of a command's output do not matter: it is *)
(* any text of Outputs.                                                    *)
(***************************************************************************)
EXTENDS Integers, Sequences, SequencesExt, Functions

CONSTANTS W, H,            \* VGA_WIDTH, VGA_HEIGHT
          MAX,             \* sizeof(line) in kdb_enter
          HIST_SIZE,
          Chars,           \* what the keys of the debugger produce
          Banner, Prompt,  \* what kdb_enter prints
          Outputs,         \* what a command prints, line by line
          Texts            \* what the kernel and its programs print

Blank == " "
NL == "newline"
BS == "backspace"
TAB == "tab"

ASSUME ConsoleAssumption ==
  /\ W \in Nat \ {0} /\ H \in Nat \ {0} /\ HIST_SIZE \in Nat \ {0}
  /\ MAX \in Nat \ {0} /\ Len(Prompt) + 4 * (MAX - 1) <= W * (H - 1)
  /\ Range(Prompt) \cap {NL, BS, TAB} = {} /\ Chars \cap {NL, BS} = {}
  /\ \A s \in Outputs \cup {Banner} : BS \notin Range(s)
  /\ \A s \in Texts \cup Outputs \cup {Banner, Prompt} : s \in Seq(Range(s))

VARIABLES tty,         \* the terminal: cell, row, column, anchor; and above, the
                       \* rows that were above the debugger when it was entered
                       \* and that have not been scrolled away (a history variable)
          mode,        \* "kernel", or "kdb" inside kdb_readline
          line,        \* the characters before buf[i]
          hpos,        \* the history entry on the line, or -1
          ext,         \* the last scancode was the prefix of an extended key
          hist, hist_count, hist_next,
          said,        \* history variable: the lines entered, newest first
          left         \* history variable: cells after the prompt that no character
                       \* of the line accounts for, counted up to W * H

vars == <<tty, mode, line, hpos, ext, hist, hist_count, hist_next, said, left>>

-----------------------------------------------------------------------------
(* tty.c *)

BlankRow == [x \in 1 .. W |-> Blank]

AnchorStays(a) == a                                          \* (mutant: anchor not moved)
AnchorAfterScroll(a) == IF a > 0 THEN a - 1 ELSE a

terminal_scroll(t) ==
  [t EXCEPT !.cell = Append(Tail(@), BlankRow),
            !.anchor = AnchorAfterScroll(@),
            !.above = IF @ = <<>> THEN @ ELSE Tail(@)]

\* The row below, after a newline or the last column.
RunsOff(t) == [t EXCEPT !.column = 0, !.row = @ + 1]         \* (mutant: no scrolling)
RowBelow(t) ==
  IF t.row + 1 = H
  THEN [terminal_scroll(t) EXCEPT !.column = 0, !.row = H - 1]
  ELSE [t EXCEPT !.column = 0, !.row = @ + 1]

terminal_putentryat(t, c) == [t EXCEPT !.cell[t.row + 1][t.column + 1] = c]

Glyph(t, c) ==
  LET u == terminal_putentryat(t, c)
  IN  IF u.column + 1 = W THEN RowBelow(u) ELSE [u EXCEPT !.column = @ + 1]

\* The cursor goes back over the end of a row; at the top left it stays.
StopsAtMargin(t) ==                                          \* (mutant: not to the row above)
  IF t.column > 0 THEN terminal_putentryat([t EXCEPT !.column = @ - 1], Blank) ELSE t
Backspace(t) ==
  CASE t.column > 0 -> terminal_putentryat([t EXCEPT !.column = @ - 1], Blank)
    [] t.column = 0 /\ t.row > 0 ->
         terminal_putentryat([t EXCEPT !.row = @ - 1, !.column = W - 1], Blank)
    [] OTHER -> t

terminal_putchar(t, c) ==
  CASE c = NL  -> RowBelow(t)
    [] c = BS  -> Backspace(t)
    [] c = TAB -> Glyph(Glyph(Glyph(Glyph(t, Blank), Blank), Blank), Blank)
    [] OTHER   -> Glyph(t, c)

\* after[i] is the terminal after i characters of s.
terminal_write(t, s) ==
  LET after[i \in 0 .. Len(s)] == IF i = 0 THEN t ELSE terminal_putchar(after[i - 1], s[i])
  IN  after[Len(s)]

terminal_set_anchor(t) == [t EXCEPT !.anchor = t.row, !.above = SubSeq(t.cell, 1, t.row)]

terminal_clear_to_anchor(t) ==
  [t EXCEPT !.cell = [y \in 1 .. H |-> IF y > t.anchor THEN BlankRow ELSE @[y]],
            !.row = t.anchor, !.column = 0]

terminal_initialize ==
  [cell |-> [y \in 1 .. H |-> BlankRow], row |-> 0, column |-> 0, anchor |-> 0, above |-> <<>>]

-----------------------------------------------------------------------------
(* kdb.c *)

\* pos 0 is the most recent line.
FromNext(pos) == hist[(hist_next - pos + HIST_SIZE * 2) % HIST_SIZE]  \* (mutant: off by one)
hist_get(pos) == hist[(hist_next - 1 - pos + HIST_SIZE * 2) % HIST_SIZE]

Remembered == line # <<>> /\ ~(hist_count > 0 /\ hist_get(0) = line)

hist_add ==
  IF Remembered
  THEN /\ hist' = [hist EXCEPT ![hist_next] = line]
       /\ hist_next' = (hist_next + 1) % HIST_SIZE
       /\ hist_count' = IF hist_count < HIST_SIZE THEN hist_count + 1 ELSE hist_count
  ELSE UNCHANGED <<hist, hist_next, hist_count>>

\* The cells of a line on the screen, and what is left of them when every
\* character is erased with one backspace.
CellsOf(c) == IF c = TAB THEN <<Blank, Blank, Blank, Blank>> ELSE <<c>>
Cells(s) ==
  LET cells[i \in 0 .. Len(s)] == IF i = 0 THEN <<>> ELSE cells[i - 1] \o CellsOf(s[i])
  IN  cells[Len(s)]
LeftOver(s) ==
  left' = LET n == left + Len(Cells(s)) - Len(s) IN IF n > W * H THEN W * H ELSE n

\* The prompt, and the start of kdb_readline.
Ready(t) ==
  /\ tty' = terminal_write(t, Prompt)
  /\ mode' = "kdb" /\ line' = <<>> /\ hpos' = -1 /\ ext' = FALSE /\ left' = 0

Init ==
  /\ tty = terminal_initialize /\ mode = "kernel" /\ line = <<>>
  /\ hpos = -1 /\ ext = FALSE
  /\ hist = [i \in 0 .. HIST_SIZE - 1 |-> <<>>] /\ hist_count = 0 /\ hist_next = 0
  /\ said = <<>> /\ left = 0

\* The kernel, or a program through the write system call.
print(s) ==
  /\ mode = "kernel"
  /\ tty' = terminal_write(tty, s)
  /\ UNCHANGED <<mode, line, hpos, ext, hist, hist_count, hist_next, said, left>>

kdb_enter ==
  /\ mode = "kernel"
  /\ Ready(terminal_write(terminal_set_anchor(tty), Banner))
  /\ UNCHANGED <<hist, hist_count, hist_next, said>>

\* The table kdb_keys; the arrows are extended keys.
Keys == Chars \cup {NL, BS}

\* kdb_getchar answers with key k.
kdb_getchar(k) == mode = "kdb" /\ ext = (k \notin Keys) /\ ext' = FALSE

\* It reads a prefix; or, after one, a release or a key it does not know.
scan_prefix ==
  /\ mode = "kdb" /\ ext' = TRUE
  /\ UNCHANGED <<tty, mode, line, hpos, hist, hist_count, hist_next, said, left>>

scan_ignored ==
  /\ mode = "kdb" /\ ext' = FALSE
  /\ UNCHANGED <<tty, mode, line, hpos, hist, hist_count, hist_next, said, left>>

key_char(c) ==
  /\ kdb_getchar(c) /\ Len(line) < MAX - 1
  /\ line' = Append(line, c)
  /\ tty' = terminal_putchar(tty, c)
  /\ UNCHANGED <<mode, hpos, hist, hist_count, hist_next, said, left>>

key_backspace ==
  /\ kdb_getchar(BS) /\ line # <<>>
  /\ line' = Front(line)
  /\ tty' = terminal_putchar(tty, BS)
  /\ LeftOver(<<Last(line)>>)
  /\ UNCHANGED <<mode, hpos, hist, hist_count, hist_next, said>>

\* The line is erased and replaced by an entry of the history, or by nothing.
Replace(pos) ==
  LET h == IF pos >= 0 THEN hist_get(pos) ELSE <<>>
  IN  /\ hpos' = pos /\ line' = h
      /\ tty' = terminal_write(tty, [j \in 1 .. Len(line) |-> BS] \o h)
      /\ LeftOver(line)
      /\ UNCHANGED <<mode, hist, hist_count, hist_next, said>>

key_up == kdb_getchar("up") /\ hpos < hist_count - 1 /\ Replace(hpos + 1)
key_down == kdb_getchar("down") /\ hist_count > 0 /\ hpos >= 0 /\ Replace(hpos - 1)

\* Enter ends the line on the screen and in the buffer.
Entered == terminal_putchar(tty, NL)

\* What a command prints: help, a listing, a file, or that it is unknown.
Printed(t) == {terminal_write(t, s) : s \in Outputs}

\* The rest of kdb_enter's loop, once the line is complete: any command may have
\* been typed, and an empty line is none.
key_enter ==
  /\ kdb_getchar(NL)
  /\ hist_add
  /\ said' = IF line = <<>> \/ (said # <<>> /\ Head(said) = line) THEN said
             ELSE <<line>> \o (IF Len(said) = HIST_SIZE THEN Front(said) ELSE said)
  /\ LET t == Entered
     IN  \/ Ready(t)
         \/ line # <<>> /\ \E u \in Printed(t) : Ready(u)
         \/ line # <<>> /\ Ready(terminal_clear_to_anchor(t))
         \/ line # <<>> /\ tty' = t /\ mode' = "kernel" /\ line' = <<>> /\ hpos' = -1 /\ left' = 0

Next ==
  \/ \E s \in Texts : print(s)
  \/ kdb_enter
  \/ \E c \in Chars : key_char(c)
  \/ scan_prefix \/ scan_ignored \/ key_backspace \/ key_up \/ key_down \/ key_enter

Spec == Init /\ [][Next]_vars

-----------------------------------------------------------------------------
\* The cursor, the anchor and the indices of the history are always inside the
\* screen, the line buffer and the ring: no store of the terminal or of the
\* debugger is outside of its array.
InBounds ==
  /\ tty.row \in 0 .. H - 1 /\ tty.column \in 0 .. W - 1 /\ tty.anchor \in 0 .. H - 1
  /\ Len(line) < MAX /\ hpos \in -1 .. hist_count - 1
  /\ hist_count \in 0 .. HIST_SIZE /\ hist_next \in 0 .. HIST_SIZE - 1

\* The cell n places after the top left.
CellAt(n) == tty.cell[(n \div W) + 1][(n % W) + 1]
Cursor == tty.row * W + tty.column

\* What stands before the cursor is the prompt and exactly the line that Enter
\* would run, over the ends of rows, scrolling, erasing and recalling, as long as
\* no tab is erased; once one was, three cells are left of each, and erasing still
\* never reaches the prompt.  Nothing stands at or after the cursor.
Stands(text, end) ==
  \A j \in 1 .. Len(text) : CellAt(end - Len(text) + j - 1) = text[j]
LineShown ==
  /\ \A n \in Cursor .. W * H - 1 : CellAt(n) = Blank
  /\ mode = "kdb" =>
       LET end == Cursor - Len(Cells(line)) - left     \* of the prompt
       IN  /\ left = 0 => Len(Prompt) <= end /\ Stands(Prompt \o Cells(line), Cursor)
           /\ Len(Prompt) <= end => Stands(Prompt, end)

\* The rows above the anchor are the ones that stood above the debugger when it
\* was entered, less those that scrolled away: the clear command, which blanks the
\* rows from the anchor down, leaves that text alone, and clears all the rest.
AboveKept == mode = "kdb" => SubSeq(tty.cell, 1, tty.anchor) = tty.above

\* The history is the last lines entered, newest first, without empty lines and
\* immediate repetitions, also when the ring has wrapped around.
HistoryOrder == said = [p \in 1 .. hist_count |-> hist_get(p - 1)]
=============================================================================
