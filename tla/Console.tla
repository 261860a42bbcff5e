------------------------------- MODULE Console -------------------------------
(***************************************************************************)
(* The terminal of kernel/core/kernel.c: a cursor over the text screen,    *)
(* which goes back to the first row after the last one and clears no row.  *)
(* Colours never change and are left out.                                  *)
(***************************************************************************)
EXTENDS Integers, Sequences

CONSTANTS
    VGA_WIDTH, VGA_HEIGHT,  \* 80 and 25
    Characters,             \* what is written, but for NewLine
    Space, NewLine,         \* ' ' and '\n'
    Texts,                  \* what terminal_write gets
    Banner                  \* what kernel_main writes

ASSUME ConsoleAssumption ==
    /\ VGA_WIDTH \in Nat \ {0} /\ VGA_HEIGHT \in Nat \ {0}
    /\ NewLine \notin Characters \cup {Space}
    /\ Texts \cup {Banner} \subseteq Seq(Characters \cup {NewLine})

VARIABLES
    terminal_row, terminal_column, terminal_buffer,
    line,       \* observer: the line that is being written
    lines       \* observer: the lines before it, the last VGA_HEIGHT - 1 of them

console_vars == <<terminal_row, terminal_column, terminal_buffer, line, lines>>

Rows == 0 .. VGA_HEIGHT - 1
Columns == 0 .. VGA_WIDTH - 1

ConsoleTypeOK ==
    /\ terminal_row \in Rows /\ terminal_column \in Columns
    /\ terminal_buffer \in [Rows -> [Columns -> Characters \cup {Space}]]
    /\ line \in Seq(Characters) /\ Len(line) = terminal_column
    /\ lines \in Seq(Seq(Characters)) /\ Len(lines) < VGA_HEIGHT

Cleared == [y \in Rows |-> [x \in Columns |-> Space]]

\* The state after terminal_initialize.
Blank ==
    [row |-> 0, column |-> 0, buffer |-> Cleared, line |-> << >>, lines |-> << >>]

ConsoleInit ==
    /\ terminal_row = 0 /\ terminal_column = 0 /\ terminal_buffer = Cleared
    /\ line = << >> /\ lines = << >>

-----------------------------------------------------------------------------
\* Mutant: a new line starts below the end of the last one.
ColumnKept(t) == t.column

ColumnOfNewLine(t) == 0

\* The row below, or the first one.
RowBelow(row) == IF row + 1 = VGA_HEIGHT THEN 0 ELSE row + 1

LastOnes(s) ==
    SubSeq(s, IF Len(s) < VGA_HEIGHT THEN 1 ELSE Len(s) - VGA_HEIGHT + 2, Len(s))

\* The cursor leaves a row for the given column of the one below.
NextRow(t, column) ==
    [t EXCEPT !.row = RowBelow(@), !.column = column,
              !.lines = LastOnes(Append(@, t.line)), !.line = << >>]

terminal_putchar(t, c) ==
    IF c = NewLine THEN NextRow(t, ColumnOfNewLine(t))
    ELSE LET put == [t EXCEPT !.buffer[t.row][t.column] = c, !.line = Append(@, c)]
         IN  IF t.column + 1 = VGA_WIDTH THEN NextRow(put, 0)
             ELSE [put EXCEPT !.column = @ + 1]

Terminal ==
    [row |-> terminal_row, column |-> terminal_column, buffer |-> terminal_buffer,
     line |-> line, lines |-> lines]

\* A text is written character by character.
Written(t, text) ==
    LET after[n \in 0 .. Len(text)] ==
            IF n = 0 THEN t ELSE terminal_putchar(after[n - 1], text[n])
        new == after[Len(text)]
    IN
    /\ terminal_row' = new.row /\ terminal_column' = new.column
    /\ terminal_buffer' = new.buffer
    /\ line' = new.line /\ lines' = new.lines

terminal_write(text) == Written(Terminal, text)

\* terminal_initialize and the banner, in one go.
kernel_main == Written(Blank, Banner)

ConsoleNext == kernel_main \/ \E text \in Texts : terminal_write(text)

-----------------------------------------------------------------------------
\* Text longer than the screen runs over its first rows, but the line that is being
\* written and the VGA_HEIGHT - 1 lines before it, broken where the row ended, can
\* always be read in the rows above the cursor, the last row being above the first.
\* Behind a short line the rest of its row is left over from older text.
LatestLinesKept ==
    LET latest == Append(lines, line) IN
    \A k \in 1 .. Len(latest) :
        LET row == (terminal_row - (Len(latest) - k)) % VGA_HEIGHT
        IN  \A x \in 1 .. Len(latest[k]) :
                terminal_buffer[row][x - 1] = latest[k][x]
=============================================================================
