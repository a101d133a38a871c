------------------------------- MODULE Console ------------------------------
(***************************************************************************)
(* The console driver, kern/console.c: a software cursor and colour, the   *)
(* text memory of the display, which is flat, and the cursor register of   *)
(* the CRT controller.  The boot runs console_init first; every call runs  *)
(* to its end before the next one, for no interrupt handler draws.         *)
(***************************************************************************)
EXTENDS Integers, Sequences, SequencesExt

CONSTANTS
  CONSOLE_HEIGHT, CONSOLE_WIDTH,   \* the rows and columns of the display
  Printable,                 \* the characters callers print, control characters apart
  CONS_CHAR_SPC,
  Colors,                    \* the valid colours
  InvalidColor,
  CONS_DEFAULT_COLOR,
  Strings,                   \* what callers pass to putbytes
  NULL,                      \* the address 0
  BootBytes, NullString,     \* what the BIOS left there: bytes no caller prints
  DrawRows,                  \* the rows callers pass to draw_char
  BootCell                   \* what the boot loader left in the display memory

CONS_CHAR_BKSPC == "bkspc"
CONS_CHAR_CR == "cr"
CONS_CHAR_LF == "lf"
Chars == Printable \cup {CONS_CHAR_BKSPC, CONS_CHAR_CR, CONS_CHAR_LF}

ASSUME ConsoleAssumption ==
  /\ CONSOLE_HEIGHT \in Nat \ {0} /\ CONSOLE_WIDTH \in Nat \ {0}
  /\ CONSOLE_HEIGHT * CONSOLE_WIDTH < 65536     \* curpos is an unsigned short
  /\ Printable \cap {CONS_CHAR_BKSPC, CONS_CHAR_CR, CONS_CHAR_LF} = {}
  /\ CONS_DEFAULT_COLOR \in Colors
  /\ InvalidColor \notin Colors
  /\ Strings \subseteq Seq(Chars) /\ NULL \notin Strings
  /\ NullString \in Seq(BootBytes) /\ BootBytes \cap Chars = {}
  /\ BootCell \in [char : Printable, color : Colors]
  /\ DrawRows \subseteq 0 .. CONSOLE_HEIGHT

VARIABLES
  cons_curr_row,
  cons_curr_col,
  cons_curr_color,
  cons_cursor_state,
  fb,                        \* display memory, from CONSOLE_MEM_BASE on
  crtc,                      \* the cursor location register
  installed                  \* whether console_init has run

vars == <<cons_curr_row, cons_curr_col, cons_curr_color, cons_cursor_state, fb, crtc,
          installed>>

-----------------------------------------------------------------------------
(* The display memory goes on for at least a row behind the screen.        *)
ScreenSize == CONSOLE_HEIGHT * CONSOLE_WIDTH
Screen == 0 .. ScreenSize - 1
Cells == [char : Printable \cup {CONS_CHAR_SPC}, color : Colors]
Blank == [char |-> CONS_CHAR_SPC, color |-> CONS_DEFAULT_COLOR]
CONS_CURSOR_VISIBLE == 1
CONS_CURSOR_HIDDEN == 0
OutOfRange == 65535

(* FB_LOC_CHAR, in cells.                                                  *)
FB_LOC_CHAR(row, col) == row * CONSOLE_WIDTH + col

(* What the text functions work on.                                        *)
Text == [row |-> cons_curr_row, col |-> cons_curr_col, fb |-> fb]

(* memcpy of n cells, upwards.                                             *)
memcpy(m, dst, src, n) ==
  [a \in DOMAIN m |-> IF a \in dst .. dst + n - 1 THEN m[src + (a - dst)] ELSE m[a]]

(* Mutant: the row that was scrolled in is not blanked.                    *)
MutantScrollKeepsLast(t) ==
  [t EXCEPT !.fb = memcpy(@, FB_LOC_CHAR(0, 0), FB_LOC_CHAR(1, 0),
                          (CONSOLE_HEIGHT - 1) * CONSOLE_WIDTH)]

(* cons_scroll: all rows but the first move up, the cursor's row becomes   *)
(* blank.                                                                  *)
cons_scroll(t) ==
  LET moved == memcpy(t.fb, FB_LOC_CHAR(0, 0), FB_LOC_CHAR(1, 0),
                      (CONSOLE_HEIGHT - 1) * CONSOLE_WIDTH)
      loc == FB_LOC_CHAR(t.row, 0)
  IN  [t EXCEPT !.fb = [a \in DOMAIN fb |->
                          IF a \in loc .. loc + CONSOLE_WIDTH - 1 THEN Blank ELSE moved[a]]]

cons_clear(m) == [a \in DOMAIN m |-> IF a \in Screen THEN Blank ELSE m[a]]

cons_draw_char(m, row, col, ch, color) ==
  [m EXCEPT ![FB_LOC_CHAR(row, col)] = [char |-> ch, color |-> color]]

(* Mutant: the last row is taken for one that has a next one.              *)
MutantNewLine(t) ==
  IF t.row < CONSOLE_HEIGHT
    THEN [t EXCEPT !.col = 0, !.row = @ + 1]
    ELSE cons_scroll([t EXCEPT !.col = 0])

(* LF, or the end of a row.                                                *)
NewLine(t) ==
  IF t.row < CONSOLE_HEIGHT - 1
    THEN [t EXCEPT !.col = 0, !.row = @ + 1]
    ELSE cons_scroll([t EXCEPT !.col = 0])

(* One character, drawn unless it is a control character.                  *)
cons_putbyte(t, ch) ==
  LET drawn == [t EXCEPT !.fb = cons_draw_char(@, t.row, t.col, ch, cons_curr_color)]
  IN  CASE ch = CONS_CHAR_BKSPC ->
             IF t.col > 0
               THEN [t EXCEPT !.col = @ - 1,
                              !.fb = cons_draw_char(@, t.row, t.col - 1, CONS_CHAR_SPC,
                                                    CONS_DEFAULT_COLOR)]
               ELSE t
        [] ch = CONS_CHAR_CR -> [t EXCEPT !.col = 0]
        [] ch = CONS_CHAR_LF -> NewLine(t)
        [] OTHER -> IF t.col < CONSOLE_WIDTH - 1 THEN [drawn EXCEPT !.col = @ + 1]
                                                 ELSE NewLine(drawn)

SetText(t) ==
  /\ cons_curr_row' = t.row
  /\ cons_curr_col' = t.col
  /\ fb' = t.fb

(* cons_display_cursor: both bytes of the cursor's offset, for the cursor  *)
(* as the call leaves it.                                                  *)
cons_display_cursor == crtc' = (cons_curr_row' * CONSOLE_WIDTH + cons_curr_col') % 65536

cons_update_cursor ==
  IF cons_cursor_state = CONS_CURSOR_VISIBLE THEN cons_display_cursor ELSE UNCHANGED crtc

-----------------------------------------------------------------------------
Init ==
  /\ cons_curr_row = 0
  /\ cons_curr_col = 0
  /\ cons_curr_color = CONS_DEFAULT_COLOR
  /\ cons_cursor_state = CONS_CURSOR_VISIBLE
  /\ fb = [a \in 0 .. ScreenSize + CONSOLE_WIDTH - 1 |-> BootCell]
  /\ crtc \in {0, ScreenSize}
  /\ installed = FALSE

console_init ==
  /\ ~installed
  /\ installed' = TRUE
  /\ cons_curr_color' = CONS_DEFAULT_COLOR
  /\ SetText([row |-> 0, col |-> 0, fb |-> cons_clear(fb)])
  /\ cons_cursor_state' = CONS_CURSOR_VISIBLE
  /\ cons_display_cursor

putbyte(ch) ==
  /\ installed
  /\ SetText(cons_putbyte(Text, ch))
  /\ cons_update_cursor
  /\ UNCHANGED <<cons_curr_color, cons_cursor_state, installed>>

(* putbytes looks at neither its pointer nor its length; the calls that    *)
(* are made have a length no greater than the string's.                    *)
StringAt(str) == IF str = NULL THEN NullString ELSE str
putbytes(str, length) ==
  /\ installed
  /\ SetText(FoldLeft(cons_putbyte, Text, SubSeq(StringAt(str), 1, length)))
  /\ cons_update_cursor
  /\ UNCHANGED <<cons_curr_color, cons_cursor_state, installed>>

draw_char(row, col, ch, color) ==
  /\ installed
  /\ fb' = cons_draw_char(fb, row, col, ch, color)
  /\ UNCHANGED <<cons_curr_row, cons_curr_col, cons_curr_color, cons_cursor_state, crtc,
                 installed>>

set_term_color(color) ==
  /\ installed
  /\ cons_curr_color' = IF color \in Colors THEN color ELSE cons_curr_color
  /\ UNCHANGED <<cons_curr_row, cons_curr_col, cons_cursor_state, fb, crtc, installed>>

(* Mutant: the hardware cursor is moved whether it is hidden or not.       *)
MutantSetCursorShows(row, col) ==
  /\ installed
  /\ row \in 0 .. CONSOLE_HEIGHT - 1 /\ col \in 0 .. CONSOLE_WIDTH - 1
  /\ cons_curr_row' = row /\ cons_curr_col' = col
  /\ cons_display_cursor
  /\ UNCHANGED <<cons_curr_color, cons_cursor_state, fb, installed>>

(* Mutant: a column is accepted that is one too large.                     *)
MutantSetCursorBound(row, col) ==
  /\ installed
  /\ row \in 0 .. CONSOLE_HEIGHT - 1 /\ col \in 0 .. CONSOLE_WIDTH
  /\ cons_curr_row' = row /\ cons_curr_col' = col
  /\ cons_update_cursor
  /\ UNCHANGED <<cons_curr_color, cons_cursor_state, fb, installed>>

(* A position that is not on the screen is refused.                        *)
set_cursor(row, col) ==
  /\ installed
  /\ IF row \in 0 .. CONSOLE_HEIGHT - 1 /\ col \in 0 .. CONSOLE_WIDTH - 1
       THEN /\ cons_curr_row' = row /\ cons_curr_col' = col
            /\ cons_update_cursor
       ELSE UNCHANGED <<cons_curr_row, cons_curr_col, crtc>>
  /\ UNCHANGED <<cons_curr_color, cons_cursor_state, fb, installed>>

clear_console ==
  /\ installed
  /\ SetText([row |-> 0, col |-> 0, fb |-> cons_clear(fb)])
  /\ cons_update_cursor
  /\ UNCHANGED <<cons_curr_color, cons_cursor_state, installed>>

show_cursor ==
  /\ installed
  /\ cons_cursor_state' = CONS_CURSOR_VISIBLE
  /\ UNCHANGED <<cons_curr_row, cons_curr_col, cons_curr_color, fb, installed>>
  /\ cons_display_cursor

hide_cursor ==
  /\ installed
  /\ cons_cursor_state' = CONS_CURSOR_HIDDEN
  /\ crtc' = OutOfRange
  /\ UNCHANGED <<cons_curr_row, cons_curr_col, cons_curr_color, fb, installed>>

Next ==
  \/ console_init \/ clear_console \/ show_cursor \/ hide_cursor
  \/ \E ch \in Chars : putbyte(ch)
  \/ \E str \in Strings : \E length \in -1 .. Len(str) : putbytes(str, length)
  \/ \E row \in DrawRows, col \in 0 .. CONSOLE_WIDTH - 1, ch \in Printable, c \in Colors :
       draw_char(row, col, ch, c)
  \/ \E c \in Colors \cup {InvalidColor} : set_term_color(c)
  \/ \E row \in -1 .. CONSOLE_HEIGHT, col \in -1 .. CONSOLE_WIDTH : set_cursor(row, col)

Spec == Init /\ [][Next]_vars

-----------------------------------------------------------------------------
(* The behaviours in which a caller also prints the string NULL.           *)
NextOrNull ==
  Next \/ \E length \in 0 .. Len(NullString) : putbytes(NULL, length)
SpecWithNull == Init /\ [][NextOrNull]_vars

-----------------------------------------------------------------------------
(* Properties.                                                             *)

(* The software cursor is a position of the screen and the colour a valid  *)
(* one, after whatever arguments the calls were given.                     *)
TypeOK ==
  /\ cons_curr_row \in 0 .. CONSOLE_HEIGHT - 1
  /\ cons_curr_col \in 0 .. CONSOLE_WIDTH - 1
  /\ cons_curr_color \in Colors
  /\ cons_cursor_state \in {CONS_CURSOR_VISIBLE, CONS_CURSOR_HIDDEN}
  /\ fb \in [0 .. ScreenSize + CONSOLE_WIDTH - 1 -> Cells]
  /\ crtc \in Nat /\ crtc < 65536
  /\ installed \in BOOLEAN

(* Between calls the hardware cursor is where the software cursor is, or   *)
(* nowhere on the screen while it is hidden: no call that moves the cursor *)
(* forgets the register, and none that moves a hidden cursor shows it.     *)
CursorShown ==
  installed =>
    IF cons_cursor_state = CONS_CURSOR_VISIBLE
      THEN crtc = FB_LOC_CHAR(cons_curr_row, cons_curr_col)
      ELSE crtc \notin Screen

(* The display memory behind the screen is never written: scrolling,       *)
(* wrapping and clearing stay within the screen.                           *)
StaysOnScreen == [][\A a \in (DOMAIN fb) \ Screen : fb'[a] = fb[a]]_vars

(* The flat memory, the software cursor and the register together behave   *)
(* as the page of text that inc/kernel.h describes.                        *)
CellAt(r, c) == fb[FB_LOC_CHAR(r - 1, c - 1)]
Position == [row |-> cons_curr_row + 1, col |-> cons_curr_col + 1]
Page == [r \in 1 .. CONSOLE_HEIGHT |-> [c \in 1 .. CONSOLE_WIDTH |-> CellAt(r, c)]]
Seen ==
  IF crtc \in Screen
    THEN {[row |-> (crtc \div CONSOLE_WIDTH) + 1, col |-> (crtc % CONSOLE_WIDTH) + 1]}
    ELSE {}

T == INSTANCE Terminal WITH
       Height <- CONSOLE_HEIGHT, Width <- CONSOLE_WIDTH, Space <- CONS_CHAR_SPC,
       Backspace <- CONS_CHAR_BKSPC, Return <- CONS_CHAR_CR, Newline <- CONS_CHAR_LF,
       DefaultColor <- CONS_DEFAULT_COLOR,
       page <- Page, cursor <- Position, color <- cons_curr_color, shown <- Seen

Written == {<<ch>> : ch \in Chars} \cup UNION {Prefixes(s) : s \in Strings}
ImplementsTerminal == T!TInit /\ [][T!TNext(Written)]_(T!tvars)

(* inc/kernel.h of draw_char: with an invalid argument it has no effect.   *)
DrawCharChecks ==
  [][\A row \in DrawRows \ (0 .. CONSOLE_HEIGHT - 1), col \in 0 .. CONSOLE_WIDTH - 1,
       ch \in Printable, c \in Colors :
       draw_char(row, col, ch, c) => UNCHANGED fb]_vars

(* inc/kernel.h of putbytes: with a null string it has no effect.          *)
PutbytesNullChecked ==
  [][\A length \in 0 .. Len(NullString) :
       putbytes(NULL, length) => UNCHANGED fb]_vars
=============================================================================
