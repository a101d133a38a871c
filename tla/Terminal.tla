------------------------------ MODULE Terminal ------------------------------
(***************************************************************************)
(* What the console promises its callers (the comments of inc/kernel.h): a *)
(* page of rows of text.  Text is written at the cursor, a row that is     *)
(* full continues on the next one, and when there is no next one the       *)
(* first row is given up for an empty row at the end.                      *)
(***************************************************************************)
EXTENDS Integers, Sequences

CONSTANTS Height, Width, Chars, Colors, Space, Backspace, Return, Newline, DefaultColor

VARIABLES
  page,        \* Height rows of Width cells
  cursor,      \* where the next character goes
  color,       \* the colour it will have
  shown        \* what the user sees of the cursor: {} or {its position}

tvars == <<page, cursor, color, shown>>

Positions == [row : 1 .. Height, col : 1 .. Width]
Empty == [char |-> Space, color |-> DefaultColor]
EmptyRow == [c \in 1 .. Width |-> Empty]
Plain == (Chars \ {Backspace, Return, Newline}) \cup {Space}

SeenAt(position) == shown' = IF shown = {} THEN {} ELSE {position}

TInit ==
  /\ page \in [1 .. Height -> [1 .. Width -> [char : Plain, color : Colors]]]
  /\ cursor = [row |-> 1, col |-> 1]
  /\ color = DefaultColor
  /\ shown \in SUBSET Positions

-----------------------------------------------------------------------------
(* One character on a text, which is a page and a cursor.                  *)

NextRow(text) ==
  IF text.cursor.row < Height
    THEN [text EXCEPT !.cursor = [row |-> @.row + 1, col |-> 1]]
    ELSE [page |-> Append(Tail(text.page), EmptyRow),
          cursor |-> [text.cursor EXCEPT !.col = 1]]

Type(text, ch) ==
  LET row == text.cursor.row
      col == text.cursor.col
      typed == [text EXCEPT !.page[row][col] = [char |-> ch, color |-> color]]
  IN  CASE ch = Newline -> NextRow(text)
        [] ch = Return -> [text EXCEPT !.cursor.col = 1]
        [] ch = Backspace ->
             IF col = 1 THEN text
             ELSE [text EXCEPT !.cursor.col = col - 1, !.page[row][col - 1] = Empty]
        [] OTHER -> IF col < Width THEN [typed EXCEPT !.cursor.col = col + 1]
                                   ELSE NextRow(typed)

Text == [page |-> page, cursor |-> cursor]
TypeAll[s \in Seq(Chars)] ==
  IF s = <<>> THEN Text ELSE Type(TypeAll[SubSeq(s, 1, Len(s) - 1)], s[Len(s)])

-----------------------------------------------------------------------------
Write(s) ==
  /\ page' = TypeAll[s].page
  /\ cursor' = TypeAll[s].cursor
  /\ SeenAt(TypeAll[s].cursor)
  /\ UNCHANGED color

Draw(position, cell) ==
  /\ page' = [page EXCEPT ![position.row][position.col] = cell]
  /\ UNCHANGED <<cursor, color, shown>>

SetColor(c) == color' = c /\ UNCHANGED <<page, cursor, shown>>

MoveTo(position) ==
  /\ cursor' = position
  /\ SeenAt(position)
  /\ UNCHANGED <<page, color>>

Clear ==
  /\ page' = [r \in 1 .. Height |-> EmptyRow]
  /\ cursor' = [row |-> 1, col |-> 1]
  /\ SeenAt([row |-> 1, col |-> 1])
  /\ UNCHANGED color

Show == shown' = {cursor} /\ UNCHANGED <<page, cursor, color>>
Hide == shown' = {} /\ UNCHANGED <<page, cursor, color>>

Restart ==
  /\ page' = [r \in 1 .. Height |-> EmptyRow]
  /\ cursor' = [row |-> 1, col |-> 1]
  /\ color' = DefaultColor
  /\ shown' = {[row |-> 1, col |-> 1]}

TNext(Strings) ==
  \/ \E s \in Strings : Write(s)
  \/ \E p \in Positions, c \in [char : Plain, color : Colors] : Draw(p, c)
  \/ \E c \in Colors : SetColor(c)
  \/ \E p \in Positions : MoveTo(p)
  \/ Clear \/ Show \/ Hide \/ Restart
=============================================================================
