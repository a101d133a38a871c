--------------------------- MODULE Console_proofs ---------------------------
(***************************************************************************)
(* The console, for every size of the screen and every string.  Whatever   *)
(* is printed, the cursor stays on the screen and the register with it     *)
(* (Invariant); what is behind the screen is not written (StaysOnScreen);  *)
(* and the flat memory behaves as the page of text that Terminal describes *)
(* (Refinement).  putbytes is a fold over a string and Terminal's Write a  *)
(* recursive function on strings: FoldSteps unfolds the one into the texts *)
(* it goes through, TypeAllAbs shows the other to be the same, both by     *)
(* induction on a length.                                                  *)
(***************************************************************************)
EXTENDS Console, SequenceTheorems, FiniteSetTheorems, TLAPS

-----------------------------------------------------------------------------
(* Induction, for a set of numbers: if some n were missing, k |-> k - 1    *)
(* would map the numbers up to n that are missing into those below n, and  *)
(* there is one less of those.                                             *)
LEMMA Induction ==
  ASSUME NEW S, 0 \in S, \A n \in Nat : n \in S => n + 1 \in S
  PROVE  \A n \in Nat : n \in S
  <1> SUFFICES ASSUME NEW n \in Nat, n \notin S PROVE FALSE
    OBVIOUS
  <1> DEFINE U == {k \in 0 .. n : k \notin S}
             f == [k \in U |-> k - 1]
  <1>1. ASSUME NEW k \in U
        PROVE  k - 1 \in U \ {n}
    <2>1. k \in Nat /\ k # 0 /\ k <= n
      OBVIOUS
    <2>2. k - 1 \in 0 .. n /\ k - 1 # n /\ k - 1 + 1 = k
      BY <2>1
    <2> QED
      BY <2>2
  <1>2. n \in U /\ IsFiniteSet(U) /\ IsFiniteSet(U \ {n}) /\ Cardinality(U \ {n}) < Cardinality(U)
    <2>1. n \in U
      OBVIOUS
    <2>2. U \in SUBSET (0 .. n) /\ IsFiniteSet(0 .. n)
      BY FS_Interval
    <2>3. IsFiniteSet(U)
      BY <2>2, FS_Subset
    <2>4. Cardinality(U) \in Nat
      BY <2>3, FS_CardinalityType
    <2>5. IsFiniteSet(U \ {n}) /\ Cardinality(U \ {n}) = Cardinality(U) - 1
      BY <2>1, <2>3, FS_RemoveElement
    <2> QED
      BY <2>1, <2>3, <2>4, <2>5
  <1>3. f \in [U -> U \ {n}]
    BY <1>1
  <1>5. \A x \in U : f[x] = x - 1 /\ x \in Int
    OBVIOUS
  <1> HIDE DEF U, f
  <1>4. \E x, y \in U : x # y /\ f[x] = f[y]
    BY <1>2, <1>3, FS_PigeonHole
  <1> QED
    BY <1>5, <1>4

-----------------------------------------------------------------------------
(* The screen: which cell a position is, and which position a cell is.     *)
Rows == 0 .. CONSOLE_HEIGHT - 1
Cols == 0 .. CONSOLE_WIDTH - 1
Memory == 0 .. ScreenSize + CONSOLE_WIDTH - 1

LEMMA Sizes ==
  /\ CONSOLE_HEIGHT \in Nat /\ CONSOLE_HEIGHT >= 1
  /\ CONSOLE_WIDTH \in Nat /\ CONSOLE_WIDTH >= 1
  /\ ScreenSize \in Nat /\ ScreenSize >= 1 /\ ScreenSize < 65536
  <1>1. \A h, w \in Nat : h >= 1 /\ w >= 1 => h * w \in Nat /\ h * w >= 1
    OBVIOUS
  <1> QED
    BY <1>1, ConsoleAssumption DEF ScreenSize

LEMMA RowBounds ==
  ASSUME NEW row \in Nat, row <= CONSOLE_HEIGHT
  PROVE  /\ row * CONSOLE_WIDTH \in Nat
         /\ row * CONSOLE_WIDTH <= ScreenSize
         /\ row < CONSOLE_HEIGHT => row * CONSOLE_WIDTH + CONSOLE_WIDTH <= ScreenSize
         /\ (row + 1) * CONSOLE_WIDTH = row * CONSOLE_WIDTH + CONSOLE_WIDTH
  <1>1. \A r, h, w \in Nat : r <= h => r * w \in Nat /\ r * w <= h * w
    OBVIOUS
  <1>2. \A r, w \in Nat : (r + 1) * w = r * w + w
    OBVIOUS
  <1>3. row < CONSOLE_HEIGHT => row + 1 <= CONSOLE_HEIGHT
    BY Sizes
  <1> QED
    BY <1>1, <1>2, <1>3, Sizes DEF ScreenSize

LEMMA Cell ==
  ASSUME NEW row \in Rows, NEW col \in Cols
  PROVE  FB_LOC_CHAR(row, col) \in Screen
  BY RowBounds, Sizes DEF Rows, Cols, Screen, FB_LOC_CHAR

LEMMA CellDistinct ==
  ASSUME NEW row \in Nat, NEW col \in Cols, NEW r \in Nat, NEW c \in Cols,
         FB_LOC_CHAR(row, col) = FB_LOC_CHAR(r, c)
  PROVE  row = r /\ col = c
  <1>1. \A i, j, w \in Nat : i < j => i * w + w <= j * w
    OBVIOUS
  <1>2. \A i, w \in Nat : i * w \in Nat
    OBVIOUS
  <1>3. ~(row < r) /\ ~(r < row)
    BY <1>1, <1>2, Sizes DEF Cols, FB_LOC_CHAR
  <1>4. row = r
    BY <1>3
  <1>5. row * CONSOLE_WIDTH \in Nat
    BY <1>2, Sizes
  <1> QED
    BY <1>4, <1>5, Sizes DEF Cols, FB_LOC_CHAR

LEMMA CellDivided ==
  ASSUME NEW row \in Rows, NEW col \in Cols
  PROVE  /\ FB_LOC_CHAR(row, col) \div CONSOLE_WIDTH = row
         /\ FB_LOC_CHAR(row, col) % CONSOLE_WIDTH = col
  <1>1. \A r, c, w \in Nat : c < w => (r * w + c) \div w = r /\ (r * w + c) % w = c
    OBVIOUS
  <1> QED
    BY <1>1, Sizes DEF Rows, Cols, FB_LOC_CHAR

-----------------------------------------------------------------------------
(* A text while it is being written: what is on the screen changes, what   *)
(* is in the memory behind it does not.                                    *)
Texts == [row : Rows, col : Cols, fb : [Memory -> Cells]]
BehindKept(t) == \A a \in Memory \ Screen : t.fb[a] = fb[a]
TextOK(t) == t \in Texts /\ BehindKept(t)

CharsOK == fb \in [Memory -> Cells] /\ cons_curr_color \in Colors

LEMMA BlankCell == Blank \in Cells
  BY ConsoleAssumption DEF Blank, Cells

LEMMA ScreenInMemory ==
  /\ Screen \subseteq Memory
  /\ \A a \in Screen : a + CONSOLE_WIDTH \in Memory
  BY Sizes DEF Screen, Memory

LEMMA Drawn ==
  ASSUME NEW m \in [Memory -> Cells], NEW row \in Rows, NEW col \in Cols,
         NEW cell \in Cells
  PROVE  LET drawn == [m EXCEPT ![FB_LOC_CHAR(row, col)] = cell]
         IN  /\ drawn \in [Memory -> Cells]
             /\ drawn[FB_LOC_CHAR(row, col)] = cell
             /\ \A a \in Memory : a # FB_LOC_CHAR(row, col) => drawn[a] = m[a]
             /\ \A a \in Memory \ Screen : drawn[a] = m[a]
  BY Cell, ScreenInMemory

(* What is on the screen after a scroll, and what is behind it.            *)
LEMMA Scrolled ==
  ASSUME fb \in [Memory -> Cells], NEW t \in Texts, t.row = CONSOLE_HEIGHT - 1
  PROVE  /\ cons_scroll(t) = [t EXCEPT !.fb = cons_scroll(t).fb]
         /\ cons_scroll(t).fb \in [Memory -> Cells]
         /\ \A row \in Rows, col \in Cols :
              cons_scroll(t).fb[FB_LOC_CHAR(row, col)] =
                IF row < CONSOLE_HEIGHT - 1 THEN t.fb[FB_LOC_CHAR(row + 1, col)] ELSE Blank
         /\ \A a \in Memory \ Screen : cons_scroll(t).fb[a] = t.fb[a]
  <1> DEFINE n == (CONSOLE_HEIGHT - 1) * CONSOLE_WIDTH
             moved == memcpy(t.fb, FB_LOC_CHAR(0, 0), FB_LOC_CHAR(1, 0), n)
             loc == FB_LOC_CHAR(t.row, 0)
             new == [a \in Memory |->
                       IF a \in loc .. loc + CONSOLE_WIDTH - 1 THEN Blank ELSE moved[a]]
  <1>1. /\ n \in Nat /\ n + CONSOLE_WIDTH = ScreenSize /\ loc = n
        /\ FB_LOC_CHAR(0, 0) = 0 /\ FB_LOC_CHAR(1, 0) = CONSOLE_WIDTH
    <2>1. /\ (CONSOLE_HEIGHT - 1) * CONSOLE_WIDTH \in Nat
          /\ (CONSOLE_HEIGHT - 1 + 1) * CONSOLE_WIDTH = n + CONSOLE_WIDTH
      <3>1. CONSOLE_HEIGHT - 1 \in Nat /\ CONSOLE_HEIGHT - 1 <= CONSOLE_HEIGHT
        BY Sizes
      <3> QED
        BY <3>1, RowBounds
    <2>2. CONSOLE_HEIGHT - 1 + 1 = CONSOLE_HEIGHT
      BY Sizes
    <2>3. \A w \in Nat : 0 * w + 0 = 0 /\ 1 * w + 0 = w
      OBVIOUS
    <2> QED
      BY <2>1, <2>2, <2>3, Sizes DEF ScreenSize, FB_LOC_CHAR
  <1>2. /\ t.fb \in [Memory -> Cells] /\ DOMAIN t.fb = Memory
    BY DEF Texts
  <1> HIDE DEF n
  <1>3. moved = [a \in Memory |->
                   IF a \in 0 .. n - 1 THEN t.fb[CONSOLE_WIDTH + (a - 0)] ELSE t.fb[a]]
    <2>1. 0 + n - 1 = n - 1
      BY <1>1
    <2> QED
      BY <1>1, <1>2, <2>1 DEF memcpy
  <1>4. moved \in [Memory -> Cells]
    <2>1. \A a \in 0 .. n - 1 : CONSOLE_WIDTH + (a - 0) \in Memory
      BY <1>1, Sizes DEF Memory
    <2> QED
      BY <1>2, <1>3, <2>1
  <1> HIDE DEF moved
  <1>5. cons_scroll(t) = [t EXCEPT !.fb = new]
    BY DEF cons_scroll, moved, n
  <1>6. cons_scroll(t).fb = new
    BY <1>5 DEF Texts
  <1>7. new \in [Memory -> Cells]
    BY <1>4, BlankCell
  <1>8. ASSUME NEW row \in Rows, NEW col \in Cols
        PROVE  new[FB_LOC_CHAR(row, col)] =
                 IF row < CONSOLE_HEIGHT - 1 THEN t.fb[FB_LOC_CHAR(row + 1, col)] ELSE Blank
    <2> DEFINE a == FB_LOC_CHAR(row, col)
    <2>1. a \in Memory
      BY Cell, ScreenInMemory
    <2>2. row \in Nat /\ row <= CONSOLE_HEIGHT /\ row * CONSOLE_WIDTH \in Nat
          /\ a = row * CONSOLE_WIDTH + col /\ col \in Nat /\ col < CONSOLE_WIDTH
      BY Sizes, RowBounds DEF Rows, Cols, FB_LOC_CHAR
    <2>3. CASE row < CONSOLE_HEIGHT - 1
      <3>1. row * CONSOLE_WIDTH + CONSOLE_WIDTH <= n
        <4>1. row + 1 \in Nat /\ row + 1 <= CONSOLE_HEIGHT - 1 /\ CONSOLE_HEIGHT - 1 \in Nat
          BY <2>2, <2>3, Sizes
        <4>2. \A i, j, w \in Nat : i <= j => i * w <= j * w
          OBVIOUS
        <4>3. (row + 1) * CONSOLE_WIDTH <= n
          BY <4>1, <4>2, Sizes DEF n
        <4> QED
          BY <2>2, <4>3, RowBounds
      <3>2. a \in 0 .. n - 1 /\ a \notin loc .. loc + CONSOLE_WIDTH - 1
        BY <1>1, <2>2, <3>1, Sizes
      <3>3. FB_LOC_CHAR(row + 1, col) = CONSOLE_WIDTH + (a - 0)
        BY <2>2, RowBounds, Sizes DEF FB_LOC_CHAR
      <3>4. new[a] = moved[a]
        BY <2>1, <3>2
      <3>5. moved[a] = t.fb[CONSOLE_WIDTH + (a - 0)]
        BY <1>3, <2>1, <3>2
      <3> QED
        BY <2>3, <3>3, <3>4, <3>5
    <2>4. CASE ~(row < CONSOLE_HEIGHT - 1)
      <3>1. row = CONSOLE_HEIGHT - 1
        BY <2>2, <2>4, Sizes DEF Rows
      <3>2. a = n + col
        BY <2>2, <3>1 DEF n
      <3>3. a \in loc .. loc + CONSOLE_WIDTH - 1
        BY <1>1, <2>2, <3>2, Sizes
      <3> QED
        BY <2>1, <2>4, <3>3
    <2> QED
      BY <2>3, <2>4
  <1>9. ASSUME NEW a \in Memory \ Screen
        PROVE  new[a] = t.fb[a]
    <2>1. a \notin loc .. loc + CONSOLE_WIDTH - 1 /\ a \notin 0 .. n - 1
      BY <1>1, Sizes DEF Memory, Screen
    <2>2. new[a] = moved[a]
      BY <2>1
    <2> QED
      BY <1>3, <2>1, <2>2
  <1> HIDE DEF new
  <1> QED
    BY <1>5, <1>6, <1>7, <1>8, <1>9

LEMMA NewLineOK ==
  ASSUME CharsOK, NEW t, TextOK(t)
  PROVE  TextOK(NewLine(t))
  <1>1. CASE t.row < CONSOLE_HEIGHT - 1
    <2>1. NewLine(t) = [t EXCEPT !.col = 0, !.row = t.row + 1]
      BY <1>1 DEF NewLine
    <2>2. 0 \in Cols /\ t.row + 1 \in Rows
      BY <1>1, Sizes DEF TextOK, Texts, Rows, Cols
    <2> QED
      BY <2>1, <2>2 DEF TextOK, Texts, BehindKept
  <1>2. CASE ~(t.row < CONSOLE_HEIGHT - 1)
    <2> DEFINE u == [t EXCEPT !.col = 0]
    <2>1. u \in Texts /\ u.row = CONSOLE_HEIGHT - 1 /\ u.fb = t.fb
      <3>1. 0 \in Cols /\ t.row = CONSOLE_HEIGHT - 1
        BY <1>2, Sizes DEF TextOK, Texts, Rows, Cols
      <3> QED
        BY <3>1 DEF TextOK, Texts
    <2>2. NewLine(t) = cons_scroll(u)
      BY <1>2 DEF NewLine
    <2> HIDE DEF u
    <2>3. /\ cons_scroll(u) = [u EXCEPT !.fb = cons_scroll(u).fb]
          /\ cons_scroll(u).fb \in [Memory -> Cells]
          /\ \A a \in Memory \ Screen : cons_scroll(u).fb[a] = u.fb[a]
      BY <2>1, Scrolled DEF CharsOK
    <2>4. cons_scroll(u) \in Texts
      BY <2>1, <2>3 DEF Texts
    <2> QED
      BY <2>1, <2>2, <2>3, <2>4 DEF TextOK, BehindKept
  <1> QED
    BY <1>1, <1>2

(* Drawing one cell.                                                       *)
LEMMA DrawOK ==
  ASSUME NEW t, TextOK(t), NEW col \in Cols, NEW ch, NEW color,
         [char |-> ch, color |-> color] \in Cells
  PROVE  TextOK([t EXCEPT !.fb = cons_draw_char(t.fb, t.row, col, ch, color)])
  <1> DEFINE cell == [char |-> ch, color |-> color]
             m == [t.fb EXCEPT ![FB_LOC_CHAR(t.row, col)] = cell]
  <1>1. t.fb \in [Memory -> Cells] /\ t.row \in Rows
    BY DEF TextOK, Texts
  <1>2. m \in [Memory -> Cells] /\ \A a \in Memory \ Screen : m[a] = t.fb[a]
    BY <1>1, Drawn
  <1>3. [t EXCEPT !.fb = cons_draw_char(t.fb, t.row, col, ch, color)] = [t EXCEPT !.fb = m]
    BY DEF cons_draw_char
  <1> HIDE DEF m
  <1> QED
    BY <1>2, <1>3 DEF TextOK, Texts, BehindKept

LEMMA ColOK ==
  ASSUME NEW t, TextOK(t), NEW col \in Cols
  PROVE  TextOK([t EXCEPT !.col = col])
  BY DEF TextOK, Texts, BehindKept

LEMMA Controls ==
  /\ CONS_CHAR_BKSPC # CONS_CHAR_CR /\ CONS_CHAR_BKSPC # CONS_CHAR_LF
  /\ CONS_CHAR_CR # CONS_CHAR_LF
  /\ \A ch \in Chars : ch \in Printable \/ ch \in {CONS_CHAR_BKSPC, CONS_CHAR_CR, CONS_CHAR_LF}
  /\ \A ch \in Printable : ch \notin {CONS_CHAR_BKSPC, CONS_CHAR_CR, CONS_CHAR_LF}
  BY ConsoleAssumption DEF CONS_CHAR_BKSPC, CONS_CHAR_CR, CONS_CHAR_LF, Chars

(* cons_putbyte, case by case.                                             *)
Drawing(t, ch) == [t EXCEPT !.fb = cons_draw_char(t.fb, t.row, t.col, ch, cons_curr_color)]
Erasing(t) ==
  [t EXCEPT !.fb = cons_draw_char(t.fb, t.row, t.col - 1, CONS_CHAR_SPC, CONS_DEFAULT_COLOR)]

LEMMA PutbyteCases ==
  ASSUME NEW t \in Texts
  PROVE  /\ cons_putbyte(t, CONS_CHAR_BKSPC) =
              IF t.col > 0 THEN [Erasing(t) EXCEPT !.col = t.col - 1] ELSE t
         /\ cons_putbyte(t, CONS_CHAR_CR) = [t EXCEPT !.col = 0]
         /\ cons_putbyte(t, CONS_CHAR_LF) = NewLine(t)
         /\ \A ch \in Printable :
              cons_putbyte(t, ch) =
                IF t.col < CONSOLE_WIDTH - 1 THEN [Drawing(t, ch) EXCEPT !.col = t.col + 1]
                                             ELSE NewLine(Drawing(t, ch))
  <1> USE Controls
  <1>1. cons_putbyte(t, CONS_CHAR_BKSPC) =
          IF t.col > 0 THEN [Erasing(t) EXCEPT !.col = t.col - 1] ELSE t
    BY DEF cons_putbyte, Erasing, Texts
  <1>2. cons_putbyte(t, CONS_CHAR_CR) = [t EXCEPT !.col = 0]
    BY DEF cons_putbyte
  <1>3. cons_putbyte(t, CONS_CHAR_LF) = NewLine(t)
    BY DEF cons_putbyte
  <1>4. ASSUME NEW ch \in Printable
        PROVE  cons_putbyte(t, ch) =
                 IF t.col < CONSOLE_WIDTH - 1 THEN [Drawing(t, ch) EXCEPT !.col = t.col + 1]
                                              ELSE NewLine(Drawing(t, ch))
    BY DEF cons_putbyte, Drawing, Texts
  <1> QED
    BY <1>1, <1>2, <1>3, <1>4

LEMMA PutbyteOK ==
  ASSUME CharsOK, NEW t, TextOK(t), NEW ch \in Chars
  PROVE  TextOK(cons_putbyte(t, ch))
  <1>0. t \in Texts /\ t.col \in Cols /\ t.row \in Rows
    BY DEF TextOK, Texts
  <1>1. CASE ch = CONS_CHAR_BKSPC
    <2>1. CASE t.col > 0
      <3>1. t.col - 1 \in Cols
        BY <1>0, <2>1, Sizes DEF Cols
      <3>2. TextOK(Erasing(t))
        BY <3>1, BlankCell, DrawOK DEF Erasing, Blank
      <3> QED
        BY <1>0, <1>1, <2>1, <3>1, <3>2, PutbyteCases, ColOK
    <2>2. CASE ~(t.col > 0)
      BY <1>0, <1>1, <2>2, PutbyteCases
    <2> QED
      BY <2>1, <2>2
  <1>2. CASE ch = CONS_CHAR_CR
    <2>1. 0 \in Cols
      BY Sizes DEF Cols
    <2> QED
      BY <1>0, <1>2, <2>1, PutbyteCases, ColOK
  <1>3. CASE ch = CONS_CHAR_LF
    BY <1>0, <1>3, PutbyteCases, NewLineOK
  <1>4. CASE ch \in Printable
    <2>1. TextOK(Drawing(t, ch))
      <3>1. [char |-> ch, color |-> cons_curr_color] \in Cells
        BY <1>4 DEF Cells, CharsOK
      <3> QED
        BY <1>0, <3>1, DrawOK DEF Drawing
    <2>2. CASE t.col < CONSOLE_WIDTH - 1
      <3>1. t.col + 1 \in Cols
        BY <1>0, <2>2, Sizes DEF Cols
      <3> QED
        BY <1>0, <1>4, <2>1, <2>2, <3>1, PutbyteCases, ColOK
    <2>3. CASE ~(t.col < CONSOLE_WIDTH - 1)
      BY <1>0, <1>4, <2>1, <2>3, PutbyteCases, NewLineOK
    <2> QED
      BY <2>2, <2>3
  <1> QED
    BY <1>1, <1>2, <1>3, <1>4, Controls

-----------------------------------------------------------------------------
(* A fold over a string is the last of the texts that come about when its  *)
(* characters are put one after the other.  FoldLeft is a recursive        *)
(* function on the sets of positions of the string; that there is one      *)
(* follows by induction on the largest position.                           *)
FoldBody(t, s, g, x) ==
  IF x = {} THEN t ELSE cons_putbyte(g[x \ {Max(x)}], s[Max(x)])

LEMMA FoldDef ==
  ASSUME NEW t, NEW s
  PROVE  FoldLeft(cons_putbyte, t, s)
           = (CHOOSE it : it = [x \in SUBSET (DOMAIN s) |-> FoldBody(t, s, it, x)])[DOMAIN s]
  BY DEF FoldLeft, MapThenFoldSet, FoldBody

LEMMA MaxIs ==
  ASSUME NEW m \in Nat, NEW x \in SUBSET (1 .. m), m \in x
  PROVE  Max(x) = m
  <1>1. \A y \in x : m >= y
    OBVIOUS
  <1>2. \A k \in x : (\A y \in x : k >= y) => k = m
    <2> SUFFICES ASSUME NEW k \in x, \A y \in x : k >= y PROVE k = m
      OBVIOUS
    <2>1. k \in Int /\ k <= m /\ k >= m
      OBVIOUS
    <2> QED
      BY <2>1
  <1> QED
    BY <1>1, <1>2 DEF Max

LEMMA FoldExists ==
  ASSUME NEW t, NEW s, NEW n \in Nat
  PROVE  \E g : \A x \in SUBSET (1 .. n) : g[x] = FoldBody(t, s, g, x)
  <1> DEFINE Steps(m) == \E g : \A x \in SUBSET (1 .. m) : g[x] = FoldBody(t, s, g, x)
             S == {m \in Nat : Steps(m)}
  <1>1. 0 \in S
    <2> DEFINE g == [x \in {{}} |-> t]
    <2>1. \A x \in SUBSET (1 .. 0) : x = {}
      OBVIOUS
    <2>2. g[{}] = FoldBody(t, s, g, {})
      BY DEF FoldBody
    <2> HIDE DEF g
    <2>3. \A x \in SUBSET (1 .. 0) : g[x] = FoldBody(t, s, g, x)
      BY <2>1, <2>2
    <2> QED
      BY <2>3
  <1>2. ASSUME NEW m \in Nat, m \in S
        PROVE  m + 1 \in S
    <2>1. PICK g : \A x \in SUBSET (1 .. m) : g[x] = FoldBody(t, s, g, x)
      BY <1>2
    <2> DEFINE new == [x \in SUBSET (1 .. m + 1) |->
                         IF m + 1 \in x THEN cons_putbyte(g[x \ {m + 1}], s[m + 1]) ELSE g[x]]
    <2>2. \A x \in SUBSET (1 .. m) : x \in SUBSET (1 .. m + 1) /\ m + 1 \notin x
      OBVIOUS
    <2>3. \A x \in SUBSET (1 .. m) : new[x] = g[x]
      BY <2>2
    <2>4. ASSUME NEW x \in SUBSET (1 .. m + 1)
          PROVE  new[x] = FoldBody(t, s, new, x)
      <3>1. CASE m + 1 \in x
        <4>1. Max(x) = m + 1 /\ x # {}
          BY <3>1, MaxIs
        <4>2. x \ {m + 1} \in SUBSET (1 .. m)
          OBVIOUS
        <4>3. new[x] = cons_putbyte(g[x \ {m + 1}], s[m + 1])
          BY <3>1
        <4> HIDE DEF new
        <4> QED
          BY <2>3, <4>1, <4>2, <4>3 DEF FoldBody
      <3>2. CASE m + 1 \notin x
        <4>1. x \in SUBSET (1 .. m)
          BY <3>2
        <4>2. x \ {Max(x)} \in SUBSET (1 .. m)
          BY <4>1
        <4> HIDE DEF new
        <4>3. new[x] = FoldBody(t, s, g, x)
          BY <2>1, <2>3, <4>1
        <4>4. new[x \ {Max(x)}] = g[x \ {Max(x)}]
          BY <2>3, <4>2
        <4> QED
          BY <4>3, <4>4 DEF FoldBody
      <3> QED
        BY <3>1, <3>2
    <2> HIDE DEF new
    <2>5. Steps(m + 1)
      BY <2>4
    <2> QED
      BY <2>5
  <1> HIDE DEF S
  <1>3. n \in S
    BY <1>1, <1>2, Induction
  <1> QED
    BY <1>3 DEF S

(* h is what a text t becomes as the first n characters of s are put.      *)
PutOneByOne(h, t, s, n) ==
  h[0] = t /\ \A m \in 1 .. n : h[m] = cons_putbyte(h[m - 1], s[m])

LEMMA FoldSteps ==
  ASSUME NEW t, NEW s, NEW n \in Nat, DOMAIN s = 1 .. n
  PROVE  \E h : PutOneByOne(h, t, s, n) /\ FoldLeft(cons_putbyte, t, s) = h[n]
  <1> DEFINE D == SUBSET (1 .. n)
             Is(it) == it = [x \in D |-> FoldBody(t, s, it, x)]
             it == CHOOSE f : Is(f)
             h == [m \in 0 .. n |-> it[1 .. m]]
  <1>1. \E f : Is(f)
    <2>1. PICK g : \A x \in D : g[x] = FoldBody(t, s, g, x)
      BY FoldExists
    <2> DEFINE f == [x \in D |-> g[x]]
    <2>2. ASSUME NEW x \in D
          PROVE  f[x] = FoldBody(t, s, f, x)
      <3>1. x \ {Max(x)} \in D
        OBVIOUS
      <3>2. f[x] = g[x] /\ f[x \ {Max(x)}] = g[x \ {Max(x)}]
        BY <3>1
      <3> HIDE DEF f
      <3> QED
        BY <2>1, <3>2 DEF FoldBody
    <2>3. f = [x \in D |-> FoldBody(t, s, f, x)]
      BY <2>2
    <2> HIDE DEF f
    <2> QED
      BY <2>3
  <1>2. Is(it)
    BY <1>1
  <1>3. FoldLeft(cons_putbyte, t, s) = it[1 .. n]
    BY FoldDef
  <1> HIDE DEF it
  <1>4. \A x \in D : it[x] = FoldBody(t, s, it, x)
    BY <1>2
  <1>5. \A m \in 0 .. n : 1 .. m \in D
    OBVIOUS
  <1>6. h[0] = t
    <2>1. 1 .. 0 = {} /\ {} \in D /\ h[0] = it[1 .. 0]
      OBVIOUS
    <2> QED
      BY <1>4, <2>1 DEF FoldBody
  <1>7. ASSUME NEW m \in 1 .. n
        PROVE  h[m] = cons_putbyte(h[m - 1], s[m])
    <2>1. m \in Nat /\ m \in 1 .. m /\ m \in 0 .. n /\ m - 1 \in 0 .. n
      OBVIOUS
    <2>2. Max(1 .. m) = m /\ 1 .. m # {}
      BY <2>1, MaxIs
    <2>3. (1 .. m) \ {m} = 1 .. m - 1
      BY <2>1
    <2>4. it[1 .. m] = cons_putbyte(it[1 .. m - 1], s[m])
      BY <1>4, <1>5, <2>1, <2>2, <2>3 DEF FoldBody
    <2> QED
      BY <2>1, <2>4
  <1>8. h[n] = it[1 .. n]
    OBVIOUS
  <1> HIDE DEF h
  <1> QED
    BY <1>3, <1>6, <1>7, <1>8 DEF PutOneByOne

LEMMA PutbytesOK ==
  ASSUME CharsOK, NEW t, TextOK(t), NEW s \in Seq(Chars)
  PROVE  TextOK(FoldLeft(cons_putbyte, t, s))
  <1>0. Len(s) \in Nat /\ DOMAIN s = 1 .. Len(s) /\ \A m \in 1 .. Len(s) : s[m] \in Chars
    BY LenProperties, ElementOfSeq
  <1>1. PICK h : PutOneByOne(h, t, s, Len(s)) /\ FoldLeft(cons_putbyte, t, s) = h[Len(s)]
    BY <1>0, FoldSteps
  <1> DEFINE S == {m \in Nat : m <= Len(s) => TextOK(h[m])}
  <1>2. 0 \in S
    BY <1>1 DEF PutOneByOne
  <1>3. ASSUME NEW m \in Nat, m \in S
        PROVE  m + 1 \in S
    <2> SUFFICES ASSUME m + 1 <= Len(s) PROVE TextOK(h[m + 1])
      OBVIOUS
    <2>1. TextOK(h[m])
      BY <1>0, <1>3
    <2>2. m + 1 \in 1 .. Len(s) /\ m + 1 - 1 = m
      BY <1>0
    <2>3. h[m + 1] = cons_putbyte(h[m], s[m + 1]) /\ s[m + 1] \in Chars
      BY <1>0, <1>1, <2>2 DEF PutOneByOne
    <2> QED
      BY <2>1, <2>3, PutbyteOK
  <1> HIDE DEF S
  <1>4. Len(s) \in S
    BY <1>0, <1>2, <1>3, Induction
  <1> QED
    BY <1>0, <1>1, <1>4 DEF S

-----------------------------------------------------------------------------
(* The inductive invariant.                                                *)
IInv == TypeOK /\ CursorShown

LEMMA TextIsOK ==
  ASSUME IInv
  PROVE  CharsOK /\ TextOK(Text)
  BY DEF IInv, TypeOK, CharsOK, TextOK, Texts, BehindKept, Text, Memory, Rows, Cols

(* The register, when it is set, is the cursor's cell, which fits.         *)
Fits(n) == n \in Nat /\ n < 65536

LEMMA Register == (\A a \in Screen : Fits(a)) /\ Fits(OutOfRange) /\ OutOfRange \notin Screen
  <1>1. (\A a \in Screen : Fits(a)) /\ Fits(OutOfRange)
    BY Sizes DEF Screen, OutOfRange, Fits
  <1>2. OutOfRange \notin Screen
    BY Sizes, ConsoleAssumption DEF Screen, OutOfRange
  <1> QED
    BY <1>1, <1>2

LEMMA DisplaysCursor ==
  ASSUME cons_curr_row' \in Rows, cons_curr_col' \in Cols, cons_display_cursor
  PROVE  crtc' = FB_LOC_CHAR(cons_curr_row', cons_curr_col') /\ crtc' \in Screen
  <1>1. FB_LOC_CHAR(cons_curr_row', cons_curr_col') \in Screen
    BY Cell
  <1>2. \A x \in Nat : x < 65536 => x % 65536 = x
    OBVIOUS
  <1>3. Fits(FB_LOC_CHAR(cons_curr_row', cons_curr_col'))
    BY <1>1, Register
  <1> QED
    BY <1>1, <1>2, <1>3 DEF cons_display_cursor, FB_LOC_CHAR, Fits

(* A call that leaves the cursor's state moves the register with it.       *)
LEMMA UpdatesCursor ==
  ASSUME IInv, installed, installed' = installed, cons_cursor_state' = cons_cursor_state,
         cons_curr_row' \in Rows, cons_curr_col' \in Cols, cons_update_cursor
  PROVE  Fits(crtc') /\ CursorShown'
  <1>1. CASE cons_cursor_state = CONS_CURSOR_VISIBLE
    <2>1. cons_display_cursor
      BY <1>1 DEF cons_update_cursor
    <2>2. crtc' = FB_LOC_CHAR(cons_curr_row', cons_curr_col') /\ Fits(crtc')
      BY <2>1, DisplaysCursor, Register
    <2> QED
      BY <1>1, <2>2 DEF CursorShown, FB_LOC_CHAR
  <1>2. CASE cons_cursor_state # CONS_CURSOR_VISIBLE
    <2>1. crtc' = crtc
      BY <1>2 DEF cons_update_cursor
    <2> QED
      BY <1>2, <2>1 DEF IInv, TypeOK, CursorShown, Fits, Screen, ScreenSize
  <1> QED
    BY <1>1, <1>2

(* A call that writes text.                                                *)
LEMMA SetTextIInv ==
  ASSUME IInv, installed, NEW t, TextOK(t), SetText(t), cons_update_cursor,
         UNCHANGED <<cons_curr_color, cons_cursor_state, installed>>
  PROVE  IInv'
  <1>1. /\ cons_curr_row' \in Rows /\ cons_curr_col' \in Cols
        /\ fb' \in [Memory -> Cells]
    BY DEF SetText, TextOK, Texts
  <1>2. Fits(crtc') /\ CursorShown'
    BY <1>1, UpdatesCursor
  <1> QED
    BY <1>1, <1>2 DEF IInv, TypeOK, Memory, Rows, Cols, Fits, Cells, ScreenSize

LEMMA ClearOK ==
  ASSUME fb \in [Memory -> Cells]
  PROVE  TextOK([row |-> 0, col |-> 0, fb |-> cons_clear(fb)])
  <1>1. 0 \in Rows /\ 0 \in Cols
    BY Sizes DEF Rows, Cols
  <1>2. cons_clear(fb) \in [Memory -> Cells] /\ \A a \in Memory \ Screen : cons_clear(fb)[a] = fb[a]
    BY BlankCell DEF cons_clear
  <1> QED
    BY <1>1, <1>2 DEF TextOK, Texts, BehindKept

LEMMA StringIsSeq ==
  ASSUME NEW str \in Strings, NEW length \in -1 .. Len(str)
  PROVE  /\ str \in Seq(Chars) /\ StringAt(str) = str
         /\ SubSeq(str, 1, length) \in Seq(Chars)
         /\ Len(SubSeq(str, 1, length)) = IF length < 0 THEN 0 ELSE length
         /\ \A i \in 1 .. length : SubSeq(str, 1, length)[i] = str[i]
  <1>1. str \in Seq(Chars) /\ str # NULL
    BY ConsoleAssumption
  <1> QED
    BY <1>1 DEF StringAt

-----------------------------------------------------------------------------
(* Each call preserves the invariant and leaves what is behind the screen  *)
(* alone, draw_char apart, which writes where it is told.                  *)
BehindScreen == \A a \in (DOMAIN fb) \ Screen : fb'[a] = fb[a]

LEMMA TextBehind ==
  ASSUME IInv, NEW t, TextOK(t), SetText(t)
  PROVE  BehindScreen
  BY DEF IInv, TypeOK, TextOK, BehindKept, SetText, BehindScreen, Memory

LEMMA DefaultColor == CONS_DEFAULT_COLOR \in Colors
  BY ConsoleAssumption

LEMMA InitIInv ==
  ASSUME Init
  PROVE  IInv
  <1>1. BootCell \in Cells
    BY ConsoleAssumption DEF Cells
  <1>2. fb \in [0 .. ScreenSize + CONSOLE_WIDTH - 1 -> Cells]
    BY <1>1 DEF Init
  <1>3. crtc \in Nat /\ crtc < 65536
    BY Sizes DEF Init
  <1>4. 0 \in 0 .. CONSOLE_HEIGHT - 1 /\ 0 \in 0 .. CONSOLE_WIDTH - 1
    BY Sizes
  <1>5. TypeOK
    <2>1. /\ cons_curr_row \in 0 .. CONSOLE_HEIGHT - 1 /\ cons_curr_col \in 0 .. CONSOLE_WIDTH - 1
          /\ cons_curr_color \in Colors
      BY <1>4, DefaultColor DEF Init
    <2>2. cons_cursor_state \in {CONS_CURSOR_VISIBLE, CONS_CURSOR_HIDDEN} /\ installed \in BOOLEAN
      BY DEF Init
    <2> QED
      BY <1>2, <1>3, <2>1, <2>2 DEF TypeOK
  <1>6. CursorShown
    BY DEF Init, CursorShown
  <1> QED
    BY <1>5, <1>6 DEF IInv

LEMMA ConsoleInit ==
  ASSUME IInv, console_init
  PROVE  IInv' /\ BehindScreen
  <1> DEFINE t == [row |-> 0, col |-> 0, fb |-> cons_clear(fb)]
  <1>1. TextOK(t) /\ SetText(t)
    BY ClearOK DEF IInv, TypeOK, Memory, console_init
  <1>2. cons_curr_row' \in Rows /\ cons_curr_col' \in Cols /\ fb' \in [Memory -> Cells]
    BY <1>1 DEF TextOK, Texts, SetText
  <1>3. crtc' = FB_LOC_CHAR(cons_curr_row', cons_curr_col') /\ Fits(crtc')
    BY <1>2, DisplaysCursor, Register DEF console_init
  <1>4. IInv'
    <2>1. TypeOK'
      BY <1>2, <1>3, DefaultColor
         DEF console_init, TypeOK, Memory, Rows, Cols, Fits, Cells, ScreenSize
    <2>2. CursorShown'
      BY <1>3 DEF console_init, CursorShown, FB_LOC_CHAR
    <2> QED
      BY <2>1, <2>2 DEF IInv
  <1> HIDE DEF t
  <1> QED
    BY <1>1, <1>4, TextBehind

LEMMA ClearConsole ==
  ASSUME IInv, clear_console
  PROVE  IInv' /\ BehindScreen
  <1> DEFINE t == [row |-> 0, col |-> 0, fb |-> cons_clear(fb)]
  <1>1. TextOK(t) /\ SetText(t)
    BY ClearOK DEF IInv, TypeOK, Memory, clear_console
  <1> HIDE DEF t
  <1> QED
    BY <1>1, TextBehind, SetTextIInv DEF clear_console

LEMMA Putbyte ==
  ASSUME IInv, NEW ch \in Chars, putbyte(ch)
  PROVE  IInv' /\ BehindScreen
  <1>1. TextOK(cons_putbyte(Text, ch))
    BY TextIsOK, PutbyteOK
  <1> QED
    BY <1>1, TextBehind, SetTextIInv DEF putbyte

LEMMA Putbytes ==
  ASSUME IInv, NEW str \in Strings, NEW length \in -1 .. Len(str), putbytes(str, length)
  PROVE  IInv' /\ BehindScreen
  <1> DEFINE t == FoldLeft(cons_putbyte, Text, SubSeq(StringAt(str), 1, length))
  <1>1. SubSeq(StringAt(str), 1, length) \in Seq(Chars)
    BY StringIsSeq
  <1>2. TextOK(t)
    BY <1>1, TextIsOK, PutbytesOK
  <1>3. SetText(t)
    BY DEF putbytes
  <1> HIDE DEF t
  <1> QED
    BY <1>2, <1>3, TextBehind, SetTextIInv DEF putbytes

LEMMA DrawChar ==
  ASSUME IInv, NEW row \in DrawRows, NEW col \in Cols, NEW ch \in Printable, NEW c \in Colors,
         draw_char(row, col, ch, c)
  PROVE  IInv' /\ (row \in Rows => BehindScreen)
  <1> DEFINE cell == [char |-> ch, color |-> c]
             loc == FB_LOC_CHAR(row, col)
  <1>1. cell \in Cells
    BY DEF Cells
  <1>2. fb \in [Memory -> Cells] /\ fb' = [fb EXCEPT ![loc] = cell]
    BY DEF IInv, TypeOK, Memory, draw_char, cons_draw_char
  <1>3. fb' \in [Memory -> Cells]
    BY <1>1, <1>2
  <1>4. row \in Rows => loc \in Screen
    BY Cell
  <1>5. row \in Rows => BehindScreen
    <2> HIDE DEF loc
    <2> QED
      BY <1>2, <1>4 DEF BehindScreen
  <1>6. IInv'
    BY <1>3 DEF draw_char, IInv, TypeOK, CursorShown, Memory, Cells, ScreenSize, Screen, FB_LOC_CHAR
  <1> QED
    BY <1>5, <1>6

LEMMA SetTermColor ==
  ASSUME IInv, NEW c, set_term_color(c)
  PROVE  IInv' /\ BehindScreen
  BY DEF set_term_color, IInv, TypeOK, CursorShown, BehindScreen, Cells, ScreenSize, Screen,
     FB_LOC_CHAR

LEMMA SetCursor ==
  ASSUME IInv, NEW row, NEW col, set_cursor(row, col)
  PROVE  IInv' /\ BehindScreen
  <1>1. BehindScreen
    BY DEF set_cursor, BehindScreen
  <1>2. CASE row \in Rows /\ col \in Cols
    <2>1. SetText([row |-> row, col |-> col, fb |-> fb]) /\ cons_update_cursor
      BY <1>2 DEF set_cursor, SetText, Rows, Cols
    <2>2. TextOK([row |-> row, col |-> col, fb |-> fb])
      BY <1>2 DEF IInv, TypeOK, Memory, TextOK, Texts, BehindKept
    <2> QED
      BY <1>1, <2>1, <2>2, SetTextIInv DEF set_cursor
  <1>3. CASE ~(row \in Rows /\ col \in Cols)
    <2>1. UNCHANGED vars
      BY <1>3 DEF set_cursor, Rows, Cols, vars
    <2> QED
      BY <1>1, <2>1 DEF vars, IInv, TypeOK, CursorShown, Cells, ScreenSize, Screen, FB_LOC_CHAR
  <1> QED
    BY <1>2, <1>3

LEMMA ShowCursor ==
  ASSUME IInv, show_cursor
  PROVE  IInv' /\ BehindScreen
  <1>1. BehindScreen
    BY DEF show_cursor, BehindScreen
  <1>2. cons_curr_row' \in Rows /\ cons_curr_col' \in Cols
    BY DEF IInv, TypeOK, show_cursor, Rows, Cols
  <1>3. crtc' = FB_LOC_CHAR(cons_curr_row', cons_curr_col') /\ Fits(crtc')
    BY <1>2, DisplaysCursor, Register DEF show_cursor
  <1>4. IInv'
    BY <1>3 DEF show_cursor, IInv, TypeOK, CursorShown, Fits, Cells, ScreenSize, FB_LOC_CHAR
  <1> QED
    BY <1>1, <1>4

LEMMA HideCursor ==
  ASSUME IInv, hide_cursor
  PROVE  IInv' /\ BehindScreen
  <1>1. BehindScreen
    BY DEF hide_cursor, BehindScreen
  <1>2. crtc' \notin Screen /\ Fits(crtc')
    BY Register DEF hide_cursor
  <1>3. cons_cursor_state' # CONS_CURSOR_VISIBLE
    BY DEF hide_cursor, CONS_CURSOR_HIDDEN, CONS_CURSOR_VISIBLE
  <1>4. IInv'
    BY <1>2, <1>3 DEF hide_cursor, IInv, TypeOK, CursorShown, Fits, Cells, ScreenSize, Screen,
       FB_LOC_CHAR
  <1> QED
    BY <1>1, <1>4

LEMMA NextIInv ==
  ASSUME IInv, [Next]_vars
  PROVE  IInv' /\ (DrawRows \subseteq Rows => BehindScreen)
  <1>1. CASE console_init
    BY <1>1, ConsoleInit
  <1>2. CASE clear_console
    BY <1>2, ClearConsole
  <1>3. CASE show_cursor
    BY <1>3, ShowCursor
  <1>4. CASE hide_cursor
    BY <1>4, HideCursor
  <1>5. CASE \E ch \in Chars : putbyte(ch)
    BY <1>5, Putbyte
  <1>6. CASE \E str \in Strings : \E length \in -1 .. Len(str) : putbytes(str, length)
    BY <1>6, Putbytes
  <1>7. CASE \E row \in DrawRows, col \in 0 .. CONSOLE_WIDTH - 1, ch \in Printable, c \in Colors :
               draw_char(row, col, ch, c)
    BY <1>7, DrawChar DEF Cols
  <1>8. CASE \E c \in Colors \cup {InvalidColor} : set_term_color(c)
    BY <1>8, SetTermColor
  <1>9. CASE \E row \in -1 .. CONSOLE_HEIGHT, col \in -1 .. CONSOLE_WIDTH : set_cursor(row, col)
    BY <1>9, SetCursor
  <1>10. CASE UNCHANGED vars
    BY <1>10 DEF vars, IInv, TypeOK, CursorShown, BehindScreen, Cells, ScreenSize, Screen,
       FB_LOC_CHAR
  <1> QED
    BY <1>1, <1>2, <1>3, <1>4, <1>5, <1>6, <1>7, <1>8, <1>9, <1>10 DEF Next

(* TypeOK and CursorShown: the two together are inductive, for a call that *)
(* does not move the register relies on where it was.                      *)
THEOREM Invariant == Spec => []IInv
  BY InitIInv, NextIInv, PTL DEF Spec

(* TypeOK: the cursor never leaves the screen, whatever is printed.        *)
THEOREM TypeCorrect == Spec => []TypeOK
  BY Invariant, PTL DEF IInv

(* CursorShown: the hardware cursor follows the software cursor.           *)
THEOREM CursorIsShown == Spec => []CursorShown
  BY Invariant, PTL DEF IInv

(* StaysOnScreen: nothing that the console does reaches the display memory *)
(* behind the screen, as long as draw_char is given rows of the screen.    *)
THEOREM WritesStayOnScreen ==
  ASSUME DrawRows \subseteq 0 .. CONSOLE_HEIGHT - 1
  PROVE  Spec => StaysOnScreen
  <1>1. DrawRows \subseteq Rows
    BY DEF Rows
  <1>2. IInv /\ [Next]_vars => [BehindScreen]_vars
    BY <1>1, NextIInv
  <1> QED
    BY <1>2, Invariant, PTL DEF Spec, StaysOnScreen, BehindScreen

-----------------------------------------------------------------------------
(* The refinement of Terminal: the page that a memory shows, and the text  *)
(* of Terminal that a text here stands for.                                *)
PageOf(m) ==
  [r \in 1 .. CONSOLE_HEIGHT |-> [c \in 1 .. CONSOLE_WIDTH |-> m[FB_LOC_CHAR(r - 1, c - 1)]]]
Abs(t) == [page |-> PageOf(t.fb), cursor |-> [row |-> t.row + 1, col |-> t.col + 1]]

LEMMA Positions ==
  /\ \A r \in 1 .. CONSOLE_HEIGHT : r - 1 \in Rows /\ r - 1 + 1 = r
  /\ \A c \in 1 .. CONSOLE_WIDTH : c - 1 \in Cols /\ c - 1 + 1 = c
  /\ \A row \in Rows : row + 1 \in 1 .. CONSOLE_HEIGHT /\ row + 1 - 1 = row /\ row \in Nat
  /\ \A col \in Cols : col + 1 \in 1 .. CONSOLE_WIDTH /\ col + 1 - 1 = col /\ col \in Nat
  BY Sizes DEF Rows, Cols

LEMMA PageCells ==
  ASSUME NEW m, NEW p \in [1 .. CONSOLE_HEIGHT -> [1 .. CONSOLE_WIDTH -> Cells]],
         \A r \in 1 .. CONSOLE_HEIGHT, c \in 1 .. CONSOLE_WIDTH :
           p[r][c] = m[FB_LOC_CHAR(r - 1, c - 1)]
  PROVE  PageOf(m) = p
  <1>1. \A r \in 1 .. CONSOLE_HEIGHT :
          p[r] = [c \in 1 .. CONSOLE_WIDTH |-> m[FB_LOC_CHAR(r - 1, c - 1)]]
    <2> TAKE r \in 1 .. CONSOLE_HEIGHT
    <2>1. \A c \in 1 .. CONSOLE_WIDTH : p[r][c] = m[FB_LOC_CHAR(r - 1, c - 1)]
      OBVIOUS
    <2> QED
      BY <2>1
  <1> QED
    BY <1>1 DEF PageOf

LEMMA PageType ==
  ASSUME NEW m \in [Memory -> Cells]
  PROVE  /\ PageOf(m) \in [1 .. CONSOLE_HEIGHT -> [1 .. CONSOLE_WIDTH -> Cells]]
         /\ \A r \in 1 .. CONSOLE_HEIGHT, c \in 1 .. CONSOLE_WIDTH :
              PageOf(m)[r][c] = m[FB_LOC_CHAR(r - 1, c - 1)]
  <1>1. \A r \in 1 .. CONSOLE_HEIGHT, c \in 1 .. CONSOLE_WIDTH :
          m[FB_LOC_CHAR(r - 1, c - 1)] \in Cells
    BY Cell, ScreenInMemory, Positions
  <1> QED
    BY <1>1 DEF PageOf

LEMMA PageDrawn ==
  ASSUME NEW m \in [Memory -> Cells], NEW row \in Rows, NEW col \in Cols, NEW cell \in Cells
  PROVE  PageOf([m EXCEPT ![FB_LOC_CHAR(row, col)] = cell])
           = [PageOf(m) EXCEPT ![row + 1][col + 1] = cell]
  <1> DEFINE new == [m EXCEPT ![FB_LOC_CHAR(row, col)] = cell]
             p == [PageOf(m) EXCEPT ![row + 1][col + 1] = cell]
             q == PageOf(m)
             Row == [1 .. CONSOLE_WIDTH -> Cells]
  <1>1. /\ q \in [1 .. CONSOLE_HEIGHT -> Row]
        /\ \A r \in 1 .. CONSOLE_HEIGHT, c \in 1 .. CONSOLE_WIDTH :
             q[r][c] = m[FB_LOC_CHAR(r - 1, c - 1)]
    BY PageType
  <1>2. row + 1 \in 1 .. CONSOLE_HEIGHT /\ col + 1 \in 1 .. CONSOLE_WIDTH
    BY Positions
  <1> HIDE DEF q
  <1> DEFINE changed == [q[row + 1] EXCEPT ![col + 1] = cell]
  <1>3. p = [q EXCEPT ![row + 1] = changed]
    BY DEF q
  <1>4. /\ changed \in Row
        /\ \A c \in 1 .. CONSOLE_WIDTH :
             changed[c] = IF c = col + 1 THEN cell ELSE q[row + 1][c]
    BY <1>1, <1>2
  <1> HIDE DEF changed, Row
  <1>5. /\ p \in [1 .. CONSOLE_HEIGHT -> Row]
        /\ \A r \in 1 .. CONSOLE_HEIGHT, c \in 1 .. CONSOLE_WIDTH :
             p[r][c] = IF r = row + 1 /\ c = col + 1 THEN cell ELSE m[FB_LOC_CHAR(r - 1, c - 1)]
    <2>1. /\ p \in [1 .. CONSOLE_HEIGHT -> Row]
          /\ \A r \in 1 .. CONSOLE_HEIGHT : p[r] = IF r = row + 1 THEN changed ELSE q[r]
      BY <1>1, <1>2, <1>3, <1>4
    <2> HIDE DEF p
    <2> QED
      BY <1>1, <1>4, <2>1
  <1> HIDE DEF p
  <1>6. ASSUME NEW r \in 1 .. CONSOLE_HEIGHT, NEW c \in 1 .. CONSOLE_WIDTH
        PROVE  p[r][c] = new[FB_LOC_CHAR(r - 1, c - 1)]
    <2>1. r - 1 \in Rows /\ c - 1 \in Cols /\ r - 1 \in Nat /\ row \in Nat
      BY Positions
    <2>2. FB_LOC_CHAR(r - 1, c - 1) \in Memory
      BY <2>1, Cell, ScreenInMemory
    <2>3. FB_LOC_CHAR(r - 1, c - 1) = FB_LOC_CHAR(row, col) <=> r = row + 1 /\ c = col + 1
      BY <2>1, CellDistinct, Positions
    <2>4. new[FB_LOC_CHAR(r - 1, c - 1)] =
            IF FB_LOC_CHAR(r - 1, c - 1) = FB_LOC_CHAR(row, col) THEN cell
            ELSE m[FB_LOC_CHAR(r - 1, c - 1)]
      BY <2>2
    <2> HIDE DEF new
    <2> QED
      BY <1>5, <2>3, <2>4
  <1> HIDE DEF new
  <1>7. PageOf(new) = p
    BY <1>5, <1>6, PageCells DEF Row
  <1> QED
    BY <1>7 DEF new, p, q

LEMMA PageScrolled ==
  ASSUME fb \in [Memory -> Cells], NEW t \in Texts, t.row = CONSOLE_HEIGHT - 1
  PROVE  PageOf(cons_scroll(t).fb) = Append(Tail(PageOf(t.fb)), T!EmptyRow)
  <1> DEFINE q == PageOf(t.fb)
             p == Append(Tail(q), T!EmptyRow)
             m == cons_scroll(t).fb
             Row == [1 .. CONSOLE_WIDTH -> Cells]
  <1>1. /\ q \in [1 .. CONSOLE_HEIGHT -> Row]
        /\ \A r \in 1 .. CONSOLE_HEIGHT, c \in 1 .. CONSOLE_WIDTH :
             q[r][c] = t.fb[FB_LOC_CHAR(r - 1, c - 1)]
    BY PageType DEF Texts
  <1> HIDE DEF q
  <1>2. T!EmptyRow \in Row /\ \A c \in 1 .. CONSOLE_WIDTH : T!EmptyRow[c] = Blank
    BY BlankCell DEF T!EmptyRow, T!Empty, Blank
  <1>3. q \in Seq(Row) /\ Len(q) = CONSOLE_HEIGHT /\ q # << >>
    BY <1>1, Sizes
  <1> HIDE DEF Row
  <1>4. /\ p \in Seq(Row) /\ Len(p) = CONSOLE_HEIGHT
        /\ \A r \in 1 .. CONSOLE_HEIGHT :
             p[r] = IF r < CONSOLE_HEIGHT THEN q[r + 1] ELSE T!EmptyRow
    <2>1. /\ Tail(q) \in Seq(Row) /\ Len(Tail(q)) = CONSOLE_HEIGHT - 1
          /\ \A r \in 1 .. CONSOLE_HEIGHT - 1 : Tail(q)[r] = q[r + 1]
      BY <1>3, HeadTailProperties
    <2> QED
      BY <1>2, <2>1, Sizes
  <1>5. p \in [1 .. CONSOLE_HEIGHT -> Row]
    BY <1>4, LenProperties
  <1> HIDE DEF p, m
  <1>7. ASSUME NEW r \in 1 .. CONSOLE_HEIGHT, NEW c \in 1 .. CONSOLE_WIDTH
        PROVE  p[r][c] = m[FB_LOC_CHAR(r - 1, c - 1)]
    <2>1. r - 1 \in Rows /\ c - 1 \in Cols
      BY Positions
    <2>2. m[FB_LOC_CHAR(r - 1, c - 1)] =
            IF r - 1 < CONSOLE_HEIGHT - 1 THEN t.fb[FB_LOC_CHAR(r - 1 + 1, c - 1)] ELSE Blank
      BY <2>1, Scrolled DEF m
    <2>3. CASE r < CONSOLE_HEIGHT
      <3>1. /\ r + 1 \in 1 .. CONSOLE_HEIGHT /\ r + 1 - 1 = r /\ r - 1 + 1 = r
            /\ r - 1 < CONSOLE_HEIGHT - 1
        BY <2>3, Sizes
      <3> QED
        BY <1>1, <1>4, <2>2, <2>3, <3>1
    <2>4. CASE ~(r < CONSOLE_HEIGHT)
      <3>1. ~(r - 1 < CONSOLE_HEIGHT - 1)
        BY <2>4, Sizes
      <3> QED
        BY <1>2, <1>4, <2>2, <2>4, <3>1
    <2> QED
      BY <2>3, <2>4
  <1>8. PageOf(m) = p
    BY <1>5, <1>7, PageCells DEF Row
  <1> QED
    BY <1>8 DEF p, q, m

LEMMA PageCleared ==
  ASSUME NEW m \in [Memory -> Cells]
  PROVE  PageOf(cons_clear(m)) = [r \in 1 .. CONSOLE_HEIGHT |-> T!EmptyRow]
  <1>1. \A r \in 1 .. CONSOLE_HEIGHT, c \in 1 .. CONSOLE_WIDTH :
          cons_clear(m)[FB_LOC_CHAR(r - 1, c - 1)] = Blank
    BY Cell, ScreenInMemory, Positions DEF cons_clear
  <1>2. T!EmptyRow = [c \in 1 .. CONSOLE_WIDTH |-> Blank]
    BY DEF T!EmptyRow, T!Empty, Blank
  <1> QED
    BY <1>1, <1>2 DEF PageOf

(* Every text and character here is one of Terminal, and written on alike. *)
LEMMA NewLineAbs ==
  ASSUME fb \in [Memory -> Cells], NEW t \in Texts
  PROVE  Abs(NewLine(t)) = T!NextRow(Abs(t))
  <1>0. t.row \in Int /\ t.row < CONSOLE_HEIGHT
    BY Sizes DEF Texts, Rows
  <1>1. CASE t.row < CONSOLE_HEIGHT - 1
    <2>1. /\ NewLine(t).row = t.row + 1 /\ NewLine(t).col = 0 /\ NewLine(t).fb = t.fb
      BY <1>1 DEF NewLine, Texts
    <2>2. t.row + 1 < CONSOLE_HEIGHT
      BY <1>0, <1>1, Sizes
    <2> QED
      BY <2>1, <2>2 DEF Abs, T!NextRow
  <1>2. CASE ~(t.row < CONSOLE_HEIGHT - 1)
    <2> DEFINE u == [t EXCEPT !.col = 0]
    <2>0. t.row = CONSOLE_HEIGHT - 1 /\ ~(t.row + 1 < CONSOLE_HEIGHT) /\ 0 \in Cols
      BY <1>0, <1>2, Sizes DEF Cols
    <2>1. u \in Texts /\ u.row = t.row /\ u.col = 0 /\ u.fb = t.fb
      BY <2>0 DEF Texts
    <2>2. NewLine(t) = cons_scroll(u)
      BY <1>2 DEF NewLine
    <2> HIDE DEF u
    <2>3. cons_scroll(u) = [u EXCEPT !.fb = cons_scroll(u).fb]
      BY <2>0, <2>1, Scrolled
    <2>4. cons_scroll(u).row = t.row /\ cons_scroll(u).col = 0
      BY <2>1, <2>3 DEF Texts
    <2>5. PageOf(cons_scroll(u).fb) = Append(Tail(PageOf(t.fb)), T!EmptyRow)
      BY <2>0, <2>1, PageScrolled
    <2>6. Abs(NewLine(t)) = [page |-> Append(Tail(PageOf(t.fb)), T!EmptyRow),
                             cursor |-> [row |-> t.row + 1, col |-> 1]]
      BY <2>2, <2>4, <2>5 DEF Abs
    <2>7. T!NextRow(Abs(t)) = [page |-> Append(Tail(PageOf(t.fb)), T!EmptyRow),
                               cursor |-> [row |-> t.row + 1, col |-> 1]]
      BY <2>0 DEF Abs, T!NextRow
    <2> QED
      BY <2>6, <2>7
  <1> QED
    BY <1>1, <1>2

(* A text with one cell drawn.                                             *)
Drew(t, col, cell) == [t EXCEPT !.fb = [t.fb EXCEPT ![FB_LOC_CHAR(t.row, col)] = cell]]

LEMMA DrawnAbs ==
  ASSUME NEW t \in Texts, NEW col \in Cols, NEW cell \in Cells
  PROVE  /\ Drew(t, col, cell) \in Texts
         /\ Drew(t, col, cell).row = t.row /\ Drew(t, col, cell).col = t.col
         /\ PageOf(Drew(t, col, cell).fb) = [PageOf(t.fb) EXCEPT ![t.row + 1][col + 1] = cell]
  <1> DEFINE m == [t.fb EXCEPT ![FB_LOC_CHAR(t.row, col)] = cell]
  <1>1. t.fb \in [Memory -> Cells] /\ t.row \in Rows
    BY DEF Texts
  <1>2. m \in [Memory -> Cells]
    BY <1>1, Drawn
  <1>3. PageOf(m) = [PageOf(t.fb) EXCEPT ![t.row + 1][col + 1] = cell]
    BY <1>1, PageDrawn
  <1>4. Drew(t, col, cell) = [t EXCEPT !.fb = m]
    BY DEF Drew
  <1> HIDE DEF m
  <1>5. Drew(t, col, cell) \in Texts /\ Drew(t, col, cell).fb = m
    BY <1>2, <1>4 DEF Texts
  <1> QED
    BY <1>3, <1>4, <1>5 DEF Texts

(* Terminal's backspace, away from the first column.                       *)
Put(p, r, c, cell) == [p EXCEPT ![r][c] = cell]

LEMMA TypeErases ==
  ASSUME NEW p, NEW r, NEW c, NEW k, c # 1, c - 1 = k
  PROVE  T!Type([page |-> p, cursor |-> [row |-> r, col |-> c]], CONS_CHAR_BKSPC)
           = [page |-> Put(p, r, k, Blank), cursor |-> [row |-> r, col |-> k]]
  <1> DEFINE x == [page |-> p, cursor |-> [row |-> r, col |-> c]]
             moved == [row |-> r, col |-> k]
  <1>1. x.cursor.row = r /\ x.cursor.col = c
    OBVIOUS
  <1> HIDE DEF x
  <1>2. T!Type(x, CONS_CHAR_BKSPC) = [x EXCEPT !.cursor.col = k, !.page[r][k] = Blank]
    BY <1>1, Controls DEF T!Type, T!Empty, Blank
  <1>3. [x EXCEPT !.cursor.col = k, !.page[r][k] = Blank]
          = [[x EXCEPT !.cursor.col = k] EXCEPT !.page[r][k] = Blank]
    OBVIOUS
  <1>4. [x EXCEPT !.cursor.col = k] = [page |-> p, cursor |-> moved]
    BY DEF x
  <1>5. [[page |-> p, cursor |-> moved] EXCEPT !.page[r][k] = Blank]
          = [page |-> Put(p, r, k, Blank), cursor |-> moved]
    BY DEF Put
  <1> QED
    BY <1>2, <1>3, <1>4, <1>5 DEF x

LEMMA PutbyteAbs ==
  ASSUME CharsOK, NEW t, TextOK(t), NEW ch \in Chars
  PROVE  Abs(cons_putbyte(t, ch)) = T!Type(Abs(t), ch)
  <1>0. /\ t \in Texts /\ fb \in [Memory -> Cells]
        /\ t.col \in Cols /\ t.col \in Nat /\ t.col < CONSOLE_WIDTH
    BY Sizes DEF TextOK, Texts, Cols, CharsOK
  <1>a. /\ Abs(t).page = PageOf(t.fb) /\ Abs(t).cursor.row = t.row + 1
        /\ Abs(t).cursor.col = t.col + 1
    BY DEF Abs
  <1>1. CASE ch = CONS_CHAR_BKSPC
    <2>1. CASE t.col > 0
      <3>1. t.col - 1 \in Cols /\ t.col - 1 + 1 = t.col /\ t.col + 1 # 1 /\ t.col + 1 - 1 = t.col
        BY <1>0, <2>1, Sizes DEF Cols
      <3> DEFINE u == Erasing(t)
                 p == [PageOf(t.fb) EXCEPT ![t.row + 1][t.col] = Blank]
      <3>2. u \in Texts /\ u.row = t.row /\ u.col = t.col /\ PageOf(u.fb) = p
        <4>1. u = Drew(t, t.col - 1, Blank)
          BY DEF Erasing, Drew, cons_draw_char, Blank
        <4> HIDE DEF u
        <4>2. PageOf(u.fb) = [PageOf(t.fb) EXCEPT ![t.row + 1][t.col - 1 + 1] = Blank]
          BY <1>0, <3>1, <4>1, BlankCell, DrawnAbs
        <4> QED
          BY <1>0, <3>1, <4>1, <4>2, BlankCell, DrawnAbs
      <3> HIDE DEF u
      <3>3. cons_putbyte(t, ch) = [u EXCEPT !.col = t.col - 1]
        BY <1>0, <1>1, <2>1, PutbyteCases DEF u
      <3>4. Abs([u EXCEPT !.col = t.col - 1]) =
              [page |-> p, cursor |-> [row |-> t.row + 1, col |-> t.col]]
        BY <3>1, <3>2 DEF Abs, Texts
      <3>5. T!Type(Abs(t), ch) =
              [page |-> Put(PageOf(t.fb), t.row + 1, t.col, Blank),
               cursor |-> [row |-> t.row + 1, col |-> t.col]]
        <4> DEFINE q == PageOf(t.fb)
                   r == t.row + 1
                   c == t.col + 1
                   k == t.col
        <4>1. c # 1 /\ c - 1 = k
          BY <1>0, <2>1
        <4>2. Abs(t) = [page |-> q, cursor |-> [row |-> r, col |-> c]]
          BY DEF Abs
        <4> HIDE DEF q, r, c, k, p
        <4>3. T!Type([page |-> q, cursor |-> [row |-> r, col |-> c]], CONS_CHAR_BKSPC)
                = [page |-> Put(q, r, k, Blank), cursor |-> [row |-> r, col |-> k]]
          BY <4>1, TypeErases
        <4>4. T!Type(Abs(t), ch)
                = [page |-> Put(q, r, k, Blank), cursor |-> [row |-> r, col |-> k]]
          BY <1>1, <4>2, <4>3
        <4> QED
          BY <4>4 DEF q, r, c, k
      <3> QED
        BY <3>3, <3>4, <3>5 DEF Put
    <2>2. CASE ~(t.col > 0)
      <3>1. t.col + 1 = 1
        BY <1>0, <2>2
      <3>2. cons_putbyte(t, ch) = t
        BY <1>0, <1>1, <2>2, PutbyteCases
      <3>3. T!Type(Abs(t), ch) = Abs(t)
        BY <1>1, <1>a, <3>1, Controls DEF T!Type
      <3> QED
        BY <3>2, <3>3
    <2> QED
      BY <2>1, <2>2
  <1>2. CASE ch = CONS_CHAR_CR
    <2>1. cons_putbyte(t, ch) = [t EXCEPT !.col = 0]
      BY <1>0, <1>2, PutbyteCases
    <2>2. Abs([t EXCEPT !.col = 0])
            = [page |-> PageOf(t.fb), cursor |-> [row |-> t.row + 1, col |-> 1]]
      BY <1>0 DEF Abs, Texts
    <2>3. T!Type(Abs(t), ch) = [page |-> PageOf(t.fb), cursor |-> [row |-> t.row + 1, col |-> 1]]
      BY <1>2, Controls DEF Abs, T!Type
    <2> QED
      BY <2>1, <2>2, <2>3
  <1>3. CASE ch = CONS_CHAR_LF
    <2>1. cons_putbyte(t, ch) = NewLine(t)
      BY <1>0, <1>3, PutbyteCases
    <2>2. T!Type(Abs(t), ch) = T!NextRow(Abs(t))
      BY <1>3, Controls DEF T!Type
    <2> QED
      BY <1>0, <2>1, <2>2, NewLineAbs
  <1>4. CASE ch \in Printable
    <2> DEFINE u == Drawing(t, ch)
               cell == [char |-> ch, color |-> cons_curr_color]
    <2>1. /\ u \in Texts /\ u.row = t.row /\ u.col = t.col
          /\ PageOf(u.fb) = [PageOf(t.fb) EXCEPT ![t.row + 1][t.col + 1] = cell]
      <3>1. cell \in Cells
        BY <1>4 DEF Cells, CharsOK
      <3>2. u = Drew(t, t.col, cell)
        BY DEF Drawing, Drew, cons_draw_char
      <3> HIDE DEF u, cell
      <3> QED
        BY <1>0, <3>1, <3>2, DrawnAbs
    <2> DEFINE typed == [Abs(t) EXCEPT !.page[t.row + 1][t.col + 1] = cell]
    <2>2. Abs(u) = typed
      <3> HIDE DEF u, cell
      <3> QED
        BY <2>1 DEF Abs
    <2>3. T!Type(Abs(t), ch) =
            IF t.col + 1 < CONSOLE_WIDTH THEN [typed EXCEPT !.cursor.col = t.col + 1 + 1]
                                         ELSE T!NextRow(typed)
      BY <1>4, <1>a, Controls DEF T!Type
    <2> HIDE DEF u, typed
    <2>4. CASE t.col < CONSOLE_WIDTH - 1
      <3>1. t.col + 1 < CONSOLE_WIDTH
        BY <1>0, <2>4, Sizes
      <3>2. cons_putbyte(t, ch) = [u EXCEPT !.col = t.col + 1]
        BY <1>0, <1>4, <2>4, PutbyteCases DEF u
      <3>3. Abs([u EXCEPT !.col = t.col + 1]) = [Abs(u) EXCEPT !.cursor.col = t.col + 1 + 1]
        BY <2>1 DEF Abs, Texts
      <3> QED
        BY <2>2, <2>3, <3>1, <3>2, <3>3
    <2>5. CASE ~(t.col < CONSOLE_WIDTH - 1)
      <3>1. ~(t.col + 1 < CONSOLE_WIDTH)
        BY <1>0, <2>5, Sizes
      <3>2. cons_putbyte(t, ch) = NewLine(u)
        BY <1>0, <1>4, <2>5, PutbyteCases DEF u
      <3> QED
        BY <1>0, <2>1, <2>2, <2>3, <3>1, <3>2, NewLineAbs
    <2> QED
      BY <2>4, <2>5
  <1> QED
    BY <1>1, <1>2, <1>3, <1>4, Controls

(* The fold over a string in terms of the fold over all but its last       *)
(* character, and so Terminal's recursion in terms of the fold.            *)
LEMMA FoldFront ==
  ASSUME NEW t, NEW s \in Seq(Chars), s # << >>
  PROVE  FoldLeft(cons_putbyte, t, s) =
           cons_putbyte(FoldLeft(cons_putbyte, t, SubSeq(s, 1, Len(s) - 1)), s[Len(s)])
  <1> DEFINE n == Len(s)
             f == SubSeq(s, 1, n - 1)
  <1>1. n \in Nat /\ n >= 1 /\ DOMAIN s = 1 .. n
    BY LenProperties, EmptySeq
  <1>2. /\ n - 1 \in Nat /\ DOMAIN f = 1 .. n - 1
        /\ \A i \in 1 .. n - 1 : f[i] = s[i]
    BY <1>1
  <1> HIDE DEF n, f
  <1>3. PICK h : PutOneByOne(h, t, s, n) /\ FoldLeft(cons_putbyte, t, s) = h[n]
    BY <1>1, FoldSteps
  <1>4. PICK g : PutOneByOne(g, t, f, n - 1) /\ FoldLeft(cons_putbyte, t, f) = g[n - 1]
    BY <1>2, FoldSteps
  <1> DEFINE S == {m \in Nat : m <= n - 1 => g[m] = h[m]}
  <1>5. 0 \in S
    BY <1>3, <1>4 DEF PutOneByOne
  <1>6. ASSUME NEW m \in Nat, m \in S
        PROVE  m + 1 \in S
    <2> SUFFICES ASSUME m + 1 <= n - 1 PROVE g[m + 1] = h[m + 1]
      OBVIOUS
    <2>1. g[m] = h[m] /\ m + 1 \in 1 .. n - 1 /\ m + 1 \in 1 .. n /\ m + 1 - 1 = m
      BY <1>1, <1>6
    <2>2. h[m + 1] = cons_putbyte(h[m], s[m + 1]) /\ g[m + 1] = cons_putbyte(g[m], f[m + 1])
      BY <1>3, <1>4, <2>1 DEF PutOneByOne
    <2>3. f[m + 1] = s[m + 1]
      BY <1>2, <2>1
    <2> QED
      BY <2>1, <2>2, <2>3
  <1> HIDE DEF S
  <1>7. n - 1 \in S
    BY <1>2, <1>5, <1>6, Induction
  <1>8. g[n - 1] = h[n - 1]
    BY <1>2, <1>7 DEF S
  <1>9. h[n] = cons_putbyte(h[n - 1], s[n])
    BY <1>1, <1>3 DEF PutOneByOne
  <1> QED
    BY <1>3, <1>4, <1>8, <1>9 DEF n, f

LEMMA FoldEmpty ==
  ASSUME NEW t
  PROVE  FoldLeft(cons_putbyte, t, << >>) = t
  <1>1. PICK h : PutOneByOne(h, t, << >>, 0) /\ FoldLeft(cons_putbyte, t, << >>) = h[0]
    <2>1. DOMAIN << >> = 1 .. 0
      OBVIOUS
    <2> QED
      BY <2>1, FoldSteps
  <1> QED
    BY <1>1 DEF PutOneByOne

LEMMA TextAbs == T!Text = Abs(Text)
  BY DEF T!Text, Abs, Text, PageOf, Page, CellAt, Position

LEMMA TypeAllAbs ==
  ASSUME IInv, NEW str \in Seq(Chars)
  PROVE  T!TypeAll[str] = Abs(FoldLeft(cons_putbyte, Text, str))
  <1> DEFINE Fold(s) == FoldLeft(cons_putbyte, Text, s)
             Shorter(s) == SubSeq(s, 1, Len(s) - 1)
             Body(f, s) == IF s = << >> THEN T!Text ELSE T!Type(f[Shorter(s)], s[Len(s)])
             Is(f) == f = [s \in Seq(Chars) |-> Body(f, s)]
             all == CHOOSE f : Is(f)
  <1>1. \A s \in Seq(Chars) : s # << >> =>
          /\ Len(s) \in Nat /\ Len(s) >= 1 /\ s[Len(s)] \in Chars
          /\ Shorter(s) \in Seq(Chars) /\ Len(Shorter(s)) = Len(s) - 1
    <2> TAKE s \in Seq(Chars)
    <2> HAVE s # << >>
    <2>1. Len(s) \in Nat /\ Len(s) >= 1
      BY LenProperties, EmptySeq
    <2>2. s[Len(s)] \in Chars
      BY <2>1, ElementOfSeq
    <2>3. Shorter(s) \in Seq(Chars) /\ Len(Shorter(s)) = Len(s) - 1
      <3> DEFINE n == Len(s)
      <3>1. /\ 1 \in Int /\ n - 1 \in Int /\ \A i \in 1 .. n - 1 : s[i] \in Chars
            /\ IF 1 <= n - 1 THEN n - 1 - 1 + 1 = n - 1 ELSE 0 = n - 1
        <4>1. n \in Nat /\ n >= 1
          BY <2>1
        <4>2. \A i \in 1 .. n : s[i] \in Chars
          BY ElementOfSeq
        <4> HIDE DEF n
        <4> QED
          BY <4>1, <4>2
      <3> HIDE DEF n
      <3>2. /\ SubSeq(s, 1, n - 1) \in Seq(Chars)
            /\ Len(SubSeq(s, 1, n - 1)) = IF 1 <= n - 1 THEN n - 1 - 1 + 1 ELSE 0
        BY <3>1, SubSeqProperties
      <3> QED
        BY <3>1, <3>2 DEF n
    <2> QED
      BY <2>1, <2>2, <2>3
  <1>2. Abs(Fold(<< >>)) = T!Text
    BY TextAbs, FoldEmpty
  <1>3. ASSUME NEW s \in Seq(Chars), s # << >>
        PROVE  Abs(Fold(s)) = T!Type(Abs(Fold(Shorter(s))), s[Len(s)])
    <2>1. CharsOK /\ TextOK(Fold(Shorter(s)))
      BY <1>1, <1>3, TextIsOK, PutbytesOK
    <2>2. Fold(s) = cons_putbyte(Fold(Shorter(s)), s[Len(s)])
      BY <1>3, FoldFront
    <2> HIDE DEF Fold, Front
    <2> QED
      BY <1>1, <1>3, <2>1, <2>2, PutbyteAbs
  <1>4. T!TypeAll = all
    BY DEF T!TypeAll
  <1> HIDE DEF Fold, Front
  <1>5. \E f : Is(f)
    <2> DEFINE f == [s \in Seq(Chars) |-> Abs(Fold(s))]
    <2>1. \A s \in Seq(Chars) : f[s] = Body(f, s)
      <3> TAKE s \in Seq(Chars)
      <3>1. CASE s = << >>
        BY <1>2, <3>1
      <3>2. CASE s # << >>
        <4>1. f[s] = Abs(Fold(s)) /\ f[Shorter(s)] = Abs(Fold(Shorter(s)))
          BY <1>1, <3>2
        <4> HIDE DEF f
        <4> QED
          BY <1>3, <3>2, <4>1
      <3> QED
        BY <3>1, <3>2
    <2>2. f = [s \in Seq(Chars) |-> f[s]]
      OBVIOUS
    <2> HIDE DEF f
    <2>3. Is(f)
      BY <2>1, <2>2
    <2> QED
      BY <2>3
  <1>6. Is(all)
    BY <1>5
  <1> HIDE DEF all
  <1>7. \A s \in Seq(Chars) : all[s] = Body(all, s)
    BY <1>6
  <1> DEFINE S == {n \in Nat : \A s \in Seq(Chars) : Len(s) = n => all[s] = Abs(Fold(s))}
  <1>8. 0 \in S
    <2> SUFFICES ASSUME NEW s \in Seq(Chars), Len(s) = 0 PROVE all[s] = Abs(Fold(s))
      OBVIOUS
    <2>1. s = << >>
      BY EmptySeq
    <2> QED
      BY <1>2, <1>7, <2>1
  <1>9. ASSUME NEW n \in Nat, n \in S
        PROVE  n + 1 \in S
    <2> SUFFICES ASSUME NEW s \in Seq(Chars), Len(s) = n + 1 PROVE all[s] = Abs(Fold(s))
      OBVIOUS
    <2>1. s # << >>
      OBVIOUS
    <2>2. Shorter(s) \in Seq(Chars) /\ Len(Shorter(s)) = n
      BY <1>1, <2>1
    <2>3. all[Shorter(s)] = Abs(Fold(Shorter(s)))
      BY <1>9, <2>2
    <2>4. all[s] = T!Type(all[Shorter(s)], s[Len(s)])
      BY <1>7, <2>1
    <2> QED
      BY <1>3, <2>1, <2>3, <2>4
  <1> HIDE DEF S
  <1>10. Len(str) \in S
    <2>1. Len(str) \in Nat
      BY LenProperties
    <2> QED
      BY <1>8, <1>9, <2>1, Induction
  <1>11. all[str] = Abs(Fold(str))
    BY <1>10 DEF S
  <1> QED
    BY <1>4, <1>11 DEF Fold

-----------------------------------------------------------------------------
(* What the user sees of the cursor, before and after a step.              *)
LEMMA SeenCell ==
  ASSUME NEW row \in Rows, NEW col \in Cols, NEW c, c = FB_LOC_CHAR(row, col)
  PROVE  c \in Screen /\ (c \div CONSOLE_WIDTH) + 1 = row + 1 /\ (c % CONSOLE_WIDTH) + 1 = col + 1
  BY Cell, CellDivided

LEMMA SeenIs ==
  ASSUME IInv, installed
  PROVE  Seen = IF cons_cursor_state = CONS_CURSOR_VISIBLE THEN {Position} ELSE {}
  <1>1. cons_curr_row \in Rows /\ cons_curr_col \in Cols
    BY DEF IInv, TypeOK, Rows, Cols
  <1> QED
    BY <1>1, SeenCell DEF IInv, CursorShown, Seen, Position

LEMMA SeenNext ==
  ASSUME IInv', installed'
  PROVE  Seen' = IF cons_cursor_state' = CONS_CURSOR_VISIBLE THEN {Position'} ELSE {}
  <1>1. cons_curr_row' \in Rows /\ cons_curr_col' \in Cols
    BY DEF IInv, TypeOK, Rows, Cols
  <1>2. CursorShown'
    BY DEF IInv
  <1>4. CASE cons_cursor_state' = CONS_CURSOR_VISIBLE
    <2>1. crtc' = FB_LOC_CHAR(cons_curr_row', cons_curr_col')
      BY <1>2, <1>4 DEF CursorShown, FB_LOC_CHAR
    <2> QED
      BY <1>1, <1>4, <2>1, SeenCell DEF Seen, Position, Screen, ScreenSize
  <1>5. CASE cons_cursor_state' # CONS_CURSOR_VISIBLE
    BY <1>2, <1>5 DEF CursorShown, Seen, Screen, ScreenSize
  <1> QED
    BY <1>4, <1>5

LEMMA CursorMoves ==
  ASSUME IInv, IInv', installed, installed' = installed, cons_cursor_state' = cons_cursor_state
  PROVE  T!SeenAt(Position')
  <1>1. installed'
    OBVIOUS
  <1> QED
    BY <1>1, SeenIs, SeenNext DEF T!SeenAt

LEMMA TextStep ==
  ASSUME IInv, NEW t, SetText(t)
  PROVE  Page' = Abs(t).page /\ Position' = Abs(t).cursor
  BY DEF SetText, Abs, PageOf, Page, CellAt, Position, FB_LOC_CHAR

LEMMA WriteStep ==
  ASSUME IInv, IInv', installed, NEW s \in Seq(Chars),
         SetText(FoldLeft(cons_putbyte, Text, s)),
         UNCHANGED <<cons_curr_color, cons_cursor_state, installed>>
  PROVE  T!Write(s)
  <1> DEFINE t == FoldLeft(cons_putbyte, Text, s)
  <1>1. T!TypeAll[s] = Abs(t)
    BY TypeAllAbs
  <1> HIDE DEF t
  <1>2. SetText(t)
    BY DEF t
  <1>3. Page' = Abs(t).page /\ Position' = Abs(t).cursor
    BY <1>2, TextStep
  <1>4. T!SeenAt(Position')
    BY CursorMoves
  <1> QED
    BY <1>1, <1>3, <1>4 DEF T!Write

(* Each call is a step of Terminal.                                        *)
LEMMA FoldOne ==
  ASSUME NEW t, NEW ch \in Chars
  PROVE  FoldLeft(cons_putbyte, t, <<ch>>) = cons_putbyte(t, ch)
  <1>1. /\ <<ch>> \in Seq(Chars) /\ <<ch>> # << >> /\ Len(<<ch>>) = 1 /\ <<ch>>[1] = ch
        /\ SubSeq(<<ch>>, 1, 0) = << >>
    BY SubSeqEmpty
  <1>2. FoldLeft(cons_putbyte, t, <<ch>>) =
          cons_putbyte(FoldLeft(cons_putbyte, t, SubSeq(<<ch>>, 1, Len(<<ch>>) - 1)),
                       <<ch>>[Len(<<ch>>)])
    BY <1>1, FoldFront
  <1>3. SubSeq(<<ch>>, 1, Len(<<ch>>) - 1) = << >>
    <2>1. Len(<<ch>>) - 1 = 0
      BY <1>1
    <2> QED
      BY <1>1, <2>1
  <1> QED
    BY <1>1, <1>2, <1>3, FoldEmpty

LEMMA PutbyteStep ==
  ASSUME IInv, IInv', NEW ch \in Chars, putbyte(ch)
  PROVE  T!TNext(Written)
  <1>1. <<ch>> \in Seq(Chars) /\ <<ch>> \in Written
    BY DEF Written
  <1>2. T!Write(<<ch>>)
    BY <1>1, FoldOne, WriteStep DEF putbyte
  <1> QED
    BY <1>1, <1>2 DEF T!TNext

LEMMA PutbytesStep ==
  ASSUME IInv, IInv', NEW str \in Strings, NEW length \in -1 .. Len(str), putbytes(str, length)
  PROVE  T!TNext(Written)
  <1> DEFINE s == SubSeq(str, 1, length)
  <1>1. s \in Seq(Chars) /\ StringAt(str) = str
    BY StringIsSeq
  <1>2. s \in Prefixes(str)
    <2>1. CASE length = -1
      <3>1. s = << >>
        BY <2>1, SubSeqEmpty
      <3> QED
        BY <3>1 DEF Prefixes
    <2>2. CASE length # -1
      <3>1. length \in 0 .. Len(str)
        BY <2>2
      <3> QED
        BY <3>1 DEF Prefixes
    <2> QED
      BY <2>1, <2>2
  <1>3. s \in Written
    BY <1>2 DEF Written
  <1>4. SetText(FoldLeft(cons_putbyte, Text, s))
    BY <1>1 DEF putbytes
  <1> HIDE DEF s
  <1>5. T!Write(s)
    BY <1>1, <1>4, WriteStep DEF putbytes
  <1> QED
    BY <1>3, <1>5 DEF T!TNext

LEMMA DrawStep ==
  ASSUME IInv, IInv', NEW row \in Rows, NEW col \in Cols, NEW ch \in Printable, NEW c \in Colors,
         draw_char(row, col, ch, c)
  PROVE  T!TNext(Written)
  <1> DEFINE cell == [char |-> ch, color |-> c]
             p == [row |-> row + 1, col |-> col + 1]
  <1>1. p \in T!Positions
    BY Positions DEF T!Positions
  <1>2. cell \in Cells /\ cell \in [char : T!Plain, color : Colors]
    BY Controls DEF Cells, T!Plain, Chars
  <1>3. [Text EXCEPT !.row = row] \in Texts /\ Text.fb = fb
    BY DEF IInv, TypeOK, Memory, Text, Texts, Rows, Cols
  <1>4. PageOf(fb') = Put(PageOf(fb), row + 1, col + 1, cell)
    <2> DEFINE t == [Text EXCEPT !.row = row]
    <2>1. t \in Texts /\ t.row = row /\ t.fb = fb
      BY <1>3 DEF Text
    <2>2. Drew(t, col, cell).fb = fb'
      BY <1>2, <2>1 DEF Drew, Texts, draw_char, cons_draw_char
    <2> HIDE DEF t, cell
    <2>3. PageOf(Drew(t, col, cell).fb) = [PageOf(t.fb) EXCEPT ![t.row + 1][col + 1] = cell]
      BY <1>2, <2>1, DrawnAbs
    <2> QED
      BY <2>1, <2>2, <2>3 DEF Put
  <1> HIDE DEF cell
  <1>5. Page' = PageOf(fb') /\ Page = PageOf(fb)
    BY DEF Page, PageOf, CellAt, FB_LOC_CHAR
  <1>6. UNCHANGED <<Position, cons_curr_color, Seen>>
    BY DEF draw_char, Position, Seen, Screen, ScreenSize
  <1>7. T!Draw(p, cell)
    BY <1>4, <1>5, <1>6 DEF T!Draw, Put
  <1> QED
    BY <1>1, <1>2, <1>7 DEF T!TNext

LEMMA MoveStep ==
  ASSUME IInv, IInv', NEW row, NEW col, set_cursor(row, col)
  PROVE  T!TNext(Written) \/ UNCHANGED T!tvars
  <1>1. CASE row \in Rows /\ col \in Cols
    <2>1. Position' = [row |-> row + 1, col |-> col + 1] /\ Page' = Page
      BY <1>1 DEF set_cursor, Rows, Cols, Position, Page, CellAt, FB_LOC_CHAR
    <2>2. Position' \in T!Positions
      BY <1>1, <2>1, Positions DEF T!Positions
    <2>3. T!SeenAt(Position')
      BY CursorMoves DEF set_cursor
    <2>4. T!MoveTo(Position')
      BY <2>1, <2>3 DEF T!MoveTo, set_cursor
    <2> QED
      BY <2>2, <2>4 DEF T!TNext
  <1>2. CASE ~(row \in Rows /\ col \in Cols)
    BY <1>2 DEF set_cursor, Rows, Cols, T!tvars, Page, CellAt, FB_LOC_CHAR, Position, Seen,
       Screen, ScreenSize
  <1> QED
    BY <1>1, <1>2

LEMMA CursorStep ==
  ASSUME IInv, IInv', show_cursor \/ hide_cursor
  PROVE  T!TNext(Written)
  <1>1. UNCHANGED <<Page, Position, cons_curr_color>>
    BY DEF show_cursor, hide_cursor, Page, CellAt, FB_LOC_CHAR, Position
  <1>2. CASE show_cursor
    <2>1. Seen' = {Position'}
      BY <1>2, SeenNext DEF show_cursor
    <2> QED
      BY <1>1, <2>1 DEF T!TNext, T!Show
  <1>3. CASE hide_cursor
    <2>1. Seen' = {}
      BY <1>3, SeenNext DEF hide_cursor, CONS_CURSOR_HIDDEN, CONS_CURSOR_VISIBLE
    <2> QED
      BY <1>1, <2>1 DEF T!TNext, T!Hide
  <1> QED
    BY <1>2, <1>3

LEMMA ClearStep ==
  ASSUME IInv, IInv', console_init \/ clear_console
  PROVE  T!TNext(Written)
  <1> DEFINE t == [row |-> 0, col |-> 0, fb |-> cons_clear(fb)]
  <1>1. SetText(t) /\ fb \in [Memory -> Cells]
    BY DEF console_init, clear_console, IInv, TypeOK, Memory
  <1>2. Page' = Abs(t).page /\ Position' = Abs(t).cursor
    BY <1>1, TextStep
  <1>3. Page' = [r \in 1 .. CONSOLE_HEIGHT |-> T!EmptyRow] /\ Position' = [row |-> 1, col |-> 1]
    BY <1>1, <1>2, PageCleared DEF Abs
  <1>4. CASE console_init
    <2>1. Seen' = {Position'}
      BY <1>4, SeenNext DEF console_init
    <2> QED
      BY <1>3, <1>4, <2>1 DEF console_init, T!TNext, T!Restart
  <1>5. CASE clear_console
    <2>1. T!SeenAt(Position')
      BY <1>5, CursorMoves DEF clear_console
    <2> QED
      BY <1>3, <1>5, <2>1 DEF clear_console, T!TNext, T!Clear
  <1> QED
    BY <1>4, <1>5

LEMMA ColorStep ==
  ASSUME IInv, NEW c, set_term_color(c)
  PROVE  T!TNext(Written) \/ UNCHANGED T!tvars
  <1>1. UNCHANGED <<Page, Position, Seen>>
    BY DEF set_term_color, Page, CellAt, FB_LOC_CHAR, Position, Seen, Screen, ScreenSize
  <1>2. CASE c \in Colors
    <2>1. T!SetColor(c)
      BY <1>1, <1>2 DEF set_term_color, T!SetColor
    <2> QED
      BY <1>2, <2>1 DEF T!TNext
  <1>3. CASE c \notin Colors
    BY <1>1, <1>3 DEF set_term_color, T!tvars
  <1> QED
    BY <1>2, <1>3

LEMMA NextTerminal ==
  ASSUME DrawRows \subseteq Rows, IInv, IInv', [Next]_vars
  PROVE  [T!TNext(Written)]_(T!tvars)
  <1>1. CASE console_init \/ clear_console
    BY <1>1, ClearStep
  <1>2. CASE show_cursor \/ hide_cursor
    BY <1>2, CursorStep
  <1>3. CASE \E ch \in Chars : putbyte(ch)
    BY <1>3, PutbyteStep
  <1>4. CASE \E str \in Strings : \E length \in -1 .. Len(str) : putbytes(str, length)
    BY <1>4, PutbytesStep
  <1>5. CASE \E row \in DrawRows, col \in 0 .. CONSOLE_WIDTH - 1, ch \in Printable, c \in Colors :
               draw_char(row, col, ch, c)
    BY <1>5, DrawStep DEF Cols
  <1>6. CASE \E c \in Colors \cup {InvalidColor} : set_term_color(c)
    BY <1>6, ColorStep
  <1>7. CASE \E row \in -1 .. CONSOLE_HEIGHT, col \in -1 .. CONSOLE_WIDTH : set_cursor(row, col)
    BY <1>7, MoveStep
  <1>8. CASE UNCHANGED vars
    BY <1>8 DEF vars, T!tvars, Page, CellAt, FB_LOC_CHAR, Position, Seen, Screen, ScreenSize
  <1> QED
    BY <1>1, <1>2, <1>3, <1>4, <1>5, <1>6, <1>7, <1>8 DEF Next

LEMMA InitTerminal ==
  ASSUME Init
  PROVE  T!TInit
  <1>1. fb \in [Memory -> [char : T!Plain, color : Colors]]
    <2>1. BootCell \in [char : T!Plain, color : Colors]
      BY ConsoleAssumption, Controls DEF T!Plain, Chars
    <2> QED
      BY <2>1 DEF Init, Memory
  <1>2. Page \in [1 .. CONSOLE_HEIGHT -> [1 .. CONSOLE_WIDTH -> [char : T!Plain, color : Colors]]]
    <2>1. \A r \in 1 .. CONSOLE_HEIGHT, c \in 1 .. CONSOLE_WIDTH :
            CellAt(r, c) \in [char : T!Plain, color : Colors]
      BY <1>1, Cell, ScreenInMemory, Positions DEF CellAt
    <2> QED
      BY <2>1 DEF Page
  <1>3. Position = [row |-> 1, col |-> 1]
    BY DEF Init, Position
  <1>4. Seen \in SUBSET T!Positions
    <2>1. CASE crtc = 0
      <3>1. 0 \in Rows /\ 0 \in Cols /\ FB_LOC_CHAR(0, 0) = 0
        BY Sizes DEF Rows, Cols, FB_LOC_CHAR
      <3>2. /\ crtc \in Screen
            /\ (crtc \div CONSOLE_WIDTH) + 1 = 0 + 1 /\ (crtc % CONSOLE_WIDTH) + 1 = 0 + 1
        BY <2>1, <3>1, SeenCell
      <3> QED
        BY <3>1, <3>2, Positions DEF Seen, T!Positions
    <2>2. CASE crtc = ScreenSize
      <3>1. crtc \notin Screen
        BY <2>2, Sizes DEF Screen
      <3> QED
        BY <3>1 DEF Seen
    <2> QED
      BY <2>1, <2>2 DEF Init
  <1> QED
    BY <1>2, <1>3, <1>4 DEF Init, T!TInit

(* ImplementsTerminal: for callers of draw_char that name rows of the      *)
(* screen, the console is the page of text that inc/kernel.h describes.    *)
THEOREM Refinement ==
  ASSUME DrawRows \subseteq 0 .. CONSOLE_HEIGHT - 1
  PROVE  Spec => ImplementsTerminal
  <1>1. DrawRows \subseteq Rows
    BY DEF Rows
  <1>2. IInv /\ IInv' /\ [Next]_vars => [T!TNext(Written)]_(T!tvars)
    BY <1>1, NextTerminal
  <1>3. Init => T!TInit
    BY InitTerminal
  <1> QED
    BY <1>2, <1>3, Invariant, PTL DEF Spec, ImplementsTerminal
=============================================================================
