---------------------------- MODULE ScreenProofs ----------------------------
(***************************************************************************)
(* Proofs about Screen, for a screen of any size, any page of video memory *)
(* that holds it, and any key buffer that the rows above the last hold.    *)
(***************************************************************************)
EXTENDS Screen, WellFoundedInduction, TLAPS

(* Sequences. *)

LEMMA EmptySeq ==
ASSUME NEW S
  PROVE  <<>> \in Seq(S) /\ Len(<<>>) = 0
OBVIOUS

LEMMA LenProperties ==
ASSUME NEW S, NEW s \in Seq(S)
  PROVE  Len(s) \in Nat /\ s \in [1..Len(s) -> S] /\ DOMAIN s = 1..Len(s)
OBVIOUS

LEMMA ElementOfSeq ==
ASSUME NEW S, NEW s \in Seq(S), NEW n \in 1..Len(s)
  PROVE  s[n] \in S
OBVIOUS

LEMMA FunctionIsSeq ==
ASSUME NEW S, NEW n \in Nat, NEW f \in [1..n -> S]
  PROVE  f \in Seq(S) /\ Len(f) = n
OBVIOUS

LEMMA AppendProperties ==
ASSUME NEW S, NEW s \in Seq(S), NEW e \in S
  PROVE  /\ Append(s, e) \in Seq(S)
         /\ Append(s, e) # <<>>
         /\ Len(Append(s, e)) = Len(s) + 1
         /\ \A i \in 1..Len(s) : Append(s, e)[i] = s[i]
         /\ Append(s, e)[Len(s) + 1] = e
OBVIOUS

LEMMA SubSeqProperties ==
ASSUME NEW S, NEW s \in Seq(S), NEW m \in 1..(Len(s) + 1), NEW n \in 0..Len(s),
         m <= n + 1
  PROVE  /\ SubSeq(s, m, n) \in Seq(S)
         /\ Len(SubSeq(s, m, n)) = n - m + 1
         /\ \A i \in 1..(n - m + 1) : SubSeq(s, m, n)[i] = s[m + i - 1]
OBVIOUS

-----------------------------------------------------------------------------
(* Induction over the natural numbers, for sets. *)

LEMMA LeastElement ==
  ASSUME NEW T, T \subseteq Nat, T # {}
  PROVE  \E x \in T : \A y \in T : x <= y
<1>1. IsWellFoundedOn(OpToRel(<, Nat), Nat)
  BY NatLessThanWellFounded
<1>2. PICK x \in T : \A y \in T : ~(<<y, x>> \in OpToRel(<, Nat))
  BY <1>1, WFMin
<1>3. \A p, q \in Nat : p < q => <<p, q>> \in OpToRel(<, Nat)
  BY DEF OpToRel
<1>4. \A y \in T : ~(y < x)
  BY <1>2, <1>3, Zenon
<1> QED BY <1>4

\* Induction up to n, for the set of the numbers that have the property.
LEMMA UpTo ==
  ASSUME NEW n \in Nat, NEW G, 0 \in G, \A i \in 1..n : i - 1 \in G => i \in G
  PROVE  \A i \in 0..n : i \in G
<1> DEFINE T == {i \in 0..n : i \notin G}
<1>1. ASSUME T # {} PROVE FALSE
  <2>1. T \subseteq Nat
    OBVIOUS
  <2>2. PICK m \in T : \A j \in T : m <= j
    BY <1>1, <2>1, LeastElement
  <2>3. m \in 0..n /\ m \notin G
    OBVIOUS
  <2>4. m \in 1..n /\ m - 1 \in 0..n
    BY <2>3
  <2>5. m - 1 \in T
    BY <2>3, <2>4
  <2> HIDE DEF T
  <2> QED BY <2>2, <2>3, <2>5
<1> QED BY <1>1

\* A run: from w, a step for each of 1..n, one after the other.
IsRun(g, n, S, w, F) ==
  g \in [0..n -> S] /\ g[0] = w /\ \A i \in 1..n : g[i] = F[i][g[i - 1]]

LEMMA RunExists ==
  ASSUME NEW n \in Nat, NEW S, NEW w \in S, NEW F \in [1..n -> [S -> S]]
  PROVE  \E g : IsRun(g, n, S, w, F)
<1> DEFINE Is(g, m) == g \in [0..m -> S] /\ g[0] = w /\ \A i \in 1..m : g[i] = F[i][g[i - 1]]
           T == {m \in 0..n : ~\E g : Is(g, m)}
<1>1. ASSUME T # {} PROVE FALSE
  <2>1. T \subseteq Nat
    OBVIOUS
  <2>2. PICK m \in T : \A j \in T : m <= j
    BY <1>1, <2>1, LeastElement
  <2>3. CASE m = 0
    <3> DEFINE g == [i \in 0..0 |-> w]
    <3>1. Is(g, 0)
      OBVIOUS
    <3> QED BY <2>3, <3>1
  <2>4. CASE m # 0
    <3>1. m - 1 \in 0..n /\ m - 1 \notin T /\ m \in Nat /\ m \in 1..n
      <4>1. m \in 0..n
        BY <2>2
      <4> HIDE DEF T
      <4> QED BY <2>2, <2>4, <4>1
    <3>2. PICK g : Is(g, m - 1)
      BY <3>1
    <3> DEFINE h == [i \in 0..m |-> IF i = m THEN F[m][g[m - 1]] ELSE g[i]]
    <3>3. \A i \in 0..m : i # m => i \in 0..(m - 1)
      BY <3>1
    <3>4. m - 1 \in 0..(m - 1)
      BY <2>4, <3>1
    <3>5. h \in [0..m -> S]
      BY <3>1, <3>2, <3>3, <3>4
    <3>6. h[0] = w
      BY <2>4, <3>1, <3>2
    <3>7. ASSUME NEW i \in 1..m PROVE h[i] = F[i][h[i - 1]]
      <4>1. i - 1 \in 0..m /\ i - 1 # m /\ i \in 0..m
        BY <3>1
      <4>2. h[i - 1] = g[i - 1]
        BY <4>1
      <4>3. CASE i = m
        BY <4>1, <4>2, <4>3
      <4>4. CASE i # m
        <5>1. i \in 1..(m - 1)
          BY <3>1, <4>4
        <5> QED BY <3>2, <4>1, <4>2, <4>4, <5>1
      <4> QED BY <4>3, <4>4
    <3>8. Is(h, m)
      <4> HIDE DEF h
      <4> QED BY <3>5, <3>6, <3>7
    <3> QED BY <3>8
  <2> QED BY <2>3, <2>4
<1>2. n \in 0..n
  OBVIOUS
<1> QED BY <1>1, <1>2 DEF IsRun

-----------------------------------------------------------------------------
(* Screens. *)

Char == Glyph \cup Special \cup {Blank, NUL} \cup UNION {Range(str) : str \in Output}

Scr == [x : Nat, y : Int, cells : [Cell -> Char], fault : BOOLEAN]

\* What every screen satisfies: the cursor is never below the last row, and a
\* print that faults has left it outside the columns or above the first row.
Sound(w) ==
  /\ w \in Scr /\ w.y <= NUM_ROWS - 1
  /\ w.fault => w.x >= NUM_COLS \/ w.y < 0

InPlace(w) ==
  w \in Scr /\ ~w.fault /\ w.x \in 0..(NUM_COLS - 1) /\ w.y \in 0..(NUM_ROWS - 1)

LEMMA Geometry ==
  /\ NUM_ROWS \in Nat /\ NUM_ROWS >= 2 /\ NUM_COLS \in Nat /\ NUM_COLS > 0
  /\ tab_size \in Nat /\ PageCells \in Nat /\ PageCells >= NUM_ROWS * NUM_COLS
  /\ NUM_ROWS * NUM_COLS \in Nat /\ NUM_COLS * (NUM_ROWS - 1) \in Nat
  /\ NUM_ROWS * NUM_COLS = NUM_COLS * (NUM_ROWS - 1) + NUM_COLS
<1>1. NUM_ROWS \in Nat /\ NUM_ROWS >= 2 /\ NUM_COLS \in Nat /\ NUM_COLS > 0
  BY GeometryAssumption
<1>2. NUM_ROWS * NUM_COLS \in Nat /\ NUM_COLS * (NUM_ROWS - 1) \in Nat
  BY <1>1
<1>3. NUM_ROWS * NUM_COLS = NUM_COLS * (NUM_ROWS - 1) + NUM_COLS
  BY <1>1
<1> QED BY <1>1, <1>2, <1>3, GeometryAssumption

\* A cursor in place is at a cell of the screen; the last one is that of the
\* last column of the last row.
LEMMA PosIs ==
  ASSUME NEW a \in 0..(NUM_COLS - 1), NEW b \in 0..(NUM_ROWS - 1)
  PROVE  /\ NUM_COLS * b + a \in Cell /\ NUM_COLS * b \in Nat
         /\ b = NUM_ROWS - 1 /\ a = NUM_COLS - 1 => NUM_COLS * b + a = NUM_ROWS * NUM_COLS - 1
         /\ NUM_COLS * (b + 1) = NUM_COLS * b + NUM_COLS
         /\ NUM_COLS * (b - 1) = NUM_COLS * b - NUM_COLS
<1>1. NUM_COLS \in Nat /\ NUM_ROWS \in Nat /\ a \in Nat /\ b \in Nat /\ b <= NUM_ROWS - 1
  BY Geometry
<1>2. NUM_COLS * b <= NUM_COLS * (NUM_ROWS - 1) /\ NUM_COLS * b \in Nat
  BY <1>1
<1>3. /\ NUM_COLS * (b + 1) = NUM_COLS * b + NUM_COLS
      /\ NUM_COLS * (b - 1) = NUM_COLS * b - NUM_COLS
  BY <1>1
<1>4. NUM_COLS * b + a \in Cell
  BY <1>1, <1>2, Geometry DEF Cell
<1> QED BY <1>2, <1>3, <1>4, Geometry

LEMMA Divide ==
  /\ \A a \in 0..(NUM_COLS - 1) : a % NUM_COLS = a /\ a \div NUM_COLS = 0
  /\ NUM_COLS % NUM_COLS = 0 /\ NUM_COLS \div NUM_COLS = 1
  /\ \A a \in Nat : a % NUM_COLS \in 0..(NUM_COLS - 1) /\ a \div NUM_COLS \in Nat
  /\ \A b \in 0..(NUM_ROWS - 1) : Row(b) = b
  /\ \A b \in Int : Row(b) \in Int /\ Row(b) <= NUM_ROWS - 1
<1>1. NUM_COLS \in Nat /\ NUM_COLS > 0 /\ NUM_ROWS \in Nat /\ NUM_ROWS > 0
  BY Geometry
<1>2. \A a \in 0..(NUM_COLS - 1) : a % NUM_COLS = a /\ a \div NUM_COLS = 0
  BY <1>1
<1>3. NUM_COLS % NUM_COLS = 0 /\ NUM_COLS \div NUM_COLS = 1
  BY <1>1
<1>4. \A a \in Nat : a % NUM_COLS \in 0..(NUM_COLS - 1) /\ a \div NUM_COLS \in Nat
  BY <1>1
<1>5. \A b \in 0..(NUM_ROWS - 1) : Row(b) = b
  BY <1>1 DEF Row
<1>6. \A b \in Int : Row(b) \in Int /\ Row(b) <= NUM_ROWS - 1
  BY <1>1 DEF Row
<1> QED BY <1>2, <1>3, <1>4, <1>5, <1>6

-----------------------------------------------------------------------------
LEMMA TabIsNoNewline == TAB # NEWLINE
BY Zenon DEF TAB, NEWLINE

LEMMA SetIs ==
  ASSUME NEW w \in Scr, NEW a \in Nat, NEW b \in Int
  PROVE  /\ set_screen(w, a, b) \in Scr
         /\ set_screen(w, a, b).x = a /\ set_screen(w, a, b).y = b
         /\ set_screen(w, a, b).cells = w.cells
         /\ set_screen(w, a, b).fault = w.fault
<1> DEFINE r == [w EXCEPT !.x = a]
<1>1. r \in Scr
  BY DEF Scr
<1>2. r.x = a /\ r.cells = w.cells /\ r.fault = w.fault
  BY DEF Scr
<1>3. set_screen(w, a, b) = [r EXCEPT !.y = b]
  BY DEF set_screen
<1> HIDE DEF r
<1>4. [r EXCEPT !.y = b] \in Scr
  BY <1>1 DEF Scr
<1>5. /\ [r EXCEPT !.y = b].y = b /\ [r EXCEPT !.y = b].x = r.x
      /\ [r EXCEPT !.y = b].cells = r.cells /\ [r EXCEPT !.y = b].fault = r.fault
  BY <1>1 DEF Scr
<1> QED BY <1>2, <1>3, <1>4, <1>5

LEMMA CellsAre ==
  ASSUME NEW w \in Scr, NEW new \in [Cell -> Char]
  PROVE  /\ [w EXCEPT !.cells = new] \in Scr
         /\ [w EXCEPT !.cells = new].x = w.x /\ [w EXCEPT !.cells = new].y = w.y
         /\ [w EXCEPT !.cells = new].cells = new
         /\ [w EXCEPT !.cells = new].fault = w.fault
<1>1. [w EXCEPT !.cells = new] \in Scr
  BY DEF Scr
<1>2. /\ [w EXCEPT !.cells = new].x = w.x /\ [w EXCEPT !.cells = new].y = w.y
      /\ [w EXCEPT !.cells = new].cells = new
      /\ [w EXCEPT !.cells = new].fault = w.fault
  BY DEF Scr
<1> QED BY <1>1, <1>2

\* A write to a cell of the screen, or beside it.
LEMMA PutIs ==
  ASSUME NEW w \in Scr, ~w.fault, NEW i \in Int, NEW c \in Char
  PROVE  /\ Put(w, i, c) \in Scr
         /\ Put(w, i, c).x = w.x /\ Put(w, i, c).y = w.y
         /\ Put(w, i, c).fault => i \notin Cell
         /\ i \in Cell => Put(w, i, c).cells = [w.cells EXCEPT ![i] = c]
<1>1. CASE i \in Cell
  <2> DEFINE new == [w.cells EXCEPT ![i] = c]
  <2>1. new \in [Cell -> Char]
    BY <1>1 DEF Scr
  <2>2. Put(w, i, c) = [w EXCEPT !.cells = new]
    BY <1>1 DEF Put
  <2> HIDE DEF new
  <2>3. Put(w, i, c) \in Scr /\ Put(w, i, c).x = w.x /\ Put(w, i, c).y = w.y
    BY <2>1, <2>2, CellsAre
  <2>4. Put(w, i, c).cells = new /\ Put(w, i, c).fault = w.fault
    BY <2>1, <2>2, CellsAre
  <2> QED BY <2>3, <2>4, Zenon DEF new
<1>2. CASE i \notin Cell
  <2>1. CASE Put(w, i, c) = w
    BY <1>2, <2>1, Zenon
  <2>2. CASE Put(w, i, c) = [w EXCEPT !.fault = TRUE]
    <3>1. [w EXCEPT !.fault = TRUE] \in Scr
      BY DEF Scr
    <3>2. [w EXCEPT !.fault = TRUE].x = w.x /\ [w EXCEPT !.fault = TRUE].y = w.y
      BY DEF Scr
    <3> QED BY <1>2, <2>2, <3>1, <3>2
  <2>3. Put(w, i, c) = w \/ Put(w, i, c) = [w EXCEPT !.fault = TRUE]
    BY <1>2 DEF Put
  <2> QED BY <2>1, <2>2, <2>3
<1> QED BY <1>1, <1>2

LEMMA ScrollIs ==
  ASSUME NEW w \in Scr
  PROVE  /\ vertical_scroll(w) \in Scr
         /\ vertical_scroll(w).x = 0 /\ vertical_scroll(w).y = NUM_ROWS - 1
         /\ vertical_scroll(w).fault = w.fault
         /\ \A i \in 0..(NUM_COLS * (NUM_ROWS - 1) - 1) :
              /\ i + NUM_COLS \in Cell
              /\ vertical_scroll(w).cells[i] = w.cells[i + NUM_COLS]
<1> DEFINE new == [i \in Cell |-> IF i < NUM_COLS * (NUM_ROWS - 1) THEN w.cells[i + NUM_COLS]
                                                                  ELSE Blank]
<1>1. \A i \in 0..(NUM_COLS * (NUM_ROWS - 1) - 1) : i \in Cell /\ i + NUM_COLS \in Cell
  BY Geometry DEF Cell
<1>2. \A i \in Cell : i < NUM_COLS * (NUM_ROWS - 1) => i \in 0..(NUM_COLS * (NUM_ROWS - 1) - 1)
  BY Geometry DEF Cell
<1>3. Blank \in Char
  BY DEF Char
<1>4. new \in [Cell -> Char]
  BY <1>1, <1>2, <1>3 DEF Scr
<1>5. \A i \in 0..(NUM_COLS * (NUM_ROWS - 1) - 1) : new[i] = w.cells[i + NUM_COLS]
  BY <1>1, Geometry
<1> DEFINE r == [w EXCEPT !.cells = new]
<1>6. vertical_scroll(w) = set_screen(r, 0, NUM_ROWS - 1)
  BY DEF vertical_scroll
<1> HIDE DEF new
<1>7. r \in Scr /\ r.cells = new /\ r.fault = w.fault
  BY <1>4, CellsAre
<1> HIDE DEF r
<1> DEFINE b == NUM_ROWS - 1
<1>8. b \in Int /\ 0 \in Nat
  BY Geometry
<1>9. vertical_scroll(w) = set_screen(r, 0, b)
  BY <1>6
<1> HIDE DEF b
<1>10. /\ vertical_scroll(w) \in Scr
       /\ vertical_scroll(w).x = 0 /\ vertical_scroll(w).y = b
       /\ vertical_scroll(w).fault = r.fault /\ vertical_scroll(w).cells = r.cells
  BY <1>7, <1>8, <1>9, SetIs
<1>11. vertical_scroll(w).y = NUM_ROWS - 1
  BY <1>10 DEF b
<1> QED BY <1>1, <1>5, <1>7, <1>10, <1>11

\* putc_terminal keeps every screen sound.
LEMMA PutcSound ==
  ASSUME NEW w, Sound(w), ~w.fault, NEW c \in Char
  PROVE  Sound(putc_terminal(w, c))
<1>0. /\ w \in Scr /\ w.x \in Nat /\ w.y \in Int /\ w.y <= NUM_ROWS - 1
      /\ NUM_ROWS \in Nat /\ NUM_ROWS >= 2 /\ NUM_COLS \in Nat /\ NUM_COLS > 0 /\ tab_size \in Nat
  BY Geometry DEF Sound, Scr
<1>1. ASSUME NEW a \in Nat, NEW b \in Int, b <= NUM_ROWS - 1, NEW p \in Scr, ~p.fault
      PROVE  Sound(set_screen(p, a, b))
  <2>1. set_screen(p, a, b) \in Scr /\ set_screen(p, a, b).y = b
    BY SetIs
  <2>2. set_screen(p, a, b).fault = p.fault
    BY SetIs
  <2>3. ~set_screen(p, a, b).fault
    BY <1>1, <2>2, Zenon
  <2> QED BY <1>1, <2>1, <2>3 DEF Sound
<1>2. ASSUME NEW p \in Scr, ~p.fault PROVE Sound(vertical_scroll(p))
  <2>1. vertical_scroll(p) \in Scr /\ vertical_scroll(p).y = NUM_ROWS - 1
    BY ScrollIs
  <2>2. ~vertical_scroll(p).fault
    BY <1>2, ScrollIs, Zenon
  <2>3. NUM_ROWS - 1 <= NUM_ROWS - 1
    BY <1>0
  <2> QED BY <2>1, <2>2, <2>3 DEF Sound
<1>3. CASE c = TAB
  <2>1. putc_terminal(w, c) = set_screen(w, w.x + tab_size, w.y)
    BY <1>3, TabIsNoNewline DEF putc_terminal
  <2>2. w.x + tab_size \in Nat
    BY <1>0
  <2> QED BY <1>0, <1>1, <2>1, <2>2
<1>4. CASE c # TAB /\ c = NEWLINE
  <2>1. putc_terminal(w, c) = NewLine(w)
    BY <1>4 DEF putc_terminal
  <2>2. CASE w.y + 1 >= NUM_ROWS - 1
    BY <1>0, <1>2, <2>1, <2>2 DEF NewLine
  <2>3. CASE ~(w.y + 1 >= NUM_ROWS - 1)
    <3>1. w.y + 1 \in Int /\ w.y + 1 <= NUM_ROWS - 1
      BY <1>0, <2>3
    <3>2. NewLine(w) = set_screen(w, 0, w.y + 1)
      BY <2>3 DEF NewLine
    <3> QED BY <1>0, <1>1, <2>1, <3>1, <3>2
  <2> QED BY <2>2, <2>3
<1>5. CASE c # TAB /\ c # NEWLINE
  <2> DEFINE p == Put(w, Pos(w), c)
  <2>0. putc_terminal(w, c) = PutGlyph(w, c)
    BY <1>5 DEF putc_terminal
  <2>1. Pos(w) \in Int
    BY <1>0 DEF Pos
  <2>2. p \in Scr /\ p.x = w.x /\ p.y = w.y /\ (p.fault => Pos(w) \notin Cell)
    BY <1>0, <2>1, PutIs
  <2>3. CASE p.fault
    <3>1. PutGlyph(w, c) = p
      BY <2>3 DEF PutGlyph
    <3>2. w.x >= NUM_COLS \/ w.y < 0
      <4> SUFFICES ASSUME w.x < NUM_COLS, w.y >= 0 PROVE FALSE
        BY <1>0
      <4>1. w.x \in 0..(NUM_COLS - 1) /\ w.y \in 0..(NUM_ROWS - 1)
        BY <1>0
      <4>2. Pos(w) \in Cell
        BY <4>1, PosIs DEF Pos
      <4> QED BY <2>2, <2>3, <4>2
    <3> HIDE DEF p
    <3> QED BY <1>0, <2>0, <2>2, <3>1, <3>2 DEF Sound
  <2>4. CASE ~p.fault /\ w.y >= NUM_ROWS - 1 /\ w.x >= NUM_COLS - 1
    <3>1. PutGlyph(w, c) = vertical_scroll(p)
      BY <2>4 DEF PutGlyph
    <3> HIDE DEF p
    <3> QED BY <1>2, <2>0, <2>2, <2>4, <3>1
  <2>5. CASE ~p.fault /\ ~(w.y >= NUM_ROWS - 1 /\ w.x >= NUM_COLS - 1)
    <3> DEFINE a == (w.x + 1) % NUM_COLS
               b == Row(w.y + (w.x + 1) \div NUM_COLS)
    <3>1. PutGlyph(w, c) = set_screen(p, a, b)
      BY <2>5 DEF PutGlyph
    <3>2. w.x + 1 \in Nat
      BY <1>0
    <3>3. a \in Nat /\ (w.x + 1) \div NUM_COLS \in Nat
      BY <3>2, Divide
    <3>4. b \in Int /\ b <= NUM_ROWS - 1
      BY <1>0, <3>3, Divide
    <3> HIDE DEF a, b, p
    <3> QED BY <1>1, <2>0, <2>2, <2>5, <3>1, <3>3, <3>4
  <2> QED BY <2>3, <2>4, <2>5
<1> QED BY <1>3, <1>4, <1>5

\* A glyph printed where the cursor is in place: it comes to stand just before
\* the cursor, and what stood before it still does, a row higher if the screen
\* was scrolled.
LEMMA PutcInPlace ==
  ASSUME NEW w, InPlace(w), NEW c \in Char, c \notin Special
  PROVE  \E shift \in {0, NUM_COLS} :
           /\ InPlace(putc_terminal(w, c))
           /\ Pos(putc_terminal(w, c)) = Pos(w) + 1 - shift
           /\ Pos(putc_terminal(w, c)) >= 1
           /\ shift = NUM_COLS => Pos(putc_terminal(w, c)) = NUM_COLS * (NUM_ROWS - 1)
           /\ \A i \in 0..(Pos(putc_terminal(w, c)) - 1) :
                /\ i \in Cell /\ i + shift \in Cell
                /\ putc_terminal(w, c).cells[i] =
                     IF i + shift = Pos(w) THEN c ELSE w.cells[i + shift]
<1> DEFINE p == Put(w, Pos(w), c)
           r == putc_terminal(w, c)
<1>0. /\ w \in Scr /\ ~w.fault /\ w.x \in 0..(NUM_COLS - 1) /\ w.y \in 0..(NUM_ROWS - 1)
      /\ NUM_ROWS \in Nat /\ NUM_ROWS >= 2 /\ NUM_COLS \in Nat /\ NUM_COLS > 0
  BY Geometry DEF InPlace
<1>1. c # TAB /\ c # NEWLINE
  BY DEF Special
<1>2. r = PutGlyph(w, c)
  BY <1>1 DEF putc_terminal
<1>3. Pos(w) \in Cell /\ NUM_COLS * w.y \in Nat /\ NUM_COLS * (w.y + 1) = NUM_COLS * w.y + NUM_COLS
  BY <1>0, PosIs DEF Pos
<1>4. Pos(w) \in Nat /\ Pos(w) \in Int
  BY <1>3, Geometry DEF Cell
<1>5. /\ p \in Scr /\ p.x = w.x /\ p.y = w.y
      /\ p.cells = [w.cells EXCEPT ![Pos(w)] = c]
  BY <1>0, <1>3, <1>4, PutIs
<1>6. ~p.fault
  <2>1. p.fault => Pos(w) \notin Cell
    BY <1>0, <1>4, PutIs
  <2> QED BY <1>3, <2>1
<1>7. ASSUME NEW i \in Cell PROVE p.cells[i] = IF i = Pos(w) THEN c ELSE w.cells[i]
  BY <1>0, <1>3, <1>5, <1>7 DEF Scr
<1> HIDE DEF r, p
<1>8. CASE w.y = NUM_ROWS - 1 /\ w.x = NUM_COLS - 1
  <2>1. PutGlyph(w, c) = vertical_scroll(p)
    <3>1. w.y >= NUM_ROWS - 1 /\ w.x >= NUM_COLS - 1
      BY <1>0, <1>8
    <3> QED BY <1>6, <3>1 DEF PutGlyph, p
  <2>2. /\ r \in Scr /\ r.x = 0 /\ r.y = NUM_ROWS - 1
        /\ \A i \in 0..(NUM_COLS * (NUM_ROWS - 1) - 1) :
              i + NUM_COLS \in Cell /\ r.cells[i] = p.cells[i + NUM_COLS]
    BY <1>2, <1>5, <2>1, ScrollIs
  <2>3. ~r.fault
    <3>1. r.fault = p.fault
      BY <1>2, <1>5, <2>1, ScrollIs
    <3> QED BY <1>6, <3>1
  <2>4. InPlace(r)
    BY <1>0, <2>2, <2>3 DEF InPlace
  <2>5. Pos(r) = NUM_COLS * (NUM_ROWS - 1)
    BY <1>0, <2>2 DEF Pos
  <2>6. Pos(w) = NUM_ROWS * NUM_COLS - 1
    BY <1>0, <1>8, PosIs DEF Pos
  <2>7. Pos(r) = Pos(w) + 1 - NUM_COLS
    BY <2>5, <2>6, Geometry
  <2>8. Pos(r) >= 1
    <3>1. NUM_ROWS - 1 \in Nat /\ NUM_ROWS - 1 >= 1
      BY <1>0
    <3>2. NUM_COLS * (NUM_ROWS - 1) >= 1
      BY <1>0, <3>1
    <3> QED BY <2>5, <3>2
  <2>9. ASSUME NEW i \in 0..(Pos(r) - 1)
        PROVE  /\ i \in Cell /\ i + NUM_COLS \in Cell
               /\ r.cells[i] = IF i + NUM_COLS = Pos(w) THEN c ELSE w.cells[i + NUM_COLS]
    <3>1. i \in 0..(NUM_COLS * (NUM_ROWS - 1) - 1)
      BY <2>5
    <3>2. i + NUM_COLS \in Cell /\ r.cells[i] = p.cells[i + NUM_COLS]
      BY <2>2, <3>1
    <3>3. i \in Cell
      BY <3>1, Geometry DEF Cell
    <3> QED BY <1>7, <3>2, <3>3
  <2> QED BY <2>4, <2>5, <2>7, <2>8, <2>9 DEF r
<1>9. CASE ~(w.y = NUM_ROWS - 1 /\ w.x = NUM_COLS - 1)
  <2> DEFINE a == (w.x + 1) % NUM_COLS
             b == Row(w.y + (w.x + 1) \div NUM_COLS)
  <2>1. PutGlyph(w, c) = set_screen(p, a, b)
    <3>1. ~(w.y >= NUM_ROWS - 1 /\ w.x >= NUM_COLS - 1)
      BY <1>0, <1>9
    <3> QED BY <1>6, <3>1 DEF PutGlyph, p
  <2>2. /\ a \in 0..(NUM_COLS - 1) /\ b \in 0..(NUM_ROWS - 1)
        /\ NUM_COLS * b + a = Pos(w) + 1
    <3>1. CASE w.x + 1 < NUM_COLS
      <4>1. w.x + 1 \in 0..(NUM_COLS - 1)
        BY <1>0, <3>1
      <4>2. a = w.x + 1 /\ (w.x + 1) \div NUM_COLS = 0
        BY <4>1, Divide
      <4>3. w.y + 0 = w.y
        BY <1>0
      <4>4. b = w.y
        BY <1>0, <4>2, <4>3, Divide
      <4> HIDE DEF a, b
      <4> QED BY <1>0, <1>3, <4>1, <4>2, <4>4 DEF Pos
    <3>2. CASE w.x + 1 = NUM_COLS
      <4>1. a = 0 /\ (w.x + 1) \div NUM_COLS = 1
        BY <3>2, Divide
      <4>2. w.y + 1 \in 0..(NUM_ROWS - 1)
        BY <1>0, <1>9, <3>2
      <4>3. b = w.y + 1
        BY <4>1, <4>2, Divide
      <4> HIDE DEF a, b
      <4> QED BY <1>0, <1>3, <3>2, <4>1, <4>2, <4>3 DEF Pos
    <3> QED BY <1>0, <3>1, <3>2
  <2> HIDE DEF a, b
  <2>3. a \in Nat /\ b \in Int
    BY <1>0, <2>2
  <2>4. r = set_screen(p, a, b) /\ p \in Scr
    BY <1>2, <1>5, <2>1, Zenon
  <2>5. r \in Scr /\ r.x = a /\ r.y = b /\ r.cells = p.cells
    BY <2>3, <2>4, SetIs
  <2>6. ~r.fault
    <3>1. r.fault = p.fault
      BY <2>3, <2>4, SetIs
    <3> QED BY <1>6, <3>1
  <2>7. InPlace(r)
    BY <2>2, <2>5, <2>6 DEF InPlace
  <2>8. Pos(r) = Pos(w) + 1
    BY <2>2, <2>5 DEF Pos
  <2>9. Pos(r) = Pos(w) + 1 - 0 /\ Pos(r) >= 1 /\ 0 # NUM_COLS
    BY <1>0, <1>4, <2>8
  <2>10. ASSUME NEW i \in 0..(Pos(r) - 1)
        PROVE  /\ i \in Cell /\ i + 0 \in Cell
               /\ r.cells[i] = IF i + 0 = Pos(w) THEN c ELSE w.cells[i + 0]
    <3>1. i \in Cell /\ i + 0 = i
      BY <1>3, <1>4, <2>8, Geometry DEF Cell
    <3> QED BY <1>7, <2>5, <3>1
  <2> QED BY <2>7, <2>9, <2>10 DEF r
<1> QED BY <1>8, <1>9

\* The last n characters of f stand before the cursor, as many as the rows
\* above the last hold.
Before(w, f, n) ==
  \A k \in 1..n : k <= NUM_COLS * (NUM_ROWS - 1) => Shows(w, Pos(w) - k, f[n + 1 - k])

LEMMA NextShown ==
  ASSUME NEW w, InPlace(w), NEW f, NEW n \in Nat, f[n + 1] \in Char, f[n + 1] \notin Special,
         Before(w, f, n)
  PROVE  /\ InPlace(putc_terminal(w, f[n + 1]))
         /\ Before(putc_terminal(w, f[n + 1]), f, n + 1)
<1> DEFINE c == f[n + 1]
           r == putc_terminal(w, c)
           top == NUM_COLS * (NUM_ROWS - 1)
<1>1. PICK shift \in {0, NUM_COLS} :
        /\ InPlace(r) /\ Pos(r) = Pos(w) + 1 - shift /\ Pos(r) >= 1
        /\ shift = NUM_COLS => Pos(r) = top
        /\ \A i \in 0..(Pos(r) - 1) :
             /\ i \in Cell /\ i + shift \in Cell
             /\ r.cells[i] = IF i + shift = Pos(w) THEN c ELSE w.cells[i + shift]
  <2> HIDE DEF c
  <2>1. c \in Char /\ c \notin Special
    BY DEF c
  <2> QED BY <2>1, PutcInPlace
<1>2. Pos(w) \in Nat /\ Pos(w) \in Int
  BY PosIs, Geometry DEF Pos, InPlace, Cell
<1>3. Pos(r) \in Int /\ shift \in Nat /\ top \in Nat
  BY <1>1, <1>2, Geometry
<1> HIDE DEF r, top
<1>4. ASSUME NEW k \in 1..(n + 1), k <= top PROVE Shows(r, Pos(r) - k, f[(n + 1) + 1 - k])
  <2> DEFINE i == Pos(r) - k
  <2>1. CASE k = 1
    <3>1. i \in 0..(Pos(r) - 1) /\ i + shift = Pos(w)
      BY <1>1, <1>2, <1>3, <2>1
    <3>2. (n + 1) + 1 - k = n + 1
      BY <2>1
    <3> HIDE DEF i
    <3>3. i \in Cell /\ r.cells[i] = c
      BY <1>1, <3>1
    <3> QED BY <3>2, <3>3 DEF Shows, i
  <2>2. CASE k # 1
    <3> DEFINE j == k - 1
    <3>1. j \in 1..n /\ j <= top /\ n + 1 - j = (n + 1) + 1 - k
      BY <1>3, <1>4, <2>2
    <3>2. i + shift = Pos(w) - j /\ i + shift # Pos(w)
      BY <1>1, <1>2, <1>3, <2>2
    <3> HIDE DEF j
    <3>3. Shows(w, Pos(w) - j, f[n + 1 - j])
      BY <3>1 DEF Before, top
    <3>4. Pos(w) - j \in Cell /\ w.cells[Pos(w) - j] = f[n + 1 - j]
      BY <3>3 DEF Shows
    <3>5. i \in 0..(Pos(r) - 1)
      <4>1. CASE shift = 0
        <5>1. i + shift \in Nat
          BY <3>2, <3>4, Geometry DEF Cell
        <5> QED BY <1>3, <4>1, <5>1
      <4>2. CASE shift = NUM_COLS
        BY <1>1, <1>3, <1>4, <4>2
      <4> QED BY <4>1, <4>2
    <3> HIDE DEF i
    <3>6. i \in Cell /\ r.cells[i] = w.cells[i + shift]
      BY <1>1, <3>2, <3>5
    <3> QED BY <3>1, <3>2, <3>4, <3>6 DEF Shows, i
  <2> QED BY <2>1, <2>2
<1>5. Before(r, f, n + 1)
  BY <1>4 DEF Before, top
<1> QED BY <1>1, <1>5 DEF r

\* One cell back where the cursor is in place and not at the first cell.
LEMMA BackInPlace ==
  ASSUME NEW w, InPlace(w), Pos(w) >= 1
  PROVE  /\ InPlace(Back(w)) /\ Pos(Back(w)) = Pos(w) - 1
         /\ \A i \in Cell : i # Pos(w) - 1 => Back(w).cells[i] = w.cells[i]
<1> DEFINE q == Pos(w) - 1
           p == Put(w, q, Blank)
           r == Back(w)
<1>0. /\ w \in Scr /\ ~w.fault /\ w.x \in 0..(NUM_COLS - 1) /\ w.y \in 0..(NUM_ROWS - 1)
      /\ NUM_ROWS \in Nat /\ NUM_ROWS >= 2 /\ NUM_COLS \in Nat /\ NUM_COLS > 0
  BY Geometry DEF InPlace
<1>1. /\ Pos(w) \in Cell /\ NUM_COLS * w.y \in Nat
      /\ NUM_COLS * (w.y - 1) = NUM_COLS * w.y - NUM_COLS
  BY <1>0, PosIs DEF Pos
<1>2. q \in Cell /\ q \in Int
  BY <1>1, Geometry DEF Cell
<1>3. Blank \in Char
  BY DEF Char
<1> HIDE DEF q
<1>4. p \in Scr
  BY <1>0, <1>2, <1>3, PutIs
<1>5. p.cells = [w.cells EXCEPT ![q] = Blank]
  BY <1>0, <1>2, <1>3, PutIs
<1>6. ~p.fault
  <2>1. p.fault => q \notin Cell
    BY <1>0, <1>2, <1>3, PutIs
  <2> QED BY <1>2, <2>1
<1>7. \A i \in Cell : i # q => p.cells[i] = w.cells[i]
  BY <1>0, <1>2, <1>5 DEF Scr
<1> HIDE DEF p
<1>8. ASSUME NEW a \in 0..(NUM_COLS - 1), NEW b \in 0..(NUM_ROWS - 1),
             r = set_screen(p, a, b), NUM_COLS * b + a = Pos(w) - 1
      PROVE  /\ InPlace(r) /\ Pos(r) = Pos(w) - 1
             /\ \A i \in Cell : i # q => r.cells[i] = w.cells[i]
  <2> HIDE DEF r
  <2>1. a \in Nat /\ b \in Int
    BY <1>0
  <2>2. r \in Scr /\ r.x = a /\ r.y = b /\ r.cells = p.cells
    BY <1>4, <1>8, <2>1, SetIs
  <2>3. r.fault = p.fault
    BY <1>4, <1>8, <2>1, SetIs
  <2>4. ~r.fault
    BY <1>6, <2>3, Zenon
  <2>5. InPlace(r)
    BY <2>2, <2>4 DEF InPlace
  <2>6. Pos(r) = Pos(w) - 1
    BY <1>8, <2>2 DEF Pos
  <2> QED BY <1>7, <2>2, <2>5, <2>6
<1>9. CASE w.x > 0
  <2> DEFINE a == w.x - 1
  <2>1. r = set_screen(p, a, w.y)
    BY <1>6, <1>9 DEF Back, p, q
  <2>2. a \in 0..(NUM_COLS - 1) /\ NUM_COLS * w.y + a = Pos(w) - 1
    BY <1>0, <1>1, <1>9 DEF Pos
  <2> HIDE DEF a, r
  <2> QED BY <1>0, <1>8, <2>1, <2>2 DEF r, q
<1>10. CASE ~(w.x > 0)
  <2> DEFINE a == NUM_COLS - 1
             b == w.y - 1
  <2>1. r = set_screen(p, a, b)
    BY <1>6, <1>10 DEF Back, p, q
  <2>2. w.x = 0
    BY <1>0, <1>10
  <2>3. w.y # 0
    BY <1>0, <2>2 DEF Pos
  <2>4. a \in 0..(NUM_COLS - 1) /\ b \in 0..(NUM_ROWS - 1)
    BY <1>0, <2>3
  <2>5. NUM_COLS * b + a = Pos(w) - 1
    BY <1>0, <1>1, <2>2 DEF Pos
  <2> HIDE DEF a, b, r
  <2> QED BY <1>8, <2>1, <2>4, <2>5 DEF r, q
<1> QED BY <1>9, <1>10

\* One cell back keeps the cursor above the end of the screen.
Bounded == {w \in Scr : w.y <= NUM_ROWS - 1}

LEMMA BackBounded ==
  ASSUME NEW w \in Bounded, ~w.fault
  PROVE  Back(w) \in Bounded
<1> DEFINE q == Pos(w) - 1
           p == Put(w, q, Blank)
<1>0. /\ w \in Scr /\ w.x \in Nat /\ w.y \in Int /\ w.y <= NUM_ROWS - 1
      /\ NUM_ROWS \in Nat /\ NUM_COLS \in Nat /\ NUM_COLS > 0
  BY Geometry DEF Bounded, Scr
<1>1. q \in Int
  BY <1>0 DEF Pos
<1>2. Blank \in Char
  BY DEF Char
<1> HIDE DEF q
<1>3. p \in Scr /\ p.x = w.x /\ p.y = w.y
  BY <1>0, <1>1, <1>2, PutIs
<1>4. Back(w) = p \/ (w.x > 0 /\ Back(w) = set_screen(p, w.x - 1, w.y))
                  \/ Back(w) = set_screen(p, NUM_COLS - 1, w.y - 1)
  BY DEF Back, p, q
<1> HIDE DEF p
<1>5. CASE Back(w) = p
  BY <1>0, <1>3, <1>5 DEF Bounded
<1>6. CASE w.x > 0 /\ Back(w) = set_screen(p, w.x - 1, w.y)
  <2> DEFINE a == w.x - 1
  <2>1. a \in Nat
    BY <1>0, <1>6
  <2>2. Back(w) = set_screen(p, a, w.y)
    BY <1>6
  <2> HIDE DEF a
  <2>3. p \in Scr /\ w.y \in Int
    BY <1>0, <1>3
  <2>4. set_screen(p, a, w.y) \in Scr /\ set_screen(p, a, w.y).y = w.y
    BY <2>1, <2>3, SetIs
  <2> QED BY <1>0, <2>2, <2>4 DEF Bounded
<1>7. CASE Back(w) = set_screen(p, NUM_COLS - 1, w.y - 1)
  <2> DEFINE a == NUM_COLS - 1
             b == w.y - 1
  <2>1. a \in Nat /\ b \in Int /\ b <= NUM_ROWS - 1
    BY <1>0
  <2>2. Back(w) = set_screen(p, a, b)
    BY <1>7
  <2> HIDE DEF a, b
  <2>3. p \in Scr
    BY <1>3
  <2>4. set_screen(p, a, b) \in Scr /\ set_screen(p, a, b).y = b
    BY <2>1, <2>3, SetIs
  <2> QED BY <2>1, <2>2, <2>4 DEF Bounded
<1> QED BY <1>4, <1>5, <1>6, <1>7

\* What Erased and Printed compute, character by character.
LEMMA ErasedIs ==
  ASSUME NEW w \in Bounded, NEW width \in Nat
  PROVE  /\ Erased(w, width)[0] = w
         /\ \A n \in 1..width :
              Erased(w, width)[n] = IF Erased(w, width)[n - 1].fault
                                    THEN Erased(w, width)[n - 1]
                                    ELSE Back(Erased(w, width)[n - 1])
         /\ \A n \in 0..width : Erased(w, width)[n] \in Bounded
<1> DEFINE Step(v) == IF v.fault THEN v ELSE Back(v)
           F == [i \in 1..width |-> [v \in Bounded |-> Step(v)]]
           Is(h) == h = [n \in 0..width |-> IF n = 0 THEN w ELSE Step(h[n - 1])]
           f == CHOOSE h : Is(h)
<1>1. \A v \in Bounded : Step(v) \in Bounded
  BY BackBounded
<1>2. Erased(w, width) = f
  BY DEF Erased
<1> HIDE DEF Step
<1>3. F \in [1..width -> [Bounded -> Bounded]]
  BY <1>1
<1> HIDE DEF F
<1>4. PICK g : g \in [0..width -> Bounded] /\ g[0] = w /\ \A i \in 1..width : g[i] = F[i][g[i - 1]]
  <2>1. \E g : IsRun(g, width, Bounded, w, F)
    BY <1>3, RunExists
  <2> QED BY <2>1 DEF IsRun
<1>5. ASSUME NEW n \in 1..width PROVE g[n] = Step(g[n - 1])
  <2>1. n - 1 \in 0..width
    OBVIOUS
  <2>2. g[n] = F[n][g[n - 1]] /\ g[n - 1] \in Bounded
    BY <1>4, <2>1
  <2> QED BY <2>2 DEF F
<1>6. Is(g)
  <2>1. \A n \in 0..width : g[n] = IF n = 0 THEN w ELSE Step(g[n - 1])
    BY <1>4, <1>5
  <2> QED BY <1>4, <2>1
<1>7. Is(f)
  BY <1>6
<1> HIDE DEF f
<1>8. f[0] = w /\ \A n \in 1..width : f[n] = Step(f[n - 1])
  <2>1. 0 \in 0..width /\ \A n \in 1..width : n \in 0..width /\ n # 0
    OBVIOUS
  <2> QED BY <1>7, <2>1
<1> DEFINE G == {n \in 0..width : f[n] \in Bounded}
<1>9. 0 \in G /\ \A i \in 1..width : i - 1 \in G => i \in G
  BY <1>1, <1>8
<1> HIDE DEF G
<1>10. \A n \in 0..width : n \in G
  BY <1>9, UpTo
<1> QED BY <1>2, <1>8, <1>10 DEF G, Step

SoundSet == {w \in Scr : Sound(w)}

LEMMA PrintedIs ==
  ASSUME NEW w \in SoundSet, NEW str \in Seq(Char)
  PROVE  /\ Printed(w, str)[0] = w
         /\ \A n \in 1..Len(str) :
              Printed(w, str)[n] = IF Printed(w, str)[n - 1].fault
                                   THEN Printed(w, str)[n - 1]
                                   ELSE putc_terminal(Printed(w, str)[n - 1], str[n])
         /\ \A n \in 0..Len(str) : Printed(w, str)[n] \in SoundSet
<1> DEFINE width == Len(str)
           Step(v, n) == IF v.fault THEN v ELSE putc_terminal(v, str[n])
           F == [i \in 1..width |-> [v \in SoundSet |-> Step(v, i)]]
           Is(h) == h = [n \in 0..width |-> IF n = 0 THEN w ELSE Step(h[n - 1], n)]
           f == CHOOSE h : Is(h)
<1>0. width \in Nat /\ \A n \in 1..width : str[n] \in Char
  BY LenProperties, ElementOfSeq
<1>1. ASSUME NEW n \in 1..width, NEW v \in SoundSet PROVE Step(v, n) \in SoundSet
  <2>1. CASE v.fault
    BY <2>1
  <2>2. CASE ~v.fault
    <3>1. Sound(v) /\ str[n] \in Char
      BY <1>0 DEF SoundSet
    <3>2. Sound(putc_terminal(v, str[n]))
      BY <2>2, <3>1, PutcSound
    <3>3. putc_terminal(v, str[n]) \in SoundSet
      BY <3>2 DEF SoundSet, Sound
    <3> QED BY <2>2, <3>3
  <2> QED BY <2>1, <2>2
<1>2. Printed(w, str) = f
  BY DEF Printed
<1> HIDE DEF Step, width
<1>3. F \in [1..width -> [SoundSet -> SoundSet]]
  BY <1>1
<1> HIDE DEF F
<1>4. PICK g : g \in [0..width -> SoundSet] /\ g[0] = w /\ \A i \in 1..width : g[i] = F[i][g[i - 1]]
  <2>1. \E g : IsRun(g, width, SoundSet, w, F)
    BY <1>0, <1>3, RunExists
  <2> QED BY <2>1 DEF IsRun
<1>5. ASSUME NEW n \in 1..width PROVE g[n] = Step(g[n - 1], n)
  <2>1. n - 1 \in 0..width
    BY <1>0
  <2>2. g[n] = F[n][g[n - 1]] /\ g[n - 1] \in SoundSet
    BY <1>4, <2>1
  <2> QED BY <2>2 DEF F
<1>6. Is(g)
  <2>1. \A n \in 0..width : g[n] = IF n = 0 THEN w ELSE Step(g[n - 1], n)
    BY <1>0, <1>4, <1>5
  <2> QED BY <1>4, <2>1
<1>7. Is(f)
  BY <1>6
<1> HIDE DEF f
<1>8. f[0] = w /\ \A n \in 1..width : f[n] = Step(f[n - 1], n)
  <2>1. 0 \in 0..width /\ \A n \in 1..width : n \in 0..width /\ n # 0
    BY <1>0
  <2> QED BY <1>7, <2>1
<1> DEFINE G == {n \in 0..width : f[n] \in SoundSet}
<1>9. 0 \in G /\ \A i \in 1..width : i - 1 \in G => i \in G
  BY <1>0, <1>1, <1>8
<1> HIDE DEF G
<1>10. \A n \in 0..width : n \in G
  BY <1>0, <1>9, UpTo
<1> QED BY <1>2, <1>8, <1>10 DEF G, Step, width

\* A string of glyphs printed where the cursor is in place stands before the
\* cursor.
LEMMA PrintedShown ==
  ASSUME NEW w, InPlace(w), NEW str \in Seq(Char), Range(str) \cap Special = {}
  PROVE  /\ InPlace(Printed(w, str)[Len(str)])
         /\ Before(Printed(w, str)[Len(str)], str, Len(str))
<1> DEFINE f == Printed(w, str)
           G == {n \in 0..Len(str) : InPlace(f[n]) /\ Before(f[n], str, n)}
<1>1. Len(str) \in Nat /\ \A n \in 1..Len(str) : str[n] \in Char /\ str[n] \notin Special
  <2>1. Len(str) \in Nat /\ DOMAIN str = 1..Len(str)
    BY LenProperties
  <2>2. \A n \in 1..Len(str) : str[n] \in Char /\ str[n] \in Range(str)
    BY <2>1, ElementOfSeq DEF Range
  <2> QED BY <2>1, <2>2
<1>2. w \in SoundSet
  BY Geometry DEF InPlace, SoundSet, Sound
<1>3. /\ f[0] = w
      /\ \A n \in 1..Len(str) :
           f[n] = IF f[n - 1].fault THEN f[n - 1] ELSE putc_terminal(f[n - 1], str[n])
  BY <1>2, PrintedIs
<1> HIDE DEF f
<1>4. 0 \in G
  <2>1. Before(f[0], str, 0)
    BY DEF Before
  <2> QED BY <1>1, <1>3, <2>1
<1>5. ASSUME NEW i \in 1..Len(str), i - 1 \in G PROVE i \in G
  <2> DEFINE n == i - 1
  <2>1. n \in Nat /\ i = n + 1 /\ i \in 0..Len(str)
    BY <1>1
  <2>2. InPlace(f[n]) /\ Before(f[n], str, n)
    BY <1>5
  <2>3. ~f[n].fault
    BY <2>2 DEF InPlace
  <2>4. f[i] = putc_terminal(f[n], str[i])
    BY <1>3, <2>3
  <2> HIDE DEF n
  <2>5. str[n + 1] \in Char /\ str[n + 1] \notin Special
    BY <1>1, <2>1
  <2>6. InPlace(putc_terminal(f[n], str[n + 1])) /\ Before(putc_terminal(f[n], str[n + 1]), str, n + 1)
    BY <2>1, <2>2, <2>5, NextShown
  <2> QED BY <2>1, <2>4, <2>6
<1> HIDE DEF G
<1>6. \A n \in 0..Len(str) : n \in G
  BY <1>1, <1>4, <1>5, UpTo
<1>7. Len(str) \in G
  BY <1>1, <1>6
<1> QED BY <1>7 DEF G, f

-----------------------------------------------------------------------------
(* The inductive invariant. *)

\* The line typed so far stands before a cursor that is in place.
LineShown(w, buf) ==
  InPlace(w) /\ buf \in Seq(Glyph) /\ Before(w, buf, Len(buf))

ScreenInv ==
  /\ scr \in Bounded
  /\ key_buf \in Seq(Char) /\ Len(key_buf) <= KEY_BUF_SIZE
  /\ zeroed \in Nat
  /\ plain \in BOOLEAN
  /\ plain => LineShown(scr, key_buf)

LEMMA FreshLine ==
  ASSUME NEW w \in Bounded, ~w.fault, w.x < NUM_COLS, w.y >= 0
  PROVE  LineShown(w, <<>>)
<1>1. InPlace(w)
  BY Geometry DEF Bounded, InPlace, Scr
<1>2. <<>> \in Seq(Glyph) /\ Len(<<>>) = 0
  OBVIOUS
<1>3. Before(w, <<>>, 0)
  BY DEF Before
<1> QED BY <1>1, <1>2, <1>3 DEF LineShown

LEMMA InvFrom ==
  ASSUME NEW still \in BOOLEAN, Plain(still),
         scr' \in Bounded, key_buf' \in Seq(Char), Len(key_buf') <= KEY_BUF_SIZE,
         zeroed' \in Nat, still => LineShown(scr', key_buf'),
         key_buf' = <<>> /\ scr'.x < NUM_COLS /\ scr'.y >= 0 => ~scr'.fault
  PROVE  ScreenInv'
<1>1. ASSUME plain', ~still PROVE LineShown(scr', key_buf')
  <2>1. key_buf' = <<>> /\ scr'.x < NUM_COLS /\ scr'.y >= 0
    BY <1>1 DEF Plain
  <2>2. LineShown(scr', <<>>)
    BY <2>1, FreshLine
  <2> QED BY <2>1, <2>2
<1>2. plain' => LineShown(scr', key_buf')
  BY <1>1
<1>3. plain' \in BOOLEAN
  BY DEF Plain
<1> QED BY <1>2, <1>3 DEF ScreenInv

LEMMA Text ==
  /\ Glyph \subseteq Char /\ Special \subseteq Char /\ Blank \in Char /\ NUL \in Char
  /\ Glyph \cap Special = {}
  /\ KEY_BUF_SIZE \in Nat /\ KEY_BUF_SIZE <= NUM_COLS * (NUM_ROWS - 1)
  /\ \A str \in Output : str \in Seq(Char)
<1>1. ASSUME NEW str \in Output PROVE str \in Seq(Char)
  <2>1. str \in Seq(Range(str))
    BY TextAssumption
  <2>2. Range(str) \subseteq Char
    BY DEF Char
  <2>3. Len(str) \in Nat /\ str \in [1..Len(str) -> Range(str)]
    BY <2>1, LenProperties
  <2>4. str \in [1..Len(str) -> Char]
    BY <2>2, <2>3
  <2> QED BY <2>3, <2>4, FunctionIsSeq
<1> QED BY <1>1, TextAssumption, LineAssumption DEF Char

LEMMA TypeInv ==
  ASSUME ScreenInv, ~scr.fault, NEW c \in Glyph \cup Special, Type(c)
  PROVE  ScreenInv'
<1> DEFINE n == Len(key_buf)
<1>1. /\ scr \in Bounded /\ key_buf \in Seq(Char) /\ n \in Nat /\ n < KEY_BUF_SIZE /\ c \in Char
      /\ scr' = putc_terminal(scr, c) /\ Plain(plain /\ c \in Glyph)
      /\ key_buf' = IF scr'.fault THEN key_buf ELSE Append(key_buf, c)
  BY Text, LenProperties DEF ScreenInv, Type
<1>10. zeroed' \in Nat
  BY DEF ScreenInv, Type
<1>2. Sound(scr)
  BY <1>1 DEF Bounded, Sound
<1>3. Sound(scr')
  BY <1>1, <1>2, PutcSound
<1>4. scr' \in Bounded /\ (scr'.fault => scr'.x >= NUM_COLS \/ scr'.y < 0)
  BY <1>3 DEF Sound, Bounded
<1>5. scr'.x \in Nat /\ scr'.y \in Int /\ NUM_COLS \in Nat /\ KEY_BUF_SIZE \in Nat
  BY <1>4, Text, Geometry DEF Bounded, Scr
<1>6. key_buf' = <<>> /\ scr'.x < NUM_COLS /\ scr'.y >= 0 => ~scr'.fault
  BY <1>4, <1>5
<1>7. key_buf' \in Seq(Char) /\ Len(key_buf') <= KEY_BUF_SIZE
  BY <1>1, <1>5, AppendProperties
<1>8. ASSUME plain, c \in Glyph PROVE LineShown(scr', key_buf')
  <2> DEFINE f == Append(key_buf, c)
  <2>1. InPlace(scr) /\ key_buf \in Seq(Glyph) /\ Before(scr, key_buf, n)
    BY <1>8 DEF ScreenInv, LineShown
  <2>2. f \in Seq(Glyph) /\ Len(f) = n + 1 /\ f[n + 1] = c /\ \A k \in 1..n : f[k] = key_buf[k]
    BY <1>8, <2>1, AppendProperties
  <2>3. Before(scr, f, n)
    <3>1. \A k \in 1..n : n + 1 - k \in 1..n
      BY <1>1
    <3> HIDE DEF f, n
    <3> QED BY <2>1, <2>2, <3>1 DEF Before
  <2>4. f[n + 1] \in Char /\ f[n + 1] \notin Special
    BY <1>1, <1>8, <2>2, Text
  <2> HIDE DEF f, n
  <2>5. InPlace(putc_terminal(scr, f[n + 1])) /\ Before(putc_terminal(scr, f[n + 1]), f, n + 1)
    BY <1>1, <2>1, <2>3, <2>4, NextShown
  <2>6. InPlace(scr') /\ Before(scr', f, n + 1)
    BY <1>1, <2>2, <2>5
  <2>7. ~scr'.fault
    BY <2>6 DEF InPlace
  <2>8. key_buf' = f
    BY <1>1, <2>7 DEF f
  <2> QED BY <2>2, <2>6, <2>8 DEF LineShown
<1> DEFINE still == plain /\ c \in Glyph
<1>9. still \in BOOLEAN /\ Plain(still) /\ (still => LineShown(scr', key_buf'))
  BY <1>1, <1>8
<1> HIDE DEF still
<1> QED BY <1>4, <1>6, <1>7, <1>9, <1>10, InvFrom

LEMMA CtrlLInv ==
  ASSUME ScreenInv, ~scr.fault, CtrlL
  PROVE  ScreenInv'
<1> DEFINE new == [i \in Cell |-> Blank]
           p == [scr EXCEPT !.cells = new]
<1>1. /\ scr \in Scr /\ key_buf' = key_buf /\ scr' = set_screen(p, 0, 0) /\ Plain(FALSE)
      /\ key_buf \in Seq(Char) /\ Len(key_buf) <= KEY_BUF_SIZE /\ zeroed' \in Nat
  BY DEF ScreenInv, Bounded, CtrlL, clear
<1>2. new \in [Cell -> Char]
  BY Text
<1> HIDE DEF new
<1>3. p \in Scr
  BY <1>1, <1>2, CellsAre
<1>4. p.fault = scr.fault
  BY <1>1, <1>2, CellsAre
<1> HIDE DEF p
<1> DEFINE q == set_screen(p, 0, 0)
<1>5. q \in Scr /\ q.y = 0 /\ q.fault = p.fault
  <2>1. 0 \in Nat /\ 0 \in Int
    OBVIOUS
  <2> QED BY <1>3, <2>1, SetIs
<1> HIDE DEF q
<1>6. scr' = q
  BY <1>1 DEF q
<1>7. ~scr'.fault
  BY <1>4, <1>5, <1>6, Zenon
<1>8. scr' \in Bounded
  BY <1>5, <1>6, Geometry DEF Bounded
<1> QED BY <1>1, <1>7, <1>8, InvFrom

LEMMA ZeroInv ==
  ASSUME ScreenInv, ~scr.fault, ZeroKey
  PROVE  ScreenInv'
<1> DEFINE still == plain /\ zeroed + 1 > Len(key_buf)
           n == Len(key_buf)
<1>1. /\ scr' = scr /\ Plain(still) /\ zeroed \in Nat /\ scr \in Bounded
      /\ key_buf' = [k \in DOMAIN key_buf |-> IF k = zeroed + 1 THEN NUL ELSE key_buf[k]]
      /\ zeroed' = zeroed + 1 /\ key_buf \in Seq(Char) /\ n <= KEY_BUF_SIZE
  BY DEF ScreenInv, ZeroKey
<1>2. n \in Nat /\ key_buf \in [1..n -> Char] /\ DOMAIN key_buf = 1..n
  BY <1>1, LenProperties
<1>3. key_buf' \in [1..n -> Char]
  BY <1>1, <1>2, Text
<1>4. key_buf' \in Seq(Char) /\ Len(key_buf') = n
  BY <1>2, <1>3, FunctionIsSeq
<1>5. ASSUME still PROVE LineShown(scr', key_buf')
  <2>1. \A k \in 1..n : k # zeroed + 1
    BY <1>1, <1>2, <1>5
  <2>2. key_buf' = key_buf
    BY <1>1, <1>2, <2>1
  <2>3. LineShown(scr, key_buf)
    BY <1>5 DEF ScreenInv
  <2> QED BY <1>1, <2>2, <2>3
<1>6. still \in BOOLEAN /\ zeroed' \in Nat
  BY <1>1 DEF ScreenInv
<1> HIDE DEF still, n
<1>7. Len(key_buf') <= KEY_BUF_SIZE
  BY <1>1, <1>4
<1> QED BY <1>1, <1>4, <1>5, <1>6, <1>7, InvFrom

LEMMA ClearInv ==
  ASSUME ScreenInv, ~scr.fault, clear_key_buffer
  PROVE  ScreenInv'
<1>1. CASE ZeroKey
  BY <1>1, ZeroInv
<1>2. CASE ResetIndex
  <2>1. scr' = scr /\ key_buf' = <<>> /\ zeroed' = 0 /\ Plain(FALSE) /\ scr \in Bounded
    BY <1>2 DEF ScreenInv, ResetIndex
  <2>2. key_buf' \in Seq(Char) /\ Len(key_buf') <= KEY_BUF_SIZE /\ zeroed' \in Nat
    BY <2>1, Text
  <2> QED BY <2>1, <2>2, InvFrom
<1> QED BY <1>1, <1>2 DEF clear_key_buffer

LEMMA WriteInv ==
  ASSUME ScreenInv, ~scr.fault, NEW str \in Output, terminal_write(str)
  PROVE  ScreenInv'
<1>1. /\ scr' = Printed(scr, str)[Len(str)] /\ key_buf' = key_buf /\ Plain(FALSE)
      /\ scr \in Bounded /\ key_buf \in Seq(Char) /\ Len(key_buf) <= KEY_BUF_SIZE
      /\ zeroed' \in Nat
  BY DEF ScreenInv, terminal_write
<1>2. str \in Seq(Char) /\ Len(str) \in 0..Len(str)
  <2>1. str \in Seq(Char)
    BY Text
  <2> QED BY <2>1, LenProperties
<1>3. scr \in SoundSet
  BY <1>1 DEF Bounded, SoundSet, Sound
<1>4. scr' \in SoundSet
  BY <1>1, <1>2, <1>3, PrintedIs
<1>5. scr' \in Bounded /\ (scr'.fault => scr'.x >= NUM_COLS \/ scr'.y < 0)
  BY <1>4 DEF SoundSet, Sound, Bounded
<1>6. scr'.x \in Nat /\ scr'.y \in Int /\ NUM_COLS \in Nat
  BY <1>5, Geometry DEF Bounded, Scr
<1>7. key_buf' = <<>> /\ scr'.x < NUM_COLS /\ scr'.y >= 0 => ~scr'.fault
  BY <1>5, <1>6
<1> QED BY <1>1, <1>5, <1>7, InvFrom

\* Erasing the last glyph of a plain line is one cell back.
LEMMA PlainBack ==
  ASSUME ScreenInv, Backspace, plain
  PROVE  /\ InPlace(scr) /\ Pos(scr) \in Cell /\ Pos(scr) >= 1 /\ scr' = Back(scr)
         /\ Len(key_buf) \in Nat /\ Len(key_buf) >= 1
         /\ Len(key_buf) <= NUM_COLS * (NUM_ROWS - 1)
<1> DEFINE n == Len(key_buf)
<1>1. /\ InPlace(scr) /\ key_buf \in Seq(Glyph) /\ Before(scr, key_buf, n)
      /\ key_buf # <<>> /\ scr' = deletec_terminal(scr, key_buf[Len(key_buf)]) /\ scr \in Bounded
      /\ n <= KEY_BUF_SIZE
  BY DEF ScreenInv, LineShown, Backspace
<1>2. n \in Nat /\ n >= 1 /\ n \in 1..n
  BY <1>1, LenProperties, EmptySeq
<1>3. key_buf[Len(key_buf)] = key_buf[n] /\ key_buf[n] \in Glyph
  BY <1>1, <1>2, ElementOfSeq
<1>4. Width(key_buf[Len(key_buf)]) = 1
  BY <1>3, Text DEF Width, Special
<1>5. scr' = Erased(scr, 1)[1]
  BY <1>1, <1>4 DEF deletec_terminal
<1>6. ~scr.fault
  BY <1>1 DEF InPlace
<1>7. scr' = Back(scr)
  <2>1. 1 \in 1..1 /\ 1 - 1 = 0 /\ 1 \in Nat
    OBVIOUS
  <2>2. Erased(scr, 1)[0] = scr
    BY <1>1, <2>1, ErasedIs
  <2>3. Erased(scr, 1)[1] = IF Erased(scr, 1)[1 - 1].fault THEN Erased(scr, 1)[1 - 1]
                                                        ELSE Back(Erased(scr, 1)[1 - 1])
    BY <1>1, <2>1, ErasedIs
  <2> QED BY <1>5, <1>6, <2>1, <2>2, <2>3
<1>8. n <= NUM_COLS * (NUM_ROWS - 1) /\ 1 <= NUM_COLS * (NUM_ROWS - 1)
  BY <1>1, <1>2, Text, Geometry
<1>9. Pos(scr) \in Cell
  BY <1>1, PosIs DEF InPlace, Pos
<1>10. Shows(scr, Pos(scr) - 1, key_buf[n + 1 - 1])
  <2>1. 1 \in 1..n
    BY <1>2
  <2> HIDE DEF n
  <2> QED BY <1>1, <1>8, <2>1 DEF Before
<1>11. Pos(scr) >= 1
  BY <1>9, <1>10, Geometry DEF Shows, Cell
<1> QED BY <1>1, <1>2, <1>7, <1>8, <1>9, <1>11

LEMMA BackspaceInv ==
  ASSUME ScreenInv, ~scr.fault, Backspace
  PROVE  ScreenInv'
<1> DEFINE n == Len(key_buf)
           c == key_buf[Len(key_buf)]
           f == SubSeq(key_buf, 1, Len(key_buf) - 1)
<1>1. /\ scr \in Bounded /\ key_buf \in Seq(Char) /\ n <= KEY_BUF_SIZE /\ key_buf # <<>>
      /\ scr' = Erased(scr, Width(c))[Width(c)] /\ Plain(plain)
      /\ key_buf' = IF scr'.fault THEN key_buf ELSE f
  BY DEF ScreenInv, Backspace, deletec_terminal
<1>2. n \in Nat /\ n >= 1 /\ KEY_BUF_SIZE \in Nat
  BY <1>1, LenProperties, EmptySeq, Text
<1>3. Width(c) \in Nat
  BY Geometry DEF Width
<1>4. scr' \in Bounded
  <2> DEFINE width == Width(c)
  <2>1. width \in Nat /\ width \in 0..width /\ scr' = Erased(scr, width)[width]
    BY <1>1, <1>3
  <2> HIDE DEF width
  <2> QED BY <1>1, <2>1, ErasedIs
<1>5. ASSUME NEW S, key_buf \in Seq(S)
      PROVE  f \in Seq(S) /\ Len(f) = n - 1 /\ \A k \in 1..(n - 1) : f[k] = key_buf[k]
  <2>1. f = SubSeq(key_buf, 1, n - 1)
    OBVIOUS
  <2>2. 1 \in 1..(n + 1) /\ n - 1 \in 0..n
    BY <1>2
  <2> HIDE DEF n, f
  <2>3. n = Len(key_buf)
    BY DEF n
  <2> QED BY <1>2, <1>5, <2>1, <2>2, <2>3, SubSeqProperties
<1>6. key_buf' \in Seq(Char) /\ Len(key_buf') <= KEY_BUF_SIZE
  <2>1. f \in Seq(Char) /\ Len(f) <= KEY_BUF_SIZE
    <3> HIDE DEF f, n
    <3> QED BY <1>1, <1>2, <1>5
  <2> HIDE DEF f
  <2> QED BY <1>1, <2>1
<1>7. key_buf' = <<>> => ~scr'.fault
  BY <1>1
<1>8. ASSUME plain PROVE LineShown(scr', key_buf')
  <2>1. /\ InPlace(scr) /\ Pos(scr) \in Cell /\ Pos(scr) >= 1 /\ scr' = Back(scr)
        /\ n <= NUM_COLS * (NUM_ROWS - 1)
    BY <1>8, PlainBack
  <2>2. /\ InPlace(scr') /\ Pos(scr') = Pos(scr) - 1
        /\ \A i \in Cell : i # Pos(scr) - 1 => scr'.cells[i] = scr.cells[i]
    BY <2>1, BackInPlace
  <2>3. key_buf' = f
    <3>1. ~scr'.fault
      BY <2>2 DEF InPlace
    <3> QED BY <1>1, <3>1
  <2>4. key_buf \in Seq(Glyph) /\ Before(scr, key_buf, n)
    BY <1>8 DEF ScreenInv, LineShown
  <2>5. f \in Seq(Glyph) /\ Len(f) = n - 1 /\ \A k \in 1..(n - 1) : f[k] = key_buf[k]
    BY <1>5, <2>4
  <2>6. Pos(scr) \in Int /\ NUM_COLS * (NUM_ROWS - 1) \in Nat
    BY <2>1, Geometry DEF Cell
  <2> HIDE DEF f, n
  <2>7. ASSUME NEW k \in 1..(n - 1) PROVE Shows(scr', Pos(scr') - k, f[(n - 1) + 1 - k])
    <3> DEFINE j == k + 1
               i == Pos(scr) - j
    <3>1. j \in 1..n /\ j <= NUM_COLS * (NUM_ROWS - 1) /\ n + 1 - j = (n - 1) + 1 - k
      BY <1>2, <2>1, <2>6
    <3>2. (n - 1) + 1 - k \in 1..(n - 1)
      BY <1>2
    <3>3. i # Pos(scr) - 1 /\ i = Pos(scr') - k
      BY <1>2, <2>2, <2>6
    <3> HIDE DEF j
    <3>4. Shows(scr, i, key_buf[n + 1 - j])
      BY <2>4, <3>1 DEF Before
    <3> HIDE DEF i
    <3>5. i \in Cell /\ scr.cells[i] = key_buf[n + 1 - j]
      BY <3>4 DEF Shows
    <3>6. scr'.cells[i] = scr.cells[i]
      BY <2>2, <3>3, <3>5
    <3>7. f[(n - 1) + 1 - k] = key_buf[(n - 1) + 1 - k]
      BY <2>5, <3>2
    <3>8. Shows(scr', i, f[(n - 1) + 1 - k])
      BY <3>1, <3>5, <3>6, <3>7 DEF Shows
    <3> QED BY <3>3, <3>8
  <2>8. Before(scr', f, n - 1)
    BY <2>7 DEF Before
  <2> QED BY <2>2, <2>3, <2>5, <2>8 DEF LineShown
<1>9. plain \in BOOLEAN /\ zeroed' \in Nat
  BY DEF ScreenInv, Backspace
<1> HIDE DEF f, n, c
<1> QED BY <1>1, <1>4, <1>6, <1>7, <1>8, <1>9, InvFrom

LEMMA ScreenInitInv == Init => ScreenInv
<1> SUFFICES ASSUME Init PROVE ScreenInv
  OBVIOUS
<1>1. scr.x = 0 /\ scr.y = 0 /\ key_buf = <<>> /\ plain = TRUE /\ zeroed = 0
  BY DEF Init
<1>2. scr \in Scr
  <2>1. [i \in Cell |-> Blank] \in [Cell -> Char]
    BY Text
  <2> QED BY <2>1 DEF Init, Scr
<1>3. scr \in Bounded
  BY <1>1, <1>2, Geometry DEF Bounded
<1>4. ~scr.fault
  BY DEF Init
<1>5. LineShown(scr, key_buf)
  BY <1>1, <1>3, <1>4, Geometry, FreshLine
<1> QED BY <1>1, <1>3, <1>5, Text DEF ScreenInv

LEMMA ScreenStepInv == ScreenInv /\ [Next]_vars => ScreenInv'
<1> SUFFICES ASSUME ScreenInv, [Next]_vars PROVE ScreenInv'
  OBVIOUS
<1>1. CASE UNCHANGED vars
  BY <1>1 DEF vars, ScreenInv, LineShown, InPlace, Before, Shows, Pos
<1>2. CASE ~scr.fault /\ \E c \in Glyph \cup Special : Type(c)
  BY <1>2, TypeInv
<1>3. CASE ~scr.fault /\ CtrlL
  BY <1>3, CtrlLInv
<1>4. CASE ~scr.fault /\ Backspace
  BY <1>4, BackspaceInv
<1>5. CASE ~scr.fault /\ clear_key_buffer
  BY <1>5, ClearInv
<1>6. CASE ~scr.fault /\ \E str \in Output : terminal_write(str)
  BY <1>6, WriteInv
<1> QED BY <1>1, <1>2, <1>3, <1>4, <1>5, <1>6 DEF Next

LEMMA ScreenInvariant == Spec => []ScreenInv
<1> QED BY ScreenInitInv, ScreenStepInv, PTL DEF Spec

\* While a plain line is typed and erased with key_handler's echo and its
\* backspace, the characters before the cursor are the line in key_buf, on a
\* screen of any size and for a key buffer of any size that the rows above the
\* last can hold.
THEOREM EchoAgrees == Spec => []EchoMatches
<1>1. ASSUME ScreenInv PROVE EchoMatches
  <2> SUFFICES ASSUME plain PROVE /\ ~scr.fault
                                  /\ scr.x \in 0..(NUM_COLS - 1) /\ scr.y \in 0..(NUM_ROWS - 1)
                                  /\ \A k \in 1..Len(key_buf) :
                                       Shows(scr, Pos(scr) - k, key_buf[Len(key_buf) + 1 - k])
    BY DEF EchoMatches
  <2>1. InPlace(scr) /\ Before(scr, key_buf, Len(key_buf))
    BY <1>1 DEF ScreenInv, LineShown
  <2>2. Len(key_buf) \in Nat /\ Len(key_buf) <= KEY_BUF_SIZE
    BY <1>1, LenProperties DEF ScreenInv
  <2>3. \A k \in 1..Len(key_buf) : k <= NUM_COLS * (NUM_ROWS - 1)
    BY <2>2, Text, Geometry
  <2>4. \A k \in 1..Len(key_buf) : Shows(scr, Pos(scr) - k, key_buf[Len(key_buf) + 1 - k])
    BY <2>1, <2>3 DEF Before
  <2>5. ~scr.fault /\ scr.x \in 0..(NUM_COLS - 1) /\ scr.y \in 0..(NUM_ROWS - 1)
    BY <2>1 DEF InPlace
  <2> QED BY <2>4, <2>5
<1> QED BY <1>1, ScreenInvariant, PTL

\* What terminal_write prints from a cursor in place stands before the cursor
\* afterwards, however often it scrolled; the backspace over a plain line
\* changes nothing that stood on the screen before the line.
THEOREM OutputStands == Spec => OutputKept
<1> DEFINE WriteKept ==
             \A str \in Output :
               /\ terminal_write(str) /\ scr.x < NUM_COLS /\ scr.y >= 0
               /\ Range(str) \cap Special = {}
               => \A k \in 1..Len(str) : k <= NUM_COLS * (NUM_ROWS - 1) =>
                    Shows(scr', Pos(scr') - k, str[Len(str) + 1 - k])
           BackKept ==
             Backspace /\ plain =>
               \A i \in 0..(Pos(scr) - Len(key_buf) - 1) : scr'.cells[i] = scr.cells[i]
<1>1. ASSUME ScreenInv, Next PROVE WriteKept
  <2> SUFFICES ASSUME NEW str \in Output, terminal_write(str), scr.x < NUM_COLS, scr.y >= 0,
                      Range(str) \cap Special = {}
               PROVE  Before(scr', str, Len(str))
    BY DEF Before
  <2>1. scr \in Bounded /\ ~scr.fault
    BY <1>1 DEF ScreenInv, Next
  <2>2. InPlace(scr)
    BY <2>1, FreshLine DEF LineShown
  <2>3. str \in Seq(Char)
    BY Text
  <2>4. Before(Printed(scr, str)[Len(str)], str, Len(str))
    BY <2>2, <2>3, PrintedShown
  <2>5. scr' = Printed(scr, str)[Len(str)]
    BY DEF terminal_write
  <2> QED BY <2>4, <2>5
<1>2. ASSUME ScreenInv PROVE BackKept
  <2> SUFFICES ASSUME Backspace, plain, NEW i \in 0..(Pos(scr) - Len(key_buf) - 1)
               PROVE  scr'.cells[i] = scr.cells[i]
    OBVIOUS
  <2>1. /\ InPlace(scr) /\ Pos(scr) \in Cell /\ Pos(scr) >= 1 /\ scr' = Back(scr)
        /\ Len(key_buf) \in Nat /\ Len(key_buf) >= 1
    BY <1>2, PlainBack
  <2>2. i \in Cell /\ i # Pos(scr) - 1
    BY <2>1, Geometry DEF Cell
  <2> QED BY <2>1, <2>2, BackInPlace
<1>3. ScreenInv /\ [Next]_vars => [WriteKept /\ BackKept]_vars
  BY <1>1, <1>2
<1> QED BY <1>3, ScreenInvariant, PTL DEF Spec, OutputKept, WriteKept, BackKept
=============================================================================
