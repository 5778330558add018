------------------------------ MODULE Framebuf ------------------------------
(***************************************************************************)
(* Drawing on the display (framebuf.cpp over mono_vlsb.cpp): a byte of the  *)
(* buffer holds a column of PAGE pixels, the one at index 0 is the control  *)
(* byte that ssd1306os sends before them.  A byte is the set of its bits,   *)
(* and drawn is the picture the calls ask for.  The program only fills and  *)
(* writes texts; the other calls are there for it to use.                   *)
(***************************************************************************)
EXTENDS Integers, Sequences, SequencesExt, FiniteSetsExt

CONSTANTS
  WIDTH, HEIGHT,
  PAGE,        \* rows in a byte, 8
  CELL,        \* columns of a character, 8
  Font,        \* of each character, the rows lit in each of its columns
  Unknown,     \* the character shown for those the font does not have
  Texts, Images,
  DRAWS        \* bound: calls in a run

Parameters ==
  /\ {WIDTH, HEIGHT, PAGE, CELL} \subseteq Nat \ {0} /\ DRAWS \in Nat
  /\ Unknown \in DOMAIN Font /\ \A c \in DOMAIN Font : Len(Font[c]) = CELL

VARIABLES buffer, drawn, draws
vars == <<buffer, drawn, draws>>

Offset == 1                                  \* buf_offset of ssd1306os
Control == {6}                               \* 0x40
Size == WIDTH * (HEIGHT \div PAGE + (IF HEIGHT % PAGE # 0 THEN 1 ELSE 0)) + Offset

Columns == 0 .. WIDTH - 1
Rows == 0 .. HEIGHT - 1
Visible == Columns \X Rows

-----------------------------------------------------------------------------
(* mono_vlsb *)

Index(x, y) == (y \div PAGE) * WIDTH + x + Offset
Put(byte, bit, on) == IF on THEN byte \cup {bit} ELSE byte \ {bit}
SetPixel(b, x, y, on) == [b EXCEPT ![Index(x, y)] = Put(@, y % PAGE, on)]
GetPixel(b, x, y) == y % PAGE \in b[Index(x, y)]

FillRect(b, x, y, w, h, on) ==
  LET one(d, a) == [a EXCEPT ![Index(x, y + d[2]) + d[1]] = Put(@, (y + d[2]) % PAGE, on)]
  IN  FoldSet(one, b, (0 .. w - 1) \X (0 .. h - 1))

Clipped(b, x, y, on) == IF <<x, y>> \in Visible THEN SetPixel(b, x, y, on) ELSE b

-----------------------------------------------------------------------------
(* framebuf *)

Abs(n) == IF n < 0 THEN -n ELSE n
Toward(n) == IF n > 0 THEN 1 ELSE -1

(* The error e says when to step aside; a steep line has its axes swapped.  *)
Line(b, x1, y1, x2, y2, on) ==
  LET steep == Abs(y2 - y1) > Abs(x2 - x1)
      along == IF steep THEN Abs(y2 - y1) ELSE Abs(x2 - x1)
      aside == IF steep THEN Abs(x2 - x1) ELSE Abs(y2 - y1)
      sx == IF steep THEN Toward(y2 - y1) ELSE Toward(x2 - x1)
      sy == IF steep THEN Toward(x2 - x1) ELSE Toward(y2 - y1)
      start == [b |-> b, x |-> IF steep THEN y1 ELSE x1, y |-> IF steep THEN x1 ELSE y1,
                e |-> 2 * aside - along]
      next(r, i) ==
        [b |-> IF steep THEN Clipped(r.b, r.y, r.x, on) ELSE Clipped(r.b, r.x, r.y, on),
         x |-> r.x + sx,
         y |-> IF r.e >= 0 THEN r.y + sy ELSE r.y,
         e |-> (IF r.e >= 0 THEN r.e - 2 * along ELSE r.e) + 2 * aside]
  IN  Clipped(FoldLeft(next, start, [i \in 1 .. along |-> i]).b, x2, y2, on)

Outline(b, x, y, w, h, on) ==
  LET sides == <<<<x, y, w, 1>>, <<x, y + h - 1, w, 1>>, <<x, y, 1, h>>, <<x + w - 1, y, 1, h>>>>
  IN  FoldLeft(LAMBDA a, s : FillRect(a, s[1], s[2], s[3], s[4], on), b, sides)

(* Characters side by side, column by column; only lit pixels are drawn.    *)
Glyph(c) == IF c \in DOMAIN Font THEN Font[c] ELSE Font[Unknown]
Text(b, chars, x, y, on) ==
  LET columns == FlattenSeq([k \in DOMAIN chars |-> Glyph(chars[k])])
      one(a, j) == FoldSet(LAMBDA r, p : Clipped(p, x + j - 1, y + r, on), a, columns[j])
  IN  FoldLeft(one, b, [j \in DOMAIN columns |-> j])

(* The part of the image that falls on the buffer, but for pixels of the    *)
(* colour key, through a palette.                                           *)
Larger(m, n) == IF m > n THEN m ELSE n
Smaller(m, n) == IF m < n THEN m ELSE n
Blit(b, image, x, y, key, palette) ==
  LET one(p, a) ==
        LET col == palette[(<<p[1] - x, p[2] - y>> \in image.lit)]
        IN  IF col \in key THEN a ELSE SetPixel(a, p[1], p[2], col)
  IN  IF x >= WIDTH \/ y >= HEIGHT \/ -x >= image.w \/ -y >= image.h THEN b
      ELSE FoldSet(one, b, (Larger(0, x) .. Smaller(WIDTH, x + image.w) - 1)
                             \X (Larger(0, y) .. Smaller(HEIGHT, y + image.h) - 1))

(* In place: away from where the pixels come from, so that none is read     *)
(* after it was overwritten.  Nothing is done if all would leave.           *)
Down(from, to) == [i \in 1 .. from - to + 1 |-> from - i + 1]
Up(from, to) == [i \in 1 .. to - from + 1 |-> from + i - 1]
OrderUp(size, step) ==                       \* slip: always upwards
  IF step < 0 THEN Up(0, size + step - 1) ELSE Up(step, size - 1)
Order(size, step) == IF step < 0 THEN Up(0, size + step - 1) ELSE Down(size - 1, step)
Scroll(b, xstep, ystep) ==
  LET row(a, y) == FoldLeft(LAMBDA p, x : SetPixel(p, x, y, GetPixel(p, x - xstep, y - ystep)),
                            a, Order(WIDTH, xstep))
  IN  IF Abs(xstep) >= WIDTH \/ Abs(ystep) >= HEIGHT THEN b
      ELSE FoldLeft(row, b, Order(HEIGHT, ystep))

-----------------------------------------------------------------------------
(* The pictures asked for, as sets of points.                               *)

Box(x, y, w, h) == (x .. x + w - 1) \X (y .. y + h - 1)
Lit(points, on) == IF on THEN drawn \cup (points \cap Visible) ELSE drawn \ points

(* The points next to the ideal line; halves are rounded away from its start. *)
OnLine(x1, y1, x2, y2) ==
  LET dx == Abs(x2 - x1)
      dy == Abs(y2 - y1)
      n == Larger(dx, dy)
      part(d, i) == IF n = 0 THEN 0 ELSE (2 * i * d + n) \div (2 * n)
  IN  {<<x1 + Toward(x2 - x1) * part(dx, i), y1 + Toward(y2 - y1) * part(dy, i)>> : i \in 0 .. n}

Border(x, y, w, h) == Box(x, y, w, h) \ Box(x + 1, y + 1, w - 2, h - 2)

InText(chars, x, y) ==
  {p \in Visible :
     LET column == p[1] - x IN
     /\ column \in 0 .. CELL * Len(chars) - 1
     /\ p[2] - y \in Glyph(chars[column \div CELL + 1])[(column % CELL) + 1]}

Pasted(image, x, y, key, palette) ==
  {p \in Visible :
     LET from == <<p[1] - x, p[2] - y>> IN
     IF from \in Box(0, 0, image.w, image.h) /\ palette[(from \in image.lit)] \notin key
     THEN palette[(from \in image.lit)] ELSE p \in drawn}

Moved(xstep, ystep) ==
  {p \in Visible :
     LET from == <<p[1] - xstep, p[2] - ystep>>
         stays == Abs(xstep) >= WIDTH \/ Abs(ystep) >= HEIGHT \/ from \notin Visible
     IN  (IF stays THEN p ELSE from) \in drawn}

-----------------------------------------------------------------------------
Init ==
  /\ buffer = [i \in 0 .. Size - 1 |-> IF i = 0 THEN Control ELSE {}]
  /\ drawn = {}
  /\ draws = 0

Becomes(b, points) ==
  /\ draws < DRAWS
  /\ buffer' = b /\ drawn' = points /\ draws' = draws + 1

DrawLine ==
  \E p, q \in (0 .. WIDTH) \X (0 .. HEIGHT), on \in BOOLEAN :
    Becomes(Line(buffer, p[1], p[2], q[1], q[2], on), Lit(OnLine(p[1], p[2], q[1], q[2]), on))

DrawRect ==
  \E p \in Visible, on, fill \in BOOLEAN :
    \E w \in 1 .. WIDTH - p[1], h \in 1 .. HEIGHT - p[2] :
      IF fill THEN Becomes(FillRect(buffer, p[1], p[2], w, h, on), Lit(Box(p[1], p[2], w, h), on))
      ELSE Becomes(Outline(buffer, p[1], p[2], w, h, on), Lit(Border(p[1], p[2], w, h), on))

DrawText ==
  \E chars \in Texts, x \in 0 .. WIDTH, y \in 0 .. HEIGHT, on \in BOOLEAN :
    Becomes(Text(buffer, chars, x, y, on), Lit(InText(chars, x, y), on))

DrawImage ==
  \E image \in Images, x \in -WIDTH .. WIDTH, y \in -HEIGHT .. HEIGHT :
    \E key \in {{}, {FALSE}, {TRUE}}, palette \in [BOOLEAN -> BOOLEAN] :
      Becomes(Blit(buffer, image, x, y, key, palette), Pasted(image, x, y, key, palette))

DoScroll ==
  \E x \in -WIDTH .. WIDTH, y \in -HEIGHT .. HEIGHT :
    Becomes(Scroll(buffer, x, y), Moved(x, y))

Next == DrawLine \/ DrawRect \/ DrawText \/ DrawImage \/ DoScroll

Spec == Init /\ [][Next]_vars

-----------------------------------------------------------------------------
\* Type invariant: the buffer keeps its size, its control byte and rows below the last dark.
TypeOK ==
  /\ DOMAIN buffer = 0 .. Size - 1 /\ buffer[0] = Control
  /\ \A i \in 1 .. Size - 1 : buffer[i] \subseteq 0 .. PAGE - 1
  /\ \A x \in Columns, y \in HEIGHT .. ((Size - Offset) \div WIDTH) * PAGE - 1 :
       ~GetPixel(buffer, x, y)

(* The buffer holds the picture asked for: lines as near to the ideal one   *)
(* as pixels allow, texts and images cut off at the edges, and everything   *)
(* moved as a whole when it is scrolled in place.                           *)
HoldsPicture == \A p \in Visible : GetPixel(buffer, p[1], p[2]) <=> p \in drawn
=============================================================================
