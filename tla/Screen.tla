------------------------------- MODULE Screen -------------------------------
(***************************************************************************)
(* Text and figures: the kernel's console (console.cpp), its fonts          *)
(* (font.cpp), rectangles and blocks of pixels (graphics.hpp,               *)
(* frame_buffer.cpp) and the line of the system call WinDrawLine.  The      *)
(* console is a state machine; the rest are calls of which each runs once   *)
(* on one of the inputs of its kind.                                        *)
(***************************************************************************)
EXTENDS Integers, Sequences, FiniteSets, SequencesExt

CONSTANTS
  Rows, Columns,   \* the console's size in characters
  MaxText,         \* bound: characters printed
  MaxCoord,        \* bound: coordinates of lines
  Strings,         \* sequences of Unicode characters that are drawn
  BoxWidth,        \* width of the text box in pixels, InnerSize().x
  MaxKeys          \* bound: keys typed into it

VARIABLES
  console,         \* the Console object and the cells of its writer
  call             \* a call of one of the drawing functions

NoCall == [op |-> "none", in |-> 0, out |-> <<>>]

-----------------------------------------------------------------------------
(* Console.  A cell is the set of characters whose pixels it shows:         *)
(* WriteAscii sets pixels of the foreground only.                           *)

NUL == "nul"
RowsOf == 0 .. Rows - 1
EmptyLine == [c \in 0 .. Columns |-> NUL]
BlankRow == [c \in 0 .. Columns - 1 |-> {}]
Blank == [r \in RowsOf |-> BlankRow]

\* The characters of a buffer line up to its first NUL, in the cells of a row.
WriteString(row, line) ==
  [c \in 0 .. Columns - 1 |->
     IF \A d \in 0 .. c : line[d] # NUL THEN row[c] \cup {line[c]} ELSE row[c]]

Refresh(buffer) == [r \in RowsOf |-> WriteString(BlankRow, buffer[r])]

InitializeConsole ==
  [window |-> FALSE, buffer |-> [r \in RowsOf |-> EmptyLine],
   row |-> 0, col |-> 0, cells |-> Blank, text |-> <<>>]

\* Without a window the buffer is moved up and drawn again ...
ScrollBuffer(c) ==
  LET buffer == [r \in RowsOf |-> IF r < Rows - 1 THEN c.buffer[r + 1] ELSE EmptyLine]
  IN  [c EXCEPT !.buffer = buffer, !.cells = Refresh(buffer)]

\* ... with one the pixels are, and the buffer is left as it is.
ScrollWindow(c) ==
  [c EXCEPT !.cells = [r \in RowsOf |-> IF r < Rows - 1 THEN c.cells[r + 1] ELSE BlankRow]]

\* Mutant: the last row is not noticed.
NewlineOffByOne(c) ==
  LET d == [c EXCEPT !.col = 0]
  IN  IF c.row < Rows THEN [d EXCEPT !.row = (c.row + 1) % Rows]
      ELSE IF c.window THEN ScrollWindow(d) ELSE ScrollBuffer(d)

Newline(c) ==
  LET d == [c EXCEPT !.col = 0]
  IN  IF c.row < Rows - 1 THEN [d EXCEPT !.row = c.row + 1]
      ELSE IF c.window THEN ScrollWindow(d) ELSE ScrollBuffer(d)

\* One turn of the loop: what does not fit in the line is dropped.
PutChar(c, ch) ==
  IF ch = "\n" THEN Newline(c)
  ELSE IF c.col < Columns - 1
  THEN [c EXCEPT !.cells[c.row][c.col] = @ \cup {ch}, !.buffer[c.row][c.col] = ch, !.col = @ + 1]
  ELSE c

PutString(s) ==
  /\ Len(console.text) + Len(s) <= MaxText
  /\ console' = [FoldLeft(PutChar, console, s) EXCEPT !.text = console.text \o s]
  /\ UNCHANGED call

\* InitializeLayer gives the console its window.
SetWindow ==
  /\ ~console.window
  /\ console' = [console EXCEPT !.window = TRUE, !.cells = Refresh(console.buffer)]
  /\ UNCHANGED call

-----------------------------------------------------------------------------
(* Rectangles [x, y, w, h] and pixels.                                      *)

Points(r) == {<<x, y>> : x \in r.x .. r.x + r.w - 1, y \in r.y .. r.y + r.h - 1}
Smaller(a, b) == IF a < b THEN a ELSE b
Larger(a, b) == IF a < b THEN b ELSE a

Intersection(l, r) ==
  LET x == Larger(l.x, r.x)
      y == Larger(l.y, r.y)
  IN  IF \/ l.x + l.w < r.x \/ l.y + l.h < r.y
         \/ r.x + r.w < l.x \/ r.y + r.h < l.y
      THEN [x |-> 0, y |-> 0, w |-> 0, h |-> 0]
      ELSE [x |-> x, y |-> y, w |-> Smaller(l.x + l.w, r.x + r.w) - x,
                              h |-> Smaller(l.y + l.h, r.y + r.h) - y]

\* FrameBuffer::Move: rows are copied one by one, from the side that the
\* destination does not overwrite.
MoveRow(f, m, i) ==
  [p \in DOMAIN f |->
     IF p[2] = m.dy + i /\ p[1] \in m.dx .. m.dx + m.w - 1
     THEN f[<<p[1] - m.dx + m.x, m.y + i>>] ELSE f[p]]

\* Mutant: rows are always copied from the top.
MoveForward(f, m) ==
  FoldLeft(LAMBDA g, i : MoveRow(g, m, i), f, [i \in 1 .. m.h |-> i - 1])

Move(f, m) ==
  LET rows == IF m.dy < m.y THEN [i \in 1 .. m.h |-> i - 1] ELSE [i \in 1 .. m.h |-> m.h - i]
  IN  FoldLeft(LAMBDA g, i : MoveRow(g, m, i), f, rows)

Sign(n) == IF n > 0 THEN 1 ELSE IF n < 0 THEN -1 ELSE 0
Abs(n) == IF n < 0 THEN -n ELSE n

\* floor or ceil of m * k + n0 with m = num / den (den > 0) in double.  Where
\* the exact value is an integer other than n0, and m is not one, the product
\* may be rounded to the other side of it.
Roundish(num, den, k, n0, up) ==
  LET exact == IF up THEN n0 + (num * k) \div den ELSE n0 - ((-num * k) \div den)
      hazy == (num * k) % den = 0 /\ k # 0 /\ num % den # 0
  IN  {exact} \cup (IF hazy THEN {exact - Sign(num)} ELSE {})

\* The lines WinDrawLine can draw, as functions of the longer axis.
Steps(a0, b0, a1, b1, da, db) ==
  LET swap == da < 0
      s == IF swap THEN [a0 |-> a1, b0 |-> b1, a1 |-> a0, b1 |-> b0]
                   ELSE [a0 |-> a0, b0 |-> b0, a1 |-> a1, b1 |-> b1]
      num == IF swap THEN -db ELSE db
      at(a) == Roundish(num, Abs(da), a - s.a0, s.b0, s.b1 >= s.b0)
  IN  {f \in [s.a0 .. s.a1 -> UNION {at(a) : a \in s.a0 .. s.a1}] :
         \A a \in s.a0 .. s.a1 : f[a] \in at(a)}

WinDrawLine(l) ==
  LET dx == l.x1 - l.x0 + Sign(l.x1 - l.x0)
      dy == l.y1 - l.y0 + Sign(l.y1 - l.y0)
  IN  IF dx = 0 /\ dy = 0 THEN {{<<l.x0, l.y0>>}}
      ELSE IF Abs(dx) >= Abs(dy)
      THEN {{<<x, f[x]>> : x \in DOMAIN f} : f \in Steps(l.x0, l.y0, l.x1, l.y1, dx, dy)}
      ELSE {{<<f[y], y>> : y \in DOMAIN f} : f \in Steps(l.y0, l.x0, l.y1, l.x1, dy, dx)}

-----------------------------------------------------------------------------
(* Strings in UTF-8.                                                        *)

CountUTF8Size(c) ==
  CASE c < 128 -> 1 [] 192 <= c /\ c < 224 -> 2 [] 224 <= c /\ c < 240 -> 3
    [] 240 <= c /\ c < 248 -> 4 [] OTHER -> 0

\* The character that starts at byte i, and its length.
ConvertUTF8To32(u, i) ==
  LET low(k) == u[i + k] % 64
  IN  CASE CountUTF8Size(u[i]) = 1 -> <<u[i], 1>>
        [] CountUTF8Size(u[i]) = 2 -> <<(u[i] % 32) * 64 + low(1), 2>>
        [] CountUTF8Size(u[i]) = 3 -> <<(u[i] % 16) * 4096 + low(1) * 64 + low(2), 3>>
        [] CountUTF8Size(u[i]) = 4 ->
             <<(u[i] % 8) * 262144 + low(1) * 4096 + low(2) * 64 + low(3), 4>>
        [] OTHER -> <<0, 0>>

IsHankaku(c) == c <= 127

\* ASCII comes from the built-in font; of other characters the font file has a
\* glyph, or two question marks stand for it.
QuestionMarks == -1
WriteUnicode(c, hasGlyph) == IF IsHankaku(c) \/ c \in hasGlyph THEN c ELSE QuestionMarks

\* font.cpp WriteString: what is drawn in which column.  NUL ends the string.
RECURSIVE WriteFrom(_, _, _, _)
WriteFrom(u, i, x, hasGlyph) ==
  IF i > Len(u) THEN <<>>
  ELSE LET d == ConvertUTF8To32(u, i)
       IN  <<[col |-> x, shows |-> WriteUnicode(d[1], hasGlyph)]>>
           \o WriteFrom(u, i + d[2], x + (IF IsHankaku(d[1]) THEN 1 ELSE 2), hasGlyph)

\* The encoding, as the standard defines it.
Encode(c) ==
  CASE c < 128 -> <<c>>
    [] 128 <= c /\ c < 2048 -> <<192 + c \div 64, 128 + (c % 64)>>
    [] 2048 <= c /\ c < 65536 -> <<224 + c \div 4096, 128 + ((c \div 64) % 64), 128 + (c % 64)>>
    [] OTHER -> <<240 + c \div 262144, 128 + ((c \div 4096) % 64), 128 + ((c \div 64) % 64), 128 + (c % 64)>>
Bytes(cs) == FoldLeft(LAMBDA u, c : u \o Encode(c), <<>>, cs)

-----------------------------------------------------------------------------
(* The text box of the main task.  A cell is the set of what it shows.      *)

max_chars == (BoxWidth - 8) \div 8 - 1
EmptyBox == [visible |-> FALSE, index |-> 0, cells |-> [i \in 0 .. max_chars |-> {}]]

\* The cursor's rectangle is smaller than a character's and begins above it.
DrawTextCursor(b, visible) ==
  [b EXCEPT !.cells[b.index] = IF visible THEN @ \cup {"cursor"} ELSE @ \ {"cursor"}]

Blink(b) == DrawTextCursor([b EXCEPT !.visible = ~@], ~b.visible)

InputTextWindow(b, c) ==
  LET hidden == DrawTextCursor(b, FALSE)
      erased == [hidden EXCEPT !.index = @ - 1, !.cells[b.index - 1] = @ \cap {"cursor"}]
      written == [hidden EXCEPT !.index = @ + 1, !.cells[b.index] = @ \cup {c}]
  IN  IF c = "bs" /\ b.index > 0 THEN DrawTextCursor(erased, TRUE)
      ELSE IF c \in {"a", "b"} /\ b.index < max_chars THEN DrawTextCursor(written, TRUE)
      ELSE b

-----------------------------------------------------------------------------
(* Calls.                                                                   *)

Coords == 0 .. MaxCoord
Rects == [x : -1 .. 1, y : {0, 2}, w : {0, 2, 3}, h : {1, 3}]
Frame == [p \in (0 .. 2) \X (0 .. 3) |-> p]

\* A block inside the frame that moves up or down, as all callers have it.
Moves == {m \in [x : 0 .. 1, y : 0 .. 3, dx : 0 .. 1, dy : 0 .. 3, w : 1 .. 2, h : 1 .. 3] :
            m.y + m.h <= 4 /\ m.dy + m.h <= 4 /\ m.y # m.dy}

Ops == {"and", "move", "line", "text", "keys"}
CallInputs(op) ==
  CASE op = "and" -> Rects \X Rects
    [] op = "move" -> Moves
    [] op = "line" -> [x0 : Coords, y0 : Coords, x1 : Coords, y1 : Coords]
    [] op = "text" -> UNION {{s} \X SUBSET ToSet(s) : s \in Strings}
    [] op = "keys" -> UNION {[1 .. n -> {"a", "b", "bs", NUL, "timer"}] : n \in 0 .. MaxKeys}

Results(c) ==
  CASE c.op = "and" -> {Intersection(c.in[1], c.in[2])}
    [] c.op = "move" -> {Move(Frame, c.in)}
    [] c.op = "line" -> WinDrawLine(c.in)
    [] c.op = "text" -> {WriteFrom(Bytes(c.in[1]), 1, 0, c.in[2])}
    [] c.op = "keys" -> {FoldLeft(LAMBDA b, k : IF k = "timer" THEN Blink(b) ELSE InputTextWindow(b, k), EmptyBox, c.in)}

Run ==
  /\ call.op # "none" /\ call.out = <<>>
  /\ \E r \in Results(call) : call' = [call EXCEPT !.out = <<r>>]
  /\ UNCHANGED console

ScreenInit ==
  \/ console = InitializeConsole /\ call = NoCall
  \/ /\ console = [InitializeConsole EXCEPT !.window = TRUE]
     /\ \E op \in Ops : \E i \in CallInputs(op) : call = [op |-> op, in |-> i, out |-> <<>>]

ScreenNext ==
  \/ call.op = "none" /\ \E s \in {<<"a">>, <<"b", "\n">>, <<"\n">>} : PutString(s)
  \/ call.op = "none" /\ SetWindow
  \/ Run

-----------------------------------------------------------------------------
(* Properties.                                                              *)

\* Lines of a text, the last one possibly empty.
LinesOf(text) ==
  FoldLeft(LAMBDA ls, c : IF c = "\n" THEN Append(ls, <<>>)
                          ELSE [ls EXCEPT ![Len(ls)] = Append(@, c)], << <<>> >>, text)

\* The console shows the last lines of everything that was printed, each cut
\* at its right edge and nothing drawn over anything else, before and after
\* it gets its window and however it scrolls (PutString, Newline, Refresh).
ConsoleShowsTail ==
  LET ls == LinesOf(console.text)
      first == Larger(0, Len(ls) - Rows)
  IN  \A r \in RowsOf, c \in 0 .. Columns - 1 :
        console.cells[r][c] =
          IF first + r + 1 <= Len(ls) /\ c < Smaller(Len(ls[first + r + 1]), Columns - 1)
          THEN {ls[first + r + 1][c + 1]} ELSE {}

Between(n, a, b) == n \in Smaller(a, b) .. Larger(a, b)

\* The intersection has exactly the common points; a block arrives as it was
\* although source and destination overlap; a line has both its ends, stays
\* in the rectangle they span and has no gap, whatever the rounding; every
\* character of a string is drawn, once, behind the columns of those before
\* it, whatever the lengths of their encodings and the glyphs that are missing;
\* the text box shows what was typed and not erased, and the cursor, which
\* blinks, nowhere but behind it and inside the box.
DrawingExact ==
  call.out # <<>> =>
    CASE call.op = "and" ->
           Points(call.out[1]) = Points(call.in[1]) \cap Points(call.in[2])
      [] call.op = "move" ->
           LET m == call.in
           IN  \A p \in DOMAIN Frame :
                 call.out[1][p] =
                   IF p \in Points([x |-> m.dx, y |-> m.dy, w |-> m.w, h |-> m.h])
                   THEN <<p[1] - m.dx + m.x, p[2] - m.dy + m.y>> ELSE p
      [] call.op = "line" ->
           LET l == call.in
               pixels == call.out[1]
           IN  /\ {<<l.x0, l.y0>>, <<l.x1, l.y1>>} \subseteq pixels
               /\ \A p \in pixels : Between(p[1], l.x0, l.x1) /\ Between(p[2], l.y0, l.y1)
               /\ Cardinality(pixels) = Larger(Abs(l.x1 - l.x0), Abs(l.y1 - l.y0)) + 1
               /\ \A p \in pixels : p = <<l.x1, l.y1>> \/
                    \E q \in pixels :
                      /\ Abs(q[1] - p[1]) <= 1 /\ Abs(q[2] - p[2]) <= 1
                      /\ Abs(q[1] - l.x1) + Abs(q[2] - l.y1) < Abs(p[1] - l.x1) + Abs(p[2] - l.y1)
      [] call.op = "text" ->
           LET s == call.in[1]
               col(i) == FoldLeft(LAMBDA n, c : n + (IF c < 128 THEN 1 ELSE 2), 0, SubSeq(s, 1, i - 1))
           IN  call.out[1] = [i \in 1 .. Len(s) |->
                 [col |-> col(i),
                  shows |-> IF s[i] >= 128 /\ s[i] \notin call.in[2] THEN QuestionMarks ELSE s[i]]]
      [] call.op = "keys" ->
           LET typed == FoldLeft(LAMBDA t, k :
                          IF k = "bs" /\ t # <<>> THEN Front(t)
                          ELSE IF k \in {"a", "b"} /\ Len(t) < max_chars THEN Append(t, k) ELSE t,
                          <<>>, call.in)
               box == call.out[1]
           IN  \A i \in DOMAIN box.cells :
                 /\ box.cells[i] \ {"cursor"} = IF i < Len(typed) THEN {typed[i + 1]} ELSE {}
                 /\ "cursor" \in box.cells[i] => i = Len(typed) /\ 4 + 8 * i + 7 <= BoxWidth - 4

\* Both: what the screen shows is what was printed and drawn.
ScreenExact == ConsoleShowsTail /\ DrawingExact
=============================================================================
