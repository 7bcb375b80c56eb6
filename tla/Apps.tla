-------------------------------- MODULE Apps --------------------------------
(***************************************************************************)
(* The applications under src/apps: viewers (tview, more), filters (sort,   *)
(* grep, cp, readfile, dpage), the calculator rpn,                          *)
(* programs that draw (blocks, paint, eye, cube) and the memory allocation  *)
(* of newlib_support.c.  One program runs; what it reads and the events it  *)
(* gets are chosen freely.  A text is a sequence of characters; the wide    *)
(* character "W" stands for those of three bytes and two columns.           *)
(***************************************************************************)
EXTENDS Screen

CONSTANTS
  Texts,           \* contents of files and pipes
  LineBuf,         \* size of the buffer given to fgets
  Height, Width, Tab, DrawBuf,   \* tview's window, and its buffer for a line
  PageSize,        \* more's page
  Expressions,     \* rpn's input, as trees
  PageBytes, MaxHeap,            \* bytes of a page; bound: pages of the heap
  kNumBlocksX, kNumBlocksY, kBlockWidth, kBlockHeight, kBarWidth, kBarHeight,
  kBallRadius, kGapWidth, kGapHeight, kGapBar, kBarFloat,
  Speed, BallOffset,             \* blocks: pixels in a frame, start of the ball
  Grid                           \* cube: bound, coordinates of corners

VARIABLE app       \* the running program and its variables

Least(S) == CHOOSE n \in S : \A k \in S : n <= k
Greatest(S) == CHOOSE n \in S : \A k \in S : k <= n

-----------------------------------------------------------------------------
(* Filters.                                                                 *)

\* The strings a loop of fgets returns: a line, or as much as fits.
fgets(text) ==
  LET full(l) == Last(l) = "\n" \/ Len(l) = LineBuf - 1
      put(ls, c) == IF ls = <<>> \/ full(Last(ls)) THEN Append(ls, <<c>>)
                    ELSE [ls EXCEPT ![Len(ls)] = Append(@, c)]
  IN  FoldLeft(put, <<>>, text)

Code == [c \in {"\t", "\n", "a", "b", "W"} |->
           CASE c = "\t" -> 9 [] c = "\n" -> 10 [] c = "a" -> 97 [] c = "b" -> 98
                [] OTHER -> -20]      \* char is signed

comp(a, b) ==
  LET diff == {i \in DOMAIN a \cap DOMAIN b : a[i] # b[i]}
  IN  IF diff = {} THEN Len(a) < Len(b) ELSE Code[a[Least(diff)]] < Code[b[Least(diff)]]

\* std::sort leaves equivalent elements in any order.
Sorted(ls) ==
  {[i \in DOMAIN ls |-> ls[p[i]]] :
     p \in {q \in [DOMAIN ls -> DOMAIN ls] :
              /\ ToSet(q) = DOMAIN ls
              /\ \A i, j \in DOMAIN ls : i < j => ~comp(ls[q[j]], ls[q[i]])}}

SortMain(text) == {[out |-> FlattenSeq(ls), code |-> 0] : ls \in Sorted(fgets(text))}

\* The pattern is the character "a".
GrepMain(text) == {[out |-> FlattenSeq(SelectSeq(fgets(text), LAMBDA l : Contains(l, "a"))), code |-> 0]}

\* Three lines of the file, or an error after those it has.
ReadfileMain(text) ==
  LET ls == fgets(text)
      n == Least({3, Len(ls)})
  IN  {[out |-> FlattenSeq(SubSeq(ls, 1, n)), code |-> IF n = 3 THEN 0 ELSE 1]}

\* What a loop of fread returns: whole buffers, and at last what is left.
Buffers(text) ==
  [i \in 1 .. (Len(text) + LineBuf - 1) \div LineBuf |->
     SubSeq(text, (i - 1) * LineBuf + 1, Least({i * LineBuf, Len(text)}))]

\* cp copies buffers until none is left; a write can be cut short.
CpMain(text) ==
  {[out |-> FlattenSeq(Buffers(text)), code |-> 0]} \cup
  {[out |-> FlattenSeq(SubSeq(Buffers(text), 1, i)), code |-> 1] : i \in 0 .. Len(Buffers(text)) - 1}

\* dpage reads the file behind what it has and makes room for a buffer more,
\* which realloc may refuse; then it counts the character, here "a".
DpageMain(text) ==
  LET Read(s, b) == [buf |-> SubSeq(s.buf, 1, s.total) \o b, total |-> s.total + Len(b)]
      s == FoldLeft(Read, [buf |-> <<>>, total |-> 0], Buffers(text))
      num == Cardinality({i \in 1 .. s.total : s.buf[i] = "a"})
  IN  {[out |-> <<s.total, num>>, code |-> 0]} \cup
      (IF text = <<>> THEN {} ELSE {[out |-> <<>>, code |-> 1]})

\* rpn: numbers ("#") are pushed, an operator replaces the two on top.
Pop(s) == [v |-> s.stack[s.ptr], s |-> [s EXCEPT !.ptr = @ - 1]]
Push(s, v) == [ptr |-> s.ptr + 1, stack |-> [s.stack EXCEPT ![s.ptr + 1] = v]]

\* Mutant: the operands of "-" are exchanged.
RpnArgSwapped(s, arg) ==
  IF arg[1] = "#" THEN Push(s, arg[2])
  ELSE LET b == Pop(s)
           a == Pop(b.s)
       IN  Push(a.s, IF arg[1] = "+" THEN a.v + b.v ELSE b.v - a.v)

RpnArg(s, arg) ==
  IF arg[1] = "#" THEN Push(s, arg[2])
  ELSE LET b == Pop(s)
           a == Pop(b.s)
       IN  Push(a.s, IF arg[1] = "+" THEN a.v + b.v ELSE a.v - b.v)

RpnMain(args) ==
  LET s == FoldLeft(RpnArg, [ptr |-> -1, stack |-> [i \in 0 .. Len(args) |-> 0]], args)
      result == IF s.ptr >= 0 THEN Pop(s).v ELSE 0
  IN  {[out |-> <<result>>, code |-> result]}

-----------------------------------------------------------------------------
(* tview.                                                                   *)

FindLines(text) ==
  LET ls == LinesOf(text)
  IN  IF Last(ls) = <<>> THEN Front(ls) ELSE ls

\* The characters of the line that go to the window, tabs as spaces.  x counts
\* columns, n the bytes in the buffer; "stop" is the loop's break.
CopyChar(s, c) ==
  LET spaces == Tab - (s.x % Tab)
      x == s.x + (IF c = "W" THEN 2 ELSE 1)
      size == IF c = "W" THEN 3 ELSE 1
  IN  CASE s.stop -> s
        [] ~s.stop /\ c = "\t" ->
             IF s.n + spaces >= DrawBuf THEN [s EXCEPT !.stop = TRUE]
             ELSE [s EXCEPT !.x = @ + spaces, !.n = @ + spaces,
                            !.out = @ \o [i \in 1 .. spaces |-> " "]]
        [] ~s.stop /\ c # "\t" ->
             IF x >= Width \/ s.n + size >= DrawBuf THEN [s EXCEPT !.stop = TRUE]
             ELSE [s EXCEPT !.x = x, !.n = @ + size, !.out = Append(@, c)]

CopyUTF8String(line) ==
  FoldLeft(CopyChar, [x |-> 0, n |-> 0, stop |-> FALSE, out |-> <<>>], line)

\* The rows of the window that hold a line, and what is written there.
DrawLines(lines, start) ==
  [i \in {j \in 0 .. Height - 1 : start + j \in 0 .. Len(lines) - 1} |->
     CopyUTF8String(lines[start + i + 1])]

Diffs == [k \in {"PageUp", "PageDown", "DownArrow", "UpArrow"} |->
            CASE k = "PageUp" -> -(Height \div 2) [] k = "PageDown" -> Height \div 2
              [] k = "DownArrow" -> 1 [] OTHER -> -1]

UpdateStartLine(start, n, diff) ==
  IF (diff < 0 /\ start = 0) \/ (diff > 0 /\ start = n - Height) THEN start
  ELSE IF start + diff < 0 THEN 0
  ELSE IF start + diff > n - Height THEN n - Height ELSE start + diff

\* A key; releases and other keys change nothing, and neither does any key
\* while the text is shorter than the window.
TviewKey ==
  /\ app.prog = "tview" /\ app.at = "run"
  /\ \E k \in DOMAIN Diffs :
       app' = [app EXCEPT !.start = IF Len(app.lines) < Height THEN @
                                    ELSE UpdateStartLine(@, Len(app.lines), Diffs[k])]

-----------------------------------------------------------------------------
(* more.                                                                    *)

\* The next line, and before each page but the first a prompt and WaitKey.
MorePrint ==
  /\ app.prog = "more" /\ app.at = "run" /\ app.i < Len(app.lines)
  /\ IF app.i > 0 /\ app.i % PageSize = 0 /\ ~app.key
     THEN app' = [app EXCEPT !.at = "wait", !.page = 0]
     ELSE app' = [app EXCEPT !.out = @ \o app.lines[app.i + 1], !.i = @ + 1,
                             !.page = @ + 1, !.key = FALSE]

MoreKey ==
  /\ app.prog = "more" /\ app.at = "wait"
  /\ app' = [app EXCEPT !.at = "run", !.key = TRUE]

\* The quit event ends WaitEvent and WaitKey, and both programs.
Quit ==
  /\ app.prog \in {"tview", "more"} /\ app.at = IF app.prog = "more" THEN "wait" ELSE "run"
  /\ app' = [app EXCEPT !.at = "end"]

-----------------------------------------------------------------------------
(* blocks.                                                                  *)

kCanvasWidth == kNumBlocksX * kBlockWidth + 2 * kGapWidth
kCanvasHeight == kGapHeight + kNumBlocksY * kBlockHeight + kGapBar + kBarHeight + kBarFloat
kBarY == kCanvasHeight - kBarFloat - kBarHeight
kBallX == kCanvasWidth \div 2 - kBallRadius - BallOffset
kBallY == kCanvasHeight - kBarFloat - kBarHeight - kBallRadius - BallOffset

LimitRange(x, min, max) == IF x < min THEN min ELSE IF x > max THEN max ELSE x

\* The direction is a pair of signs: 180 - dir turns the first, -dir the
\* second, and the ball flies at 45 degrees.  <<0, 0>> is the ball at rest.
BlocksInit ==
  [prog |-> "blocks", bar |-> kCanvasWidth \div 2 - kBarWidth \div 2, x |-> kBallX, y |-> kBallY,
   dir |-> <<0, 0>>, dx |-> 0, dy |-> 0, move |-> 0,
   blocks |-> (0 .. kNumBlocksX - 1) \X (0 .. kNumBlocksY - 1)]

BlocksKey(key) ==
  /\ app.prog = "blocks"
  /\ LET rest == app.dir = <<0, 0>>
         pressed ==
           CASE key = "RightArrow" -> [app EXCEPT !.move = 1]
             [] key = "LeftArrow" -> [app EXCEPT !.move = -1]
             [] key = "SpaceBar" ->
                  IF rest /\ app.y < 0 THEN [app EXCEPT !.x = kBallX, !.y = kBallY]
                  ELSE IF rest THEN [app EXCEPT !.dir = <<1, 1>>] ELSE app
             [] OTHER -> app
         edge == \/ app.bar = 0 /\ pressed.move < 0
                 \/ app.bar + kBarWidth = kCanvasWidth - 1 /\ pressed.move > 0
     IN  app' = IF key = "release" THEN [app EXCEPT !.move = 0]
                ELSE IF edge THEN [pressed EXCEPT !.move = 0] ELSE pressed

\* What a hit block does to the ball that comes from (x, y) to (x_, y_).
HitBlock(x, y, x_, y_, b) ==
  LET left == kGapWidth + b[1] * kBlockWidth
      top == kGapHeight + b[2] * kBlockHeight
      right == left + kBlockWidth
      bottom == top + kBlockHeight
      turn(a, a_, low, high) == (a < low /\ low <= a_) \/ (high < a /\ a_ <= high)
  IN  <<IF turn(x, x_, left, right) THEN -1 ELSE 1, IF turn(y, y_, top, bottom) THEN -1 ELSE 1>>

\* The timer's event: the bar moves, and if the ball flies it is turned by the
\* walls, the ceiling, the bar and a block, or lost.
BlocksFrame ==
  /\ app.prog = "blocks"
  /\ LET bar == LimitRange(app.bar + app.move * Speed, 0, kCanvasWidth - kBarWidth - 1)
         x_ == app.x + app.dx
         y_ == app.y + app.dy
         wall == \/ app.dx < 0 /\ x_ < kBallRadius
                 \/ app.dx > 0 /\ kCanvasWidth - kBallRadius <= x_
         ceiling == app.dy < 0 /\ y_ < kBallRadius
         onBar == bar <= x_ /\ x_ < bar + kBarWidth /\ app.dy > 0 /\ kBarY - kBallRadius <= y_
         fall == ~ceiling /\ ~onBar /\ app.dy > 0 /\ kCanvasHeight - kBallRadius <= y_
         b == <<(x_ - kGapWidth) \div kBlockWidth, (y_ - kGapHeight) \div kBlockHeight>>
         hit == IF b \in app.blocks THEN HitBlock(app.x, app.y, x_, y_, b) ELSE <<1, 1>>
         sx == app.dir[1] * (IF wall THEN -1 ELSE 1) * hit[1]
         sy == app.dir[2] * (IF ceiling \/ onBar THEN -1 ELSE 1) * hit[2]
     IN  app' = IF app.dir = <<0, 0>> THEN [app EXCEPT !.bar = bar]
                ELSE IF fall THEN [app EXCEPT !.bar = bar, !.dir = <<0, 0>>, !.y = -1]
                ELSE [app EXCEPT !.bar = bar, !.dir = <<sx, sy>>, !.blocks = @ \ {b},
                                 !.dx = sx * Speed, !.dy = sy * Speed,
                                 !.x = @ + sx * Speed, !.y = @ + sy * Speed]

-----------------------------------------------------------------------------
(* paint, eye, cube.                                                        *)

\* bounds: the canvas of paint, scaled down, and where the mouse is: on it, on
\* the frame of the window, outside of the window
kWidth == 5
kHeight == 4
IsInside(p) == 4 <= p[1] /\ p[1] < 4 + kWidth /\ 24 <= p[2] /\ p[2] < 24 + kHeight
MousePoints == ({-1, 0} \cup 4 .. 4 + kWidth) \X ({0} \cup 24 .. 24 + kHeight)

\* The mouse moves, from prev to p in the window's coordinates.
PaintMove ==
  /\ app.prog = "paint"
  /\ \E prev, p \in MousePoints :
       IF app.press /\ IsInside(prev) /\ IsInside(p)
       THEN \E line \in WinDrawLine([x0 |-> prev[1], y0 |-> prev[2], x1 |-> p[1], y1 |-> p[2]]) :
              app' = [app EXCEPT !.stroke = line, !.pixel = {}]
       ELSE app' = [app EXCEPT !.stroke = {}, !.pixel = {}]

\* The left button goes down or up at p, which is drawn wherever it is.
PaintButton ==
  /\ app.prog = "paint"
  /\ \E press \in BOOLEAN, p \in MousePoints :
       app' = [app EXCEPT !.press = press, !.stroke = {}, !.pixel = {p}]

\* eye.  The component along one axis of a vector cut to length r; double
\* arithmetic may lose one when it is truncated.
kCanvasSize == 100
kEyeSize == 10
EyeOffset(c, o) ==
  LET r == kCanvasSize \div 2 - kEyeSize \div 2
      d2 == c * c + o * o
      k == IF d2 <= r * r THEN Abs(c)
           ELSE Greatest({n \in 0 .. r : n * n * d2 <= c * c * r * r})
  IN  {Sign(c) * k, Sign(c) * (IF k > 0 THEN k - 1 ELSE 0)}

DrawEye(mouse) ==
  LET cx == mouse[1] - kCanvasSize \div 2 - 4
      cy == mouse[2] - kCanvasSize \div 2 - 24
  IN  {[x |-> ox + kCanvasSize \div 2 + 4 - kEyeSize \div 2,
        y |-> oy + kCanvasSize \div 2 + 24 - kEyeSize \div 2, w |-> kEyeSize, h |-> kEyeSize] :
         ox \in EyeOffset(cx, cy), oy \in EyeOffset(cy, cx)}

\* cube.  A surface with the corners q is drawn row by row between its edges
\* that go up and those that go down; a row no such edge has set is undefined.
DrawSurface(q) ==
  LET From(i) == q[((i + 2) % 4) + 1]
      Low(i) == IF From(i)[2] < q[i][2] THEN From(i) ELSE q[i]
      High(i) == IF From(i)[2] < q[i][2] THEN q[i] ELSE From(i)
      X(i, y) == LET dx == High(i)[1] - Low(i)[1]
                 IN  Roundish(dx, High(i)[2] - Low(i)[2], y - Low(i)[2], Low(i)[1], dx >= 0)
      y2x(S, y) == LET edges == {i \in S : Low(i)[2] <= y /\ y <= High(i)[2]}
                   IN  IF edges = {} THEN {} ELSE X(Greatest(edges), y)
      Up == {i \in 1 .. 4 : From(i)[2] < q[i][2]}
      Down == {i \in 1 .. 4 : From(i)[2] > q[i][2]}
      ys == {q[i][2] : i \in 1 .. 4}
  IN  [y \in Least(ys) .. Greatest(ys) |-> <<y2x(Up, y), y2x(Down, y)>>]

-----------------------------------------------------------------------------
(* newlib_support.c: sbrk, on top of the pages DemandPages appends.         *)

\* Mutant: dpage_end is one page too far.
sbrkKeepsEnd(incr) ==
  /\ app.prog = "sbrk" /\ app.dp_end < MaxHeap * PageBytes
  /\ LET more == app.dpage_end = -1 \/ app.dpage_end < app.program_break + incr
         pages == (incr + PageBytes - 1) \div PageBytes
         break == IF more THEN app.dp_end ELSE app.program_break
     IN  app' = [app EXCEPT !.dp_end = IF more THEN @ + pages * PageBytes ELSE @,
                            !.dpage_end = IF more THEN app.dp_end + (pages + 1) * PageBytes ELSE @,
                            !.program_break = break + incr,
                            !.blocks = @ \cup {<<break, incr>>}]

sbrk(incr) ==
  /\ app.prog = "sbrk" /\ app.dp_end < MaxHeap * PageBytes
  /\ LET more == app.dpage_end = -1 \/ app.dpage_end < app.program_break + incr
         pages == (incr + PageBytes - 1) \div PageBytes
         break == IF more THEN app.dp_end ELSE app.program_break
     IN  app' = [app EXCEPT !.dp_end = IF more THEN @ + pages * PageBytes ELSE @,
                            !.dpage_end = IF more THEN app.dp_end + pages * PageBytes ELSE @,
                            !.program_break = break + incr,
                            !.blocks = @ \cup {<<break, incr>>}]

\* The program calls SyscallDemandPages itself too.
DemandPages ==
  /\ app.prog = "sbrk" /\ app.dp_end < MaxHeap * PageBytes
  /\ app' = [app EXCEPT !.dp_end = @ + PageBytes, !.own = @ \cup {<<app.dp_end, PageBytes>>}]

-----------------------------------------------------------------------------

RECURSIVE Postfix(_)
Postfix(e) ==
  IF Len(e) = 1 THEN << <<"#", e[1]>> >> ELSE Postfix(e[2]) \o Postfix(e[3]) \o << <<e[1]>> >>

Mains == {"sort", "grep", "readfile", "cp", "dpage", "rpn", "eye", "cube"}
Inputs(prog) ==
  CASE prog = "rpn" -> Expressions
    [] prog = "eye" -> {-60, 4, 40, 54, 77, 104, 300} \X {-60, 24, 74, 90, 130, 300}
    [] prog = "cube" -> [1 .. 4 -> (0 .. 2) \X (0 .. Grid)]
    [] OTHER -> Texts

Main(prog, in) ==
  CASE prog = "sort" -> SortMain(in) [] prog = "grep" -> GrepMain(in)
    [] prog = "readfile" -> ReadfileMain(in) [] prog = "cp" -> CpMain(in)
    [] prog = "dpage" -> DpageMain(in)
    [] prog = "rpn" -> RpnMain(Postfix(in)) [] prog = "eye" -> DrawEye(in)
    [] prog = "cube" -> {DrawSurface(in)}

AppsInit ==
  \/ \E p \in Mains : \E i \in Inputs(p) : app = [prog |-> p, in |-> i, out |-> <<>>]
  \/ \E t \in Texts : app = [prog |-> "tview", at |-> "run", lines |-> FindLines(t), start |-> 0]
  \/ \E t \in Texts : app = [prog |-> "more", at |-> "run", lines |-> fgets(t), i |-> 0,
                             page |-> 0, key |-> FALSE, out |-> <<>>]
  \/ app = BlocksInit
  \/ app = [prog |-> "paint", press |-> FALSE, stroke |-> {}, pixel |-> {}]
  \/ app = [prog |-> "sbrk", dp_end |-> 0, dpage_end |-> -1, program_break |-> 0,
            blocks |-> {}, own |-> {}]

RunMain ==
  /\ app.prog \in Mains /\ app.out = <<>>
  /\ \E r \in Main(app.prog, app.in) : app' = [app EXCEPT !.out = <<r>>]

AppsNext ==
  \/ RunMain \/ TviewKey \/ MorePrint \/ MoreKey \/ Quit
  \/ \E k \in {"RightArrow", "LeftArrow", "SpaceBar", "release", "other"} : BlocksKey(k)
  \/ BlocksFrame \/ PaintMove \/ PaintButton
  \/ \E n \in {0, 1, PageBytes, PageBytes + 1} : sbrk(n)
  \/ DemandPages

-----------------------------------------------------------------------------
(* Properties.                                                              *)

RECURSIVE Value(_)
Value(e) ==
  IF Len(e) = 1 THEN e[1]
  ELSE IF e[1] = "+" THEN Value(e[2]) + Value(e[3]) ELSE Value(e[2]) - Value(e[3])

\* Lines that fgets can return whole.
Wellformed(text) ==
  /\ text = <<>> \/ Last(text) = "\n"
  /\ \A i \in 1 .. Len(LinesOf(text)) : Len(LinesOf(text)[i]) < LineBuf - 1

\* sort prints every line once and in order, grep the lines that match and no
\* others, readfile the first three, cp the whole file unless it reports an
\* error, dpage the length and the number of characters, rpn the value of the
\* expression: for all texts, or, where the buffer matters, all texts of whole
\* lines that fit in it.
FiltersExact ==
  app.prog \in Mains \ {"eye", "cube"} /\ app.out # <<>> =>
    LET r == app.out[1]
        all == FindLines(app.in)
        out == FindLines(r.out)
    IN  CASE app.prog = "rpn" -> r.out = <<Value(app.in)>>
          [] app.prog = "cp" -> IF r.code = 0 THEN r.out = app.in ELSE IsPrefix(r.out, app.in)
          [] app.prog = "dpage" -> r.code = 0 =>
               r.out = <<Len(app.in), Len(SelectSeq(app.in, LAMBDA c : c = "a"))>>
          [] app.prog = "sort" /\ Wellformed(app.in) ->
               /\ \A l \in ToSet(all) \cup ToSet(out) :
                    Cardinality({i \in DOMAIN all : all[i] = l}) = Cardinality({i \in DOMAIN out : out[i] = l})
               /\ \A i \in 2 .. Len(out) : LET a == out[i - 1] b == out[i]
                    IN  a = b \/ IsStrictPrefix(a, b) \/ \E k \in DOMAIN a \cap DOMAIN b :
                          Code[a[k]] < Code[b[k]] /\ \A j \in 1 .. k - 1 : a[j] = b[j]
          [] app.prog = "grep" /\ Wellformed(app.in) ->
               out = SelectSeq(all, LAMBDA l : "a" \in ToSet(l))
          [] app.prog = "readfile" /\ Wellformed(app.in) ->
               (r.code = 0) = (Len(all) >= 3) /\ out = SubSeq(all, 1, Smaller(3, Len(all)))
          [] OTHER -> TRUE

\* Columns of the characters tview writes in a row, and their widths.
Columns_(out) ==
  [i \in DOMAIN out |-> FoldLeft(LAMBDA n, c : n + (IF c = "W" THEN 2 ELSE 1), 0, SubSeq(out, 1, i))]

Disjoint(a, b) == a[1] + a[2] <= b[1] \/ b[1] + b[2] <= a[1]

\* Programs stay within what is theirs: tview's window is full whenever the
\* text has lines enough and nothing visible is cut by its edge, more never
\* shows more than a page at once and no line twice, the ball stays in the
\* canvas and the bar too, every pixel of a stroke of paint and every eye in the
\* client area, the rows of a surface between its corners, and what sbrk returns
\* in pages that nobody else has been given.  The pixel paint draws where the
\* button goes down or up is not among them: paint does not test where that is.
StaysInside ==
  CASE app.prog = "tview" ->
         LET drawn == DrawLines(app.lines, app.start)
         IN  /\ Cardinality(DOMAIN drawn) = Smaller(Height, Len(app.lines))
             /\ \A i \in DOMAIN drawn :
                  /\ drawn[i].n < DrawBuf
                  /\ \A k \in DOMAIN drawn[i].out :
                       drawn[i].out[k] = " " \/ Columns_(drawn[i].out)[k] < Width
    [] app.prog = "more" ->
         app.page <= PageSize /\ app.out = FlattenSeq(SubSeq(app.lines, 1, app.i))
    [] app.prog = "blocks" ->
         /\ app.bar >= 0 /\ app.bar + kBarWidth < kCanvasWidth
         /\ app.y >= 0 => /\ kBallRadius <= app.x /\ app.x <= kCanvasWidth - kBallRadius
                          /\ kBallRadius <= app.y /\ app.y <= kCanvasHeight - kBallRadius
    [] app.prog = "paint" -> \A p \in app.stroke : IsInside(p)
    [] app.prog = "eye" -> \A i \in DOMAIN app.out :
         LET r == app.out[i]
         IN  4 <= r.x /\ r.x + r.w <= 4 + kCanvasSize /\ 24 <= r.y /\ r.y + r.h <= 24 + kCanvasSize
    [] app.prog = "cube" -> \A i \in DOMAIN app.out :
         LET rows == app.out[i]
             xs == {app.in[k][1] : k \in 1 .. 4}
         IN  Cardinality(DOMAIN rows) > 1 =>
               \A y \in DOMAIN rows, s \in 1 .. 2 :
                 rows[y][s] # {} /\ rows[y][s] \subseteq Least(xs) .. Greatest(xs)
    [] app.prog = "sbrk" ->
         LET given == {b \in app.blocks : b[2] > 0} \cup app.own
         IN  /\ \A b \in given : b[1] + b[2] <= app.dp_end
             /\ \A a, b \in given : a = b \/ Disjoint(a, b)
    [] OTHER -> TRUE
=============================================================================
