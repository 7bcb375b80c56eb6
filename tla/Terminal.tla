------------------------------ MODULE Terminal ------------------------------
(***************************************************************************)
(* Terminals of kernel/terminal.cpp: the line editor with its history, the *)
(* text on the window, the command line (redirection, "|", noterm, the     *)
(* built-in commands, applications), and the routing of keys by            *)
(* layer_task_map.  Terminal W has a window; the right side of a "|" and   *)
(* the command of noterm run in terminals without one, which inherit W's   *)
(* descriptors and so print on W's window from another task.               *)
(*                                                                         *)
(* A character is a symbol; a word ("echo", "dir") is one symbol wide.     *)
(* What a task has still to do in ExecuteLine is a sequence of operations  *)
(* (ops): the timer may switch tasks between any two, and between the two  *)
(* halves of Print(char32_t), which takes no lock.  The bytes of a file    *)
(* are Fat's subject and the chunks of a pipe Pipe's: here a file is its   *)
(* name and a message of a pipe holds one symbol.                          *)
(***************************************************************************)
EXTENDS Integers, FiniteSets, SequencesExt, TLC

CONSTANTS
  kRows, kColumns, kLineMax,
  HistorySize,  \* cmd_history_.resize(8)
  Lines,        \* the lines the user may type
  Dirs,         \* directories of the volume
  Apps,         \* names FindCommand finds
  AppCodes,     \* values an application returns
  FileText,     \* what cat finds in a file
  GarbageIds,   \* what a layer_id_ that was never set may hold
  MaxTasks,     \* bound: terminals
  MaxQueue,     \* bound: messages queued when a key is pressed
  MaxLines,     \* bound: lines typed
  MaxEdits      \* bound: keys that edit or recall a line, or are typed ahead

ASSUME TerminalAssumption ==
  /\ kRows \in Nat \ {0, 1} /\ kColumns \in Nat \ {0, 1} /\ kLineMax \in Nat
  /\ \A l \in Lines : Len(l) < kLineMax
  /\ MaxTasks \in Nat \ {0} /\ HistorySize \in Nat \ {0}
  /\ FileText \in Seq(ToSet(FileText))

VARIABLES
  term,            \* Terminal objects by task: cursor_, linebuf_, cmd_history_, files_ ...
  exec,            \* per task what is left of ExecuteLine, and its locals
  queue,           \* Task::msgs_ of each task
  screen,          \* the characters on W's window
  layer_task_map,
  files,           \* files that exist
  typed,           \* lines and edits typed so far (MaxLines, MaxEdits)
  column,          \* where the last prompt was printed (history)
  disturbed        \* two tasks printed at once, or one over the prompt (history)

vars == <<term, exec, queue, screen, layer_task_map, files, typed, column, disturbed>>

W == 1
WLayer == 1
Tasks == 1 .. MaxTasks
Wide == {"wide"}            \* ~IsHankaku: two columns
Blank == " "
NUL == "NUL"
Rows == 0 .. kRows - 1
Columns == 0 .. kColumns - 1

Term(t) == <<"term", t>>    \* TerminalFileDescriptor, PipeDescriptor, fat::FileDescriptor
PipeTo(t) == <<"pipe", t>>
File == <<"file", 0>>

Op(op, n, s) == [op |-> op, n |-> n, s |-> s]
Idle == [ops |-> <<>>, code |-> 0, sub |-> 0, stdout |-> File, acc |-> <<>>,
         eof |-> FALSE]
At(t) == exec[t].ops[1]
Busy(t, op) == exec[t].ops # <<>> /\ At(t).op = op
\* the task goes on with these operations, then with what it had left
Goes(t, ops) == [exec EXCEPT ![t].ops = ops \o Tail(@)]

NewTerminal(show, fds, layer) ==
  [show |-> show, x |-> 0, y |-> 0, linebuf |-> <<>>, history |-> [i \in 1 .. HistorySize |-> <<>>],
   index |-> 0, files |-> fds, last |-> 0, layer |-> layer]

\* Print(s) on terminal t, which has a window: without one it does nothing
Chars(t, s) == [i \in DOMAIN s |-> Op("chr", t, <<s[i]>>)]
Err(word) == <<Op("put", 3, <<word, "\n">>)>>

Init ==
  /\ term = [t \in {W} |-> [NewTerminal(TRUE, [i \in 1 .. 3 |-> Term(W)], WLayer) EXCEPT !.x = 1]]
  /\ exec = [t \in {W} |-> Idle]
  /\ queue = [t \in {W} |-> <<>>]
  /\ screen = [y \in Rows |-> [x \in Columns |-> IF x = 0 /\ y = 0 THEN ">" ELSE Blank]]
  /\ layer_task_map = [l \in {WLayer} \cup GarbageIds |-> IF l = WLayer THEN W ELSE 0]
  /\ files = {<<"file">>}
  /\ typed = [lines |-> 0, edits |-> 0]
  /\ column = 0
  /\ disturbed = FALSE

AtPrompt(t) == t \in DOMAIN term /\ exec[t].ops = <<>>

-----------------------------------------------------------------------------
(* The window: Scroll1, Print(char32_t). *)

Scroll1(s) == [y \in Rows |-> IF y = kRows - 1 THEN [x \in Columns |-> Blank] ELSE s[y + 1]]

\* the cursor after a newline, and whether the text scrolls
Newline(c) ==
  [x |-> 0, y |-> IF c.y < kRows - 1 THEN c.y + 1 ELSE c.y, scroll |-> c.y = kRows - 1]

MoveTo(t, c) ==
  /\ term' = [term EXCEPT ![t].x = c.x, ![t].y = c.y]
  /\ screen' = IF c.scroll THEN Scroll1(screen) ELSE screen

\* Mutant of NeedsNewline: a wide character is treated like a narrow one.
NeedsNewlineNarrow(x, c) == x = kColumns

\* does Print(c) break the line at column x?
NeedsNewline(x, c) == IF c \in Wide THEN x >= kColumns - 1 ELSE x = kColumns

\* another task prints on the terminal, or its line is being edited
Intrudes(t, on) ==
  \/ \E u \in DOMAIN term \ {t} : Busy(u, "half") /\ At(u).n = on
  \/ AtPrompt(on)

\* Print(c), up to the test of cursor_.x ...
PrintBegin(t) ==
  /\ Busy(t, "chr")
  /\ LET on == At(t).n   c == At(t).s[1]   cursor == term[on]
     IN  /\ \/ /\ c = "\n"
               /\ MoveTo(on, Newline(cursor))
               /\ exec' = Goes(t, <<>>)
               /\ disturbed' = (disturbed \/ Intrudes(t, on))
            \/ /\ c # "\n"
               /\ IF NeedsNewline(cursor.x, c) THEN MoveTo(on, Newline(cursor))
                                               ELSE UNCHANGED <<term, screen>>
               /\ exec' = Goes(t, <<Op("half", on, <<c>>)>>)
               /\ disturbed' = (disturbed \/ Intrudes(t, on))
         /\ column' = IF c # ">" \/ t # W \/ on # W THEN column
                      ELSE IF NeedsNewline(cursor.x, c) THEN 0 ELSE cursor.x
  /\ UNCHANGED <<queue, layer_task_map, files, typed>>

\* ... and WriteUnicode with the step of the cursor.
PrintEnd(t) ==
  /\ Busy(t, "half")
  /\ LET on == At(t).n   c == At(t).s[1]   cursor == term[on]
     IN  /\ screen' = [screen EXCEPT ![cursor.y] =
              [x \in Columns |-> IF x = cursor.x THEN c
                                 ELSE IF x = cursor.x + 1 /\ c \in Wide THEN Blank ELSE @[x]]]
         /\ term' = [term EXCEPT ![on].x = @ + IF c \in Wide THEN 2 ELSE 1]
         /\ disturbed' = (disturbed \/ Intrudes(t, on))
  /\ exec' = Goes(t, <<>>)
  /\ UNCHANGED <<queue, layer_task_map, files, typed, column>>

-----------------------------------------------------------------------------
(* Messages.  The main task sends a key to the task of the active layer.   *)

Post(t, msg) == IF t \in DOMAIN queue THEN [queue EXCEPT ![t] = Append(@, msg)] ELSE queue
Key(c) == [type |-> "kKeyPush", c |-> c]
PipeMsg(s) == [type |-> "kPipe", c |-> s]

\* what the user has typed of a line, keys still queued included
Pending == LET keys == SelectSeq(queue[W], LAMBDA m : m.type = "kKeyPush")
           IN  term[W].linebuf \o [i \in DOMAIN keys |-> keys[i].c]

\* Bounds: at the prompt the user waits for a command in the background to
\* end, and types no more once outputs are mixed (what the window shows is
\* claimed only up to there).
KeyPush(c) ==
  /\ ~disturbed
  /\ AtPrompt(W) => \A t \in DOMAIN term \ {W} : Busy(t, "done")
  /\ \A t \in DOMAIN queue : Len(queue[t]) < MaxQueue
  /\ \/ /\ \E l \in Lines : IsPrefix(Append(Pending, c), l)
        /\ \/ AtPrompt(W) /\ UNCHANGED typed
           \/ ~AtPrompt(W) /\ typed.edits < MaxEdits /\ typed' = [typed EXCEPT !.edits = @ + 1]
     \/ /\ c = "\n" /\ Pending \in Lines \cup {<<>>} \cup ToSet(term[W].history)
        /\ typed.lines < MaxLines /\ typed' = [typed EXCEPT !.lines = @ + 1]
     \/ /\ c \in {"BS", "up", "down", "^D"} /\ queue[W] = <<>>
        /\ typed.edits < MaxEdits /\ typed' = [typed EXCEPT !.edits = @ + 1]
  /\ queue' = Post(layer_task_map[WLayer], Key(c))
  /\ UNCHANGED <<term, exec, screen, layer_task_map, files, column, disturbed>>

-----------------------------------------------------------------------------
(* The line editor: InputKey, HistoryUpDown.  All of them have the         *)
(* terminal and the row of its cursor as argument and result.              *)

\* Mutant of Backspace: the line keeps the character.
BackspaceKeepsLine(T, row) ==
  IF T.x > 1
  THEN [t |-> [T EXCEPT !.x = @ - 1], row |-> [row EXCEPT ![T.x - 1] = Blank]]
  ELSE [t |-> T, row |-> row]

Backspace(T, row) ==
  IF T.x > 1
  THEN [t   |-> [T EXCEPT !.x = @ - 1,
                          !.linebuf = IF @ # <<>> THEN Front(@) ELSE @],
        row |-> IF T.x - 1 \in Columns THEN [row EXCEPT ![T.x - 1] = Blank] ELSE row]
  ELSE [t |-> T, row |-> row]

TypeChar(T, row, c) ==
  IF T.x < kColumns - 1 /\ Len(T.linebuf) < kLineMax - 1
  THEN [t   |-> [T EXCEPT !.x = @ + 1, !.linebuf = Append(@, c)],
        row |-> [row EXCEPT ![T.x] = c]]
  ELSE [t |-> T, row |-> row]

\* index 0: no line is recalled
HistoryUpDown(T, row, direction) ==
  LET i == CASE direction = "down" /\ T.index > 0 -> T.index - 1
             [] direction = "up" /\ T.index < HistorySize -> T.index + 1
             [] OTHER -> T.index
      line == IF i > 0 THEN T.history[i] ELSE <<>>
  IN  [t   |-> [T EXCEPT !.index = i, !.linebuf = line, !.x = Len(line) + 1],
       row |-> [x \in Columns |-> IF x = 0 THEN row[0]
                                  ELSE IF x <= Len(line) THEN line[x] ELSE Blank]]

\* A key is the next message of the loop of TaskTerminal.
KeyReceived == AtPrompt(W) /\ queue[W] # <<>> /\ Head(queue[W]).type = "kKeyPush"

\* A key other than Enter at the prompt.
InputKey ==
  /\ KeyReceived
  /\ LET c == Head(queue[W]).c
         T == term[W]
         row == screen[T.y]
         after == CASE c = "BS" -> Backspace(T, row)
                    [] c \in {"up", "down"} -> HistoryUpDown(T, row, c)
                    [] OTHER -> TypeChar(T, row, c)
     IN  /\ c # "\n"
         /\ term' = [term EXCEPT ![W] = after.t]
         /\ screen' = [screen EXCEPT ![T.y] = after.row]
  /\ queue' = [queue EXCEPT ![W] = Tail(@)]
  /\ UNCHANGED <<exec, layer_task_map, files, typed, column, disturbed>>

\* The line ends: it enters the history, the cursor moves on, ExecuteLine
\* starts and the prompt follows.
Entered(T, line) ==
  [T EXCEPT !.history = IF line # <<>> THEN <<line>> \o Front(@) ELSE @,
            !.linebuf = <<>>, !.index = 0]

InputEnter ==
  /\ KeyReceived /\ Head(queue[W]).c = "\n"
  /\ LET c == Newline(term[W])
         line == term[W].linebuf
     IN  /\ term' = [term EXCEPT ![W] = [Entered(@, line) EXCEPT !.x = c.x, !.y = c.y]]
         /\ screen' = IF c.scroll THEN Scroll1(screen) ELSE screen
         /\ exec' = [exec EXCEPT ![W] = [Idle EXCEPT !.ops = <<Op("line", 0, line)>> \o Chars(W, <<">">>)]]
  /\ queue' = [queue EXCEPT ![W] = Tail(@)]
  /\ UNCHANGED <<layer_task_map, files, typed, column, disturbed>>

-----------------------------------------------------------------------------
(* ExecuteLine.                                                            *)

\* strchr, cutting with a NUL, skipping spaces, and the string at i
Index(l, c) == IF c \in ToSet(l) THEN CHOOSE i \in DOMAIN l : l[i] = c /\ \A j \in 1 .. i - 1 : l[j] # c
                                 ELSE 0
Cut(l, i) == IF i = 0 THEN l ELSE [l EXCEPT ![i] = NUL]
SkipSpaces(l, i) == CHOOSE j \in i .. Len(l) + 1 :
                      /\ \A k \in i .. j - 1 : l[k] = " "
                      /\ j = Len(l) + 1 \/ l[j] # " "
Str(l, i) == SubSeq(l, i, (IF \E j \in i .. Len(l) : l[j] = NUL
                           THEN CHOOSE j \in i .. Len(l) : l[j] = NUL /\ \A k \in i .. j - 1 : l[k] # NUL
                           ELSE Len(l) + 1) - 1)

\* The parts of a line; dest and sub are empty sequences where there is no
\* ">" or "|".  The destination is read before the "|" is cut off.
Cuts(l) ==
  LET sp == Index(l, " ")   rd == Index(l, ">")   pp == Index(l, "|")
      l1 == Cut(Cut(l, sp), rd)
      l2 == Cut(l1, pp)
  IN  [command |-> Str(l2, 1), hasArg |-> sp > 0,
       arg  |-> IF sp > 0 THEN Str(l2, SkipSpaces(l, sp + 1)) ELSE <<>>,
       dest |-> IF rd > 0 THEN <<Str(l1, SkipSpaces(l1, rd + 1))>> ELSE <<>>,
       sub  |-> IF pp > 0 THEN <<Str(l2, SkipSpaces(l2, pp + 1))>> ELSE <<>>]

Kind(name) == IF name \in files THEN "file" ELSE IF name \in Dirs THEN "dir" ELSE "none"

Forks(l) == IF Cuts(l).sub # <<>> THEN <<Op("fork", 0, l)>> ELSE <<>>

\* The redirection: an early return, or the new stdout; then the pipe and
\* the command.
Redirected(t, l, ok) ==
  /\ exec' = [exec EXCEPT ![t].ops =
       (IF ok THEN Forks(l) \o <<Op("command", 0, l)>> ELSE Err("cannot redirect")) \o Tail(@),
       ![t].stdout = term[t].files[2], ![t].code = 0, ![t].sub = 0]
  /\ term' = [term EXCEPT ![t].files[2] = IF ok /\ Cuts(l).dest # <<>> THEN File ELSE @]

ExecuteLine(t) ==
  /\ Busy(t, "line")
  /\ LET l == At(t).s   dest == Cuts(l).dest
     IN  \/ /\ dest = <<>>
            /\ Redirected(t, l, TRUE) /\ UNCHANGED files
         \/ /\ dest # <<>> /\ Kind(dest[1]) = "none"       \* CreateFile, which may fail
            /\ \/ Redirected(t, l, TRUE) /\ files' = files \cup {dest[1]}
               \/ Redirected(t, l, FALSE) /\ UNCHANGED files
         \/ /\ dest # <<>> /\ Kind(dest[1]) # "none"
            /\ Redirected(t, l, Kind(dest[1]) = "file") /\ UNCHANGED files
  /\ UNCHANGED <<queue, screen, layer_task_map, typed, column, disturbed>>

\* NewTask, InitContext and Wakeup of a terminal without a window, whose
\* TaskTerminal types the line into it
With(f, new, v) == [t \in DOMAIN f \cup {new} |-> IF t = new THEN v ELSE f[t]]
Spawn(ex, new, line, fds) ==
  /\ term' = With(term, new, Entered(NewTerminal(FALSE, fds, 0), line))
  /\ queue' = With(queue, new, <<>>)
  /\ exec' = With(ex, new, [Idle EXCEPT !.ops =
       (IF line = <<>> THEN <<>> ELSE <<Op("line", 0, line)>>) \o <<Op("exit", 0, <<>>)>>])

Fork(t) ==
  /\ Busy(t, "fork")
  /\ LET new == Cardinality(DOMAIN term) + 1
         moved == [exec EXCEPT ![t].ops = <<Op("route", new, <<>>)>> \o Tail(@), ![t].sub = new]
     IN  /\ new \in Tasks
         /\ Spawn(moved, new, Cuts(At(t).s).sub[1], [term[t].files EXCEPT ![1] = PipeTo(new)])
  /\ UNCHANGED <<screen, layer_task_map, files, typed, column, disturbed>>

\* files_[1] = pipe_fd, and the keys of the window go to the other side; a
\* terminal without a window never set its layer_id_ (0 here until read)
Route(t) ==
  /\ Busy(t, "route")
  /\ \E layer \in IF term[t].show THEN {term[t].layer} ELSE GarbageIds :
       /\ term' = [term EXCEPT ![t].files[2] = PipeTo(At(t).n), ![t].layer = layer]
       /\ layer_task_map' = [layer_task_map EXCEPT ![layer] = At(t).n]
  /\ exec' = Goes(t, <<>>)
  /\ UNCHANGED <<queue, screen, files, typed, column, disturbed>>

\* What a command does, as operations; code is its exit code.
Out(s) == <<Op("put", 2, s)>>
Listing == Out(<<"entry", "\n">>)
Result(ops, code) == [ops |-> ops, code |-> code]

Echo(T, c) ==
  Result((IF c.arg = <<"$?">> THEN Out(<<ToString(T.last)>>)
          ELSE IF c.hasArg THEN Out(c.arg) ELSE <<>>) \o Out(<<"\n">>), 0)

Ls(c) ==
  IF c.arg = <<>> \/ Kind(c.arg) = "dir" THEN Result(Listing, 0)
  ELSE IF Kind(c.arg) = "file" THEN Result(Out(c.arg \o <<"\n">>), 0)
  ELSE Result(Err("no such file"), 1)

Cat(c) ==
  IF c.arg = <<>> THEN Result(<<Op("read", 0, <<>>)>>, 0)
  ELSE IF Kind(c.arg) = "none" THEN Result(Err("no such file"), 1)
  ELSE Result(Out(FileText), 0)

\* FindCommand and ExecuteFile: the application prints a word, and the
\* terminal its exit code.  A file that cannot be loaded leaves code -0.
Run(t, c, ret) ==
  IF c.command = <<>> THEN Result(<<>>, 0)
  ELSE IF c.command \notin Apps THEN Result(Err("no such command"), 1)
  ELSE IF ret < 0 THEN Result(Err("failed to exec"), 0)
  ELSE Result(Out(<<"out">>) \o (IF term[t].show THEN Chars(t, <<"app exited", "\n">>) ELSE <<>>), ret)

\* Commands that print what they find and change nothing.
Reports == {<<"lspci">>, <<"memstat">>}
BuiltIn == {<<"echo">>, <<"ls">>, <<"cat">>, <<"clear">>, <<"noterm">>} \cup Reports

\* Mutant of Ending: the pipe is not closed.
EndingWithoutClose(sub) == (IF sub # 0 THEN <<Op("wait", sub, <<>>)>> ELSE <<>>) \o <<Op("end", 0, <<>>)>>

\* after the command: FinishWrite and WaitFinish if there is a pipe
Ending(sub) == (IF sub # 0 THEN <<Op("close", sub, <<>>), Op("wait", sub, <<>>)>> ELSE <<>>)
               \o <<Op("end", 0, <<>>)>>

Command(t) ==
  /\ Busy(t, "command")
  /\ LET c == Cuts(At(t).s)
         does(r) == /\ exec' = [exec EXCEPT ![t].ops = r.ops \o Ending(exec[t].sub) \o Tail(@),
                                            ![t].code = r.code]
     IN  \/ /\ c.command = <<"echo">> /\ does(Echo(term[t], c))
            /\ UNCHANGED <<term, queue, screen>>
         \/ /\ c.command \in {<<"ls">>} \cup Reports
            /\ does(IF c.command \in Reports THEN Result(Listing, 0) ELSE Ls(c))
            /\ UNCHANGED <<term, queue, screen>>
         \/ /\ c.command = <<"cat">> /\ does(Cat(c))
            /\ UNCHANGED <<term, queue, screen>>
         \/ /\ c.command = <<"clear">> /\ does(Result(<<>>, 0))
            /\ term' = [term EXCEPT ![t].y = 0]
            /\ screen' = IF term[t].show THEN [y \in Rows |-> [x \in Columns |-> Blank]] ELSE screen
            /\ UNCHANGED queue
         \/ /\ c.command = <<"noterm">>
            /\ LET new == Cardinality(DOMAIN term) + 1
               IN  /\ new \in Tasks
                   /\ Spawn([exec EXCEPT ![t].ops = Ending(exec[t].sub) \o Tail(@)],
                            new, c.arg, term[t].files)
            /\ UNCHANGED screen
         \/ /\ c.command \notin BuiltIn
            /\ \E ret \in AppCodes \cup {-1} : does(Run(t, c, ret))
            /\ UNCHANGED <<term, queue, screen>>
  /\ UNCHANGED <<layer_task_map, files, typed, column, disturbed>>

\* PrintToFD: Write of the descriptor that the terminal holds now
Put(t) ==
  /\ Busy(t, "put")
  /\ LET fd == term[t].files[At(t).n]   s == At(t).s
     IN  \/ fd[1] = "term" /\ exec' = Goes(t, Chars(fd[2], s)) /\ UNCHANGED queue
         \/ fd[1] = "file" /\ exec' = Goes(t, <<>>) /\ UNCHANGED queue
         \/ fd[1] = "pipe" /\ exec' = Goes(t, <<>>)
            /\ queue' = IF fd[2] \in DOMAIN queue
                        THEN [queue EXCEPT ![fd[2]] = @ \o [i \in DOMAIN s |-> PipeMsg(s[i])]] ELSE queue
  /\ UNCHANGED <<term, screen, layer_task_map, files, typed, column, disturbed>>

\* The loop of cat: ReadDelim collects a line, which goes to stdout; it
\* ends when nothing was read.  acc is the line so far.
Collect(t, echo, c) ==
  LET acc == Append(exec[t].acc, c)
      again == <<Op("read", 0, <<>>)>>
  IN  [exec EXCEPT ![t].ops = echo \o (IF c = "\n" THEN Out(acc) ELSE <<>>) \o again \o Tail(@),
                   ![t].acc = IF c = "\n" THEN <<>> ELSE acc]
AtEof(t, echo) ==
  [exec EXCEPT ![t].ops = echo \o (IF exec[t].acc = <<>> THEN <<>>
                                   ELSE Out(exec[t].acc) \o <<Op("read", 0, <<>>)>>) \o Tail(@),
               ![t].acc = <<>>]

\* TerminalFileDescriptor::Read by the task of the terminal
ReadKey(t) ==
  /\ Busy(t, "read") /\ term[t].files[1] = Term(t)
  /\ queue[t] # <<>>
  /\ LET m == Head(queue[t])
     IN  exec' = CASE m.type # "kKeyPush" -> exec
                   [] m.type = "kKeyPush" /\ m.c = "^D" -> AtEof(t, Chars(t, <<"^D">>))
                   [] OTHER -> Collect(t, Chars(t, <<m.c>>), m.c)
  /\ queue' = [queue EXCEPT ![t] = Tail(@)]
  /\ UNCHANGED <<term, screen, layer_task_map, files, typed, column, disturbed>>

\* PipeDescriptor::Read: messages of other kinds are dropped
ReadPipe(t) ==
  /\ Busy(t, "read") /\ term[t].files[1] = PipeTo(t)
  /\ \/ /\ exec[t].eof
        /\ exec' = AtEof(t, <<>>) /\ UNCHANGED queue
     \/ /\ ~exec[t].eof /\ queue[t] # <<>>
        /\ LET m == Head(queue[t])
           IN  exec' = CASE m.type # "kPipe" -> exec
                         [] m.type = "kPipe" /\ m.c = NUL -> [AtEof(t, <<>>) EXCEPT ![t].eof = TRUE]
                         [] OTHER -> Collect(t, <<>>, m.c)
        /\ queue' = [queue EXCEPT ![t] = Tail(@)]
  /\ UNCHANGED <<term, screen, layer_task_map, files, typed, column, disturbed>>

\* PipeDescriptor::FinishWrite
FinishPipe(t) ==
  /\ Busy(t, "close")
  /\ queue' = Post(At(t).n, PipeMsg(NUL))
  /\ exec' = Goes(t, <<>>)
  /\ UNCHANGED <<term, screen, layer_task_map, files, typed, column, disturbed>>

\* Finish of the other side, then WaitFinish and the route, under one cli
Exit(t) ==
  /\ Busy(t, "exit")
  /\ exec' = Goes(t, <<Op("done", 0, <<>>)>>)
  /\ queue' = [u \in DOMAIN queue \ {t} |-> queue[u]]
  /\ UNCHANGED <<term, screen, layer_task_map, files, typed, column, disturbed>>

\* Mutant of RouteBack: the keys stay with the other side of the pipe.
RouteBackForgotten(t) == layer_task_map

RouteBack(t) == [layer_task_map EXCEPT ![term[t].layer] = t]

WaitFinish(t) ==
  /\ Busy(t, "wait") /\ Busy(At(t).n, "done")
  /\ layer_task_map' = RouteBack(t)
  /\ exec' = [Goes(t, <<>>) EXCEPT ![t].code = term[At(t).n].last]
  /\ UNCHANGED <<term, queue, screen, files, typed, column, disturbed>>

End(t) ==
  /\ Busy(t, "end")
  /\ term' = [term EXCEPT ![t].last = exec[t].code, ![t].files[2] = exec[t].stdout]
  /\ exec' = Goes(t, <<>>)
  /\ UNCHANGED <<queue, screen, layer_task_map, files, typed, column, disturbed>>

-----------------------------------------------------------------------------
Keys == (UNION {ToSet(l) : l \in Lines}) \cup {"\n", "BS", "up", "down", "^D"}

Step(t) ==
  \/ PrintBegin(t) \/ PrintEnd(t) \/ ExecuteLine(t) \/ Fork(t) \/ Route(t) \/ Command(t)
  \/ Put(t) \/ ReadKey(t) \/ ReadPipe(t) \/ FinishPipe(t) \/ Exit(t) \/ WaitFinish(t) \/ End(t)

Next ==
  \/ \E c \in Keys : KeyPush(c)
  \/ InputKey \/ InputEnter
  \/ \E t \in DOMAIN term : Step(t)

Spec == Init /\ [][Next]_vars

\* While some task can go on, one does (the scheduler is work-conserving and
\* round robin, see TaskManager); nothing makes the user press a key.
FairSpec == Spec /\ WF_vars(\E t \in DOMAIN term : Step(t))

-----------------------------------------------------------------------------
(* Properties. *)

\* What Enter will execute is what the user sees: as long as no other task
\* printed over it and the prompt was printed in column 0, the row of the
\* cursor is the prompt and linebuf_, after any typing, erasing, recalling
\* of history, scrolling and clearing.
PromptLineFaithful ==
  AtPrompt(W) /\ column = 0 /\ ~disturbed =>
    /\ term[W].x = Len(term[W].linebuf) + 1
    /\ screen[term[W].y] = [x \in Columns |->
          IF x = 0 THEN ">" ELSE IF x <= Len(term[W].linebuf) THEN term[W].linebuf[x] ELSE Blank]

\* Print never writes right of the last column or below the last row (there
\* the window's pixel arrays end), unless two tasks print at once or one
\* prints while a line is edited: both move cursor_ without a lock.
CursorInWindow ==
  ~disturbed => term[W].x <= kColumns /\ term[W].y \in Rows

\* A terminal that shows its prompt has the keyboard and its own standard
\* output back, whatever the line did (a pipe, a redirection that failed),
\* unless the layer_id_ a terminal without a window never set happens to be
\* that of the window.
PromptRestored ==
  AtPrompt(W) /\ (\A t \in DOMAIN term \ {W} : term[t].layer # WLayer) =>
    /\ layer_task_map[WLayer] = W
    /\ term[W].files = [i \in 1 .. 3 |-> Term(W)]

\* A line comes to its end: the terminal prompts again or waits for a key.
LineEnds ==
  (exec[W].ops # <<>>) ~> (AtPrompt(W) \/ (Busy(W, "read") /\ queue[W] = <<>>))
=============================================================================
