--------------------------- MODULE TerminalProofs ---------------------------
(***************************************************************************)
(* What Terminal keeps to, for any size of the window, any lines, commands *)
(* and files, any number of terminals and any interleaving of their tasks. *)
(* At the end, the bytes of a pipe (Pipe).                                 *)
(***************************************************************************)
EXTENDS Terminal, Pipe, TLAPS, FiniteSetTheorems, SequenceTheorems, NaturalsInduction, WellFoundedInduction

Codes == AppCodes \cup {-1, 0, 1}
Symbols ==
  Keys \cup ToSet(FileText) \cup {ToString(v) : v \in Codes}
  \cup {">", " ", NUL, "^D", "out", "app exited", "entry", "cannot redirect", "no such file",
        "no such command", "failed to exec"}
Texts == Seq(Symbols)
Messages == [type : {"kKeyPush", "kPipe"}, c : Symbols]
Fds == {Term(W), File} \cup {PipeTo(t) : t \in Tasks}

\* Operations of a command that runs, and those of ExecuteLine around it
BodyOps ==
  [op : {"chr", "half"}, n : {W}, s : {<<c>> : c \in Symbols}]
  \cup [op : {"put"}, n : {2, 3}, s : Texts]
  \cup [op : {"read"}, n : {0}, s : {<<>>}]
Ops ==
  BodyOps \cup [op : {"line", "fork", "command"}, n : {0}, s : Texts]
  \cup [op : {"route", "close", "wait"}, n : {0} \cup Tasks, s : {<<>>}]
  \cup [op : {"end", "exit", "done"}, n : {0}, s : {<<>>}]

Terminals ==
  [show : BOOLEAN, x : Nat, y : Rows, linebuf : Texts, history : [1 .. HistorySize -> Texts],
   index : 0 .. HistorySize, files : [1 .. 3 -> Fds], last : Codes, layer : {0, WLayer} \cup GarbageIds]
Execs ==
  [ops : Seq(Ops), code : Codes, sub : {0} \cup Tasks, stdout : Fds, acc : Texts, eof : BOOLEAN]

TypeInv ==
  /\ \E n \in Tasks : DOMAIN term = 1 .. n
  /\ term \in [DOMAIN term -> Terminals] /\ exec \in [DOMAIN term -> Execs]
  /\ DOMAIN queue \subseteq DOMAIN term /\ queue \in [DOMAIN queue -> Seq(Messages)]
  /\ screen \in [Rows -> [Columns -> Symbols]]
  /\ WLayer \in DOMAIN layer_task_map /\ layer_task_map = [l \in DOMAIN layer_task_map |-> layer_task_map[l]]
  /\ disturbed \in BOOLEAN
  /\ \A t \in DOMAIN term : exec[t].sub \in {0} \cup DOMAIN term

\* A print is begun by the task's next operation only
NoHalf(o) == \A i \in 1 .. Len(o) : o[i].op # "half"
HalfFirst(o) == o # <<>> => NoHalf(Tail(o))

\* How a task goes on after its line: W prints the prompt, others end
Fin(t) == IF t = W THEN Op("chr", W, <<">">>) ELSE Op("exit", 0, <<>>)
End_ == Op("end", 0, <<>>)

\* What is left of ExecuteLine at stage s, without the output of the command
Stages == {"line", "fork", "route", "command", "close", "wait", "end", "fin", "prompt", "over"}
Stage(t, s, b, sub) ==
  \/ s = "line" /\ \E l \in Texts : b = <<Op("line", 0, l), Fin(t)>>
  \/ s = "fork" /\ \E l \in Texts : b = <<Op("fork", 0, l), Op("command", 0, l), Fin(t)>> /\ Cuts(l).sub # <<>>
  \/ s = "route" /\ sub # 0 /\ \E l \in Texts : b = <<Op("route", sub, <<>>), Op("command", 0, l), Fin(t)>>
  \/ s = "command" /\ \E l \in Texts : b = <<Op("command", 0, l), Fin(t)>>
  \/ s = "close" /\ sub # 0 /\ b = <<Op("close", sub, <<>>), Op("wait", sub, <<>>), End_, Fin(t)>>
  \/ s = "wait" /\ sub # 0 /\ b = <<Op("wait", sub, <<>>), End_, Fin(t)>>
  \/ s = "end" /\ b = <<End_, Fin(t)>>
  \/ s = "fin" /\ b = <<Fin(t)>>
  \/ s = "prompt" /\ t = W /\ b = <<Op("half", W, <<">">>)>>
  \/ s = "over" /\ b = IF t = W THEN <<>> ELSE <<Op("done", 0, <<>>)>>

\* The keys of the window go to W, or a terminal without a window took them by
\* its layer_id_ that was never set
Keyboard == layer_task_map[WLayer] = W \/ \E t \in DOMAIN term \ {W} : term[t].layer = WLayer

\* What holds at a stage, of W ...
AtStage(s) ==
  /\ s \in {"line", "fork", "route", "end", "fin", "prompt", "over"} => Keyboard
  /\ s = "command" /\ exec[W].sub = 0 => Keyboard
  /\ s \in {"line", "fin", "prompt", "over"} => term[W].files[2] = Term(W)
  /\ s \in {"fork", "route", "command", "close", "wait", "end"} => exec[W].stdout = Term(W)
  /\ s # "over" => term[W].linebuf = <<>>
  /\ s = "prompt" /\ ~disturbed => column = term[W].x
\* ... and of a terminal without a window
AtStageOf(t, s) ==
  /\ s \in {"line", "fork", "route"} => term[t].layer = 0
  /\ s # "over" => t \in DOMAIN queue

\* The output of the command that is left is f, the rest of the line b
Split(t, s, f, b) ==
  /\ s \in Stages /\ f \in Seq(BodyOps) /\ b \in Seq(Ops)
  /\ exec[t].ops = f \o b /\ Stage(t, s, b, exec[t].sub)
  /\ f # <<>> => s \in {"close", "end", "fin"}
  /\ t = W => AtStage(s)
  /\ t # W => AtStageOf(t, s)
Running(t) == HalfFirst(exec[t].ops) /\ \E s, f, b : Split(t, s, f, b)

WTerminal ==
  /\ term[W].show /\ term[W].layer = WLayer /\ W \in DOMAIN queue
  /\ term[W].files[1] = Term(W) /\ term[W].files[3] = Term(W)
  /\ \A t \in DOMAIN term \ {W} : ~term[t].show

\* The window, as long as no task printed into the output of another
Fits(x, c) == IF c \in Wide THEN x + 2 <= kColumns ELSE x + 1 <= kColumns
Window ==
  /\ term[W].x <= kColumns
  /\ Len(term[W].linebuf) <= kColumns - 2
  /\ exec[W].ops = <<>> => Len(term[W].linebuf) < term[W].x
  /\ \A i \in 1 .. HistorySize : Len(term[W].history[i]) <= kColumns - 2
  /\ \A y \in Rows, x \in Columns :
       y > term[W].y \/ (y = term[W].y /\ x >= term[W].x) => screen[y][x] = Blank
  /\ \A t \in DOMAIN term : Busy(t, "half") =>
       /\ Fits(term[W].x, At(t).s[1]) /\ exec[W].ops # <<>>
       /\ \A u \in DOMAIN term : Busy(u, "half") => u = t
  /\ PromptLineFaithful

TerminalInv ==
  /\ TypeInv /\ WTerminal
  /\ \A t \in DOMAIN term : Running(t)
  /\ ~disturbed => Window

-----------------------------------------------------------------------------
(***************************************************************************)
(* Sequences of operations                                                 *)
(***************************************************************************)

\* A concatenation, element by element.
LEMMA ConcatIs ==
  ASSUME NEW S, NEW x \in Seq(S), NEW y \in Seq(S), NEW z \in Seq(S), Len(z) = Len(x) + Len(y),
         \A i \in 1 .. Len(x) : z[i] = x[i], \A i \in 1 .. Len(y) : z[Len(x) + i] = y[i]
  PROVE  x \o y = z
<1>1. PICK w : w = x \o y
  OBVIOUS
<1>2. Len(x) \in Nat /\ Len(y) \in Nat
  BY LenProperties
<1>3. w \in Seq(S) /\ Len(w) = Len(x) + Len(y) /\ \A i \in 1 .. Len(x) + Len(y) : w[i] = IF i <= Len(x) THEN x[i] ELSE y[i - Len(x)]
  BY <1>1, ConcatProperties
<1>4. ASSUME NEW i \in 1 .. Len(w) PROVE w[i] = z[i]
  <2>1. CASE i <= Len(x)
    BY <1>2, <1>3, <2>1
  <2>2. CASE ~(i <= Len(x))
    <3>1. PICK k \in 1 .. Len(y) : k = i - Len(x)
      BY <1>2, <1>3, <2>2
    <3>2. i = Len(x) + k
      BY <1>2, <3>1
    <3> QED BY <1>2, <1>3, <2>2, <3>1, <3>2
  <2> QED BY <2>1, <2>2
<1>5. w = z
  BY <1>3, <1>4, SeqEqual
<1> QED BY <1>1, <1>5

\* The rest of a sequence and what is put before it, written out.
LEMMA Tails ==
  /\ \A p : Tail(<<p>>) = <<>> /\ <<p>>[1] = p /\ <<p>> # <<>>
  /\ \A p, q : Tail(<<p, q>>) = <<q>> /\ <<p, q>>[1] = p /\ <<p, q>> # <<>>
  /\ \A p, q, r : Tail(<<p, q, r>>) = <<q, r>> /\ <<p, q, r>>[1] = p /\ <<p, q, r>> # <<>>
  /\ \A p, q, r, u : Tail(<<p, q, r, u>>) = <<q, r, u>> /\ <<p, q, r, u>>[1] = p /\ <<p, q, r, u>> # <<>>
<1>1. ASSUME NEW p PROVE Tail(<<p>>) = <<>> /\ <<p>>[1] = p /\ <<p>> # <<>>
  OBVIOUS
<1>2. ASSUME NEW p, NEW q PROVE Tail(<<p, q>>) = <<q>> /\ <<p, q>>[1] = p /\ <<p, q>> # <<>>
  OBVIOUS
<1>3. ASSUME NEW p, NEW q, NEW r PROVE Tail(<<p, q, r>>) = <<q, r>> /\ <<p, q, r>>[1] = p /\ <<p, q, r>> # <<>>
  OBVIOUS
<1>4. ASSUME NEW p, NEW q, NEW r, NEW u
      PROVE  Tail(<<p, q, r, u>>) = <<q, r, u>> /\ <<p, q, r, u>>[1] = p /\ <<p, q, r, u>> # <<>>
  OBVIOUS
<1> QED BY <1>1, <1>2, <1>3, <1>4, Zenon

\* Two short sequences.
LEMMA Joins ==
  /\ \A p, q : <<p>> \o <<q>> = <<p, q>>
  /\ \A p, q, r : <<p>> \o <<q, r>> = <<p, q, r>> /\ <<p, q>> \o <<r>> = <<p, q, r>>
<1>1. ASSUME NEW p, NEW q PROVE <<p>> \o <<q>> = <<p, q>>
  <2>1. PICK x, y, z : x = <<p>> /\ y = <<q>> /\ z = <<p, q>>
    OBVIOUS
  <2>2. /\ x \in Seq({p, q}) /\ Len(x) = 1 /\ x[1] = p /\ y \in Seq({p, q}) /\ Len(y) = 1 /\ y[1] = q
        /\ z \in Seq({p, q}) /\ Len(z) = 2 /\ z[1] = p /\ z[2] = q
    BY <2>1
  <2>3. /\ Len(z) = Len(x) + Len(y) /\ \A i \in 1 .. Len(x) : z[i] = x[i]
        /\ \A i \in 1 .. Len(y) : z[Len(x) + i] = y[i]
    BY <2>2
  <2>4. x \o y = z
    BY <2>2, <2>3, ConcatIs, Zenon
  <2> QED BY <2>1, <2>4, Zenon
<1>2. ASSUME NEW p, NEW q, NEW r PROVE <<p>> \o <<q, r>> = <<p, q, r>>
  <2>1. PICK x, y, z : x = <<p>> /\ y = <<q, r>> /\ z = <<p, q, r>>
    OBVIOUS
  <2>2. /\ x \in Seq({p, q, r}) /\ Len(x) = 1 /\ x[1] = p /\ y \in Seq({p, q, r}) /\ Len(y) = 2 /\ y[1] = q /\ y[2] = r
        /\ z \in Seq({p, q, r}) /\ Len(z) = 3 /\ z[1] = p /\ z[2] = q /\ z[3] = r
    BY <2>1
  <2>3. /\ Len(z) = Len(x) + Len(y) /\ \A i \in 1 .. Len(x) : z[i] = x[i]
        /\ \A i \in 1 .. Len(y) : z[Len(x) + i] = y[i]
    BY <2>2
  <2>4. x \o y = z
    BY <2>2, <2>3, ConcatIs, Zenon
  <2> QED BY <2>1, <2>4, Zenon
<1>3. ASSUME NEW p, NEW q, NEW r PROVE <<p, q>> \o <<r>> = <<p, q, r>>
  <2>1. PICK x, y, z : x = <<p, q>> /\ y = <<r>> /\ z = <<p, q, r>>
    OBVIOUS
  <2>2. /\ x \in Seq({p, q, r}) /\ Len(x) = 2 /\ x[1] = p /\ x[2] = q /\ y \in Seq({p, q, r}) /\ Len(y) = 1 /\ y[1] = r
        /\ z \in Seq({p, q, r}) /\ Len(z) = 3 /\ z[1] = p /\ z[2] = q /\ z[3] = r
    BY <2>1
  <2>3. /\ Len(z) = Len(x) + Len(y) /\ \A i \in 1 .. Len(x) : z[i] = x[i]
        /\ \A i \in 1 .. Len(y) : z[Len(x) + i] = y[i]
    BY <2>2
  <2>4. x \o y = z
    BY <2>2, <2>3, ConcatIs, Zenon
  <2> QED BY <2>1, <2>4, Zenon
<1> QED BY <1>1, <1>2, <1>3, Zenon

\* Three operations and one.
LEMMA JoinFour ==
  ASSUME NEW p, NEW q, NEW r, NEW u, NEW b, b = <<p, q, r>> \o <<u>>
  PROVE  b = <<p, q, r, u>>
<1>1. PICK x, y, z : x = <<p, q, r>> /\ y = <<u>> /\ z = <<p, q, r, u>>
  OBVIOUS
<1>2. /\ x \in Seq({p, q, r, u}) /\ Len(x) = 3 /\ x[1] = p /\ x[2] = q /\ x[3] = r
      /\ y \in Seq({p, q, r, u}) /\ Len(y) = 1 /\ y[1] = u
      /\ z \in Seq({p, q, r, u}) /\ Len(z) = 4 /\ z[1] = p /\ z[2] = q /\ z[3] = r /\ z[4] = u
  BY <1>1
<1>3. /\ Len(z) = Len(x) + Len(y) /\ \A i \in 1 .. Len(x) : z[i] = x[i]
      /\ \A i \in 1 .. Len(y) : z[Len(x) + i] = y[i]
  BY <1>2
<1>4. x \o y = z
  BY <1>2, <1>3, ConcatIs, Zenon
<1> QED BY <1>1, <1>4, Zenon

\* The symbols that are printed.
LEMMA SymbolsAre ==
  /\ Keys \subseteq Symbols /\ FileText \in Texts /\ \A v \in Codes : ToString(v) \in Symbols
  /\ {">", " ", "\n", NUL, "^D", "out", "app exited", "entry", "cannot redirect", "no such file",
      "no such command", "failed to exec"} \subseteq Symbols
  /\ Blank \in Symbols
<1>1. Keys \subseteq Symbols /\ \A v \in Codes : ToString(v) \in Symbols
  BY DEF Symbols
<1>2. FileText \in Texts
  <2>1. FileText \in Seq(ToSet(FileText)) /\ ToSet(FileText) \subseteq Symbols
    BY TerminalAssumption DEF Symbols
  <2> QED BY <2>1, SeqMonotonic DEF Texts
<1>3. "\n" \in Symbols
  <2>1. "\n" \in Keys
    BY DEF Keys
  <2> QED BY <1>1, <2>1
<1>4. {">", " ", NUL, "^D", "out", "app exited", "entry", "cannot redirect", "no such file",
       "no such command", "failed to exec"} \subseteq Symbols
  BY DEF Symbols
<1> QED BY <1>1, <1>2, <1>3, <1>4 DEF Blank

\* Short texts.
LEMMA TextsAre ==
  /\ <<>> \in Texts
  /\ \A c \in Symbols : <<c>> \in Texts
  /\ \A c, d \in Symbols : <<c, d>> \in Texts
  /\ \A c \in Symbols, s \in Texts : Append(s, c) \in Texts
  /\ \A r, s \in Texts : r \o s \in Texts
<1>1. <<>> \in Texts /\ (\A c \in Symbols : <<c>> \in Texts) /\ (\A c, d \in Symbols : <<c, d>> \in Texts)
  BY DEF Texts
<1>2. \A c \in Symbols, s \in Texts : Append(s, c) \in Texts
  BY AppendProperties DEF Texts
<1>3. \A r, s \in Texts : r \o s \in Texts
  BY ConcatProperties DEF Texts
<1> QED BY <1>1, <1>2, <1>3

\* The operations of a command that runs.
LEMMA BodyOpsAre ==
  /\ \A c \in Symbols : Op("chr", W, <<c>>) \in BodyOps /\ Op("half", W, <<c>>) \in BodyOps
  /\ \A n \in {2, 3}, s \in Texts : Op("put", n, s) \in BodyOps
  /\ Op("read", 0, <<>>) \in BodyOps
  /\ BodyOps \subseteq Ops
  /\ \A o \in BodyOps : o.op \in {"chr", "half", "put", "read"}
<1>1. \A c \in Symbols : Op("chr", W, <<c>>) \in BodyOps /\ Op("half", W, <<c>>) \in BodyOps
  BY DEF Op, BodyOps
<1>2. \A n \in {2, 3}, s \in Texts : Op("put", n, s) \in BodyOps
  BY DEF Op, BodyOps
<1>3. Op("read", 0, <<>>) \in BodyOps
  BY DEF Op, BodyOps
<1>4. BodyOps \subseteq Ops
  BY DEF Ops
<1>5. \A o \in BodyOps : o.op \in {"chr", "half", "put", "read"}
  BY DEF BodyOps
<1> QED BY <1>1, <1>2, <1>3, <1>4, <1>5

\* Operations are put before the rest of a sequence.
LEMMA Prepend ==
  ASSUME NEW f \in Seq(BodyOps), f # <<>>, NEW b \in Seq(Ops), NEW g \in Seq(BodyOps), NEW o, o = f \o b
  PROVE  /\ o \in Seq(Ops) /\ o # <<>> /\ o[1] = f[1] /\ f[1] \in BodyOps
         /\ Tail(o) = Tail(f) \o b /\ g \o Tail(f) \in Seq(BodyOps)
         /\ g \o Tail(o) = (g \o Tail(f)) \o b
<1>1. f \in Seq(Ops) /\ g \in Seq(Ops) /\ Tail(f) \in Seq(BodyOps) /\ f[1] \in BodyOps
  BY HeadTailProperties, SeqMonotonic, BodyOpsAre
<1>2. Tail(f) \in Seq(Ops)
  BY <1>1, SeqMonotonic, BodyOpsAre
<1>3. o \in Seq(Ops) /\ Len(o) = Len(f) + Len(b) /\ \A i \in 1 .. Len(o) : o[i] = IF i <= Len(f) THEN f[i] ELSE b[i - Len(f)]
  BY <1>1, ConcatProperties
<1>4. Len(f) \in Nat \ {0} /\ Len(b) \in Nat
  BY EmptySeq, LenProperties
<1>5. o # <<>> /\ o[1] = f[1]
  <2>1. 1 \in 1 .. Len(o) /\ 1 <= Len(f) /\ Len(o) # 0
    BY <1>3, <1>4
  <2> QED BY <1>3, <2>1
<1>6. Tail(o) = Tail(f) \o b
  <2>1. PICK x : x = Tail(o)
    OBVIOUS
  <2>2. PICK tf : tf = Tail(f)
    OBVIOUS
  <2>3. PICK y : y = tf \o b
    OBVIOUS
  <2>4. x \in Seq(Ops) /\ Len(x) = Len(o) - 1 /\ \A i \in 1 .. Len(x) : x[i] = o[i + 1]
    BY <1>3, <1>5, <2>1, HeadTailProperties
  <2>5. tf \in Seq(Ops) /\ Len(tf) = Len(f) - 1 /\ \A i \in 1 .. Len(tf) : tf[i] = f[i + 1]
    BY <1>1, <2>2, HeadTailProperties
  <2>6. y \in Seq(Ops) /\ Len(y) = Len(tf) + Len(b) /\ \A i \in 1 .. Len(y) : y[i] = IF i <= Len(tf) THEN tf[i] ELSE b[i - Len(tf)]
    BY <2>3, <2>5, ConcatProperties
  <2>7. Len(x) = Len(y) /\ Len(x) \in Nat
    BY <1>3, <1>4, <2>4, <2>5, <2>6
  <2>8. ASSUME NEW i \in 1 .. Len(x) PROVE x[i] = y[i]
    <3>1. i + 1 \in 1 .. Len(o) /\ x[i] = o[i + 1]
      BY <1>3, <1>4, <2>4
    <3>2. CASE i <= Len(tf)
      BY <1>3, <1>4, <2>5, <2>6, <2>7, <3>1, <3>2
    <3>3. CASE ~(i <= Len(tf))
      <4>1. ~(i + 1 <= Len(f)) /\ (i + 1) - Len(f) = i - Len(tf)
        BY <1>4, <2>5, <3>3
      <4> QED BY <1>3, <2>6, <2>7, <3>1, <3>3, <4>1
    <3> QED BY <3>2, <3>3
  <2>9. x = y
    BY <2>4, <2>6, <2>7, <2>8, SeqEqual
  <2> QED BY <2>1, <2>2, <2>3, <2>9
<1>7. g \o Tail(f) \in Seq(BodyOps)
  BY <1>1, ConcatProperties
<1>8. g \o Tail(o) = (g \o Tail(f)) \o b
  <2>1. PICK tf \in Seq(Ops) : tf = Tail(f)
    BY <1>2
  <2>2. (g \o tf) \o b = g \o (tf \o b)
    BY <1>1, <2>1, ConcatAssociative, SMTT(30)
  <2> QED BY <1>6, <2>1, <2>2, Zenon
<1> QED BY <1>1, <1>3, <1>5, <1>6, <1>7, <1>8

\* The operations of ExecuteLine around it.
LEMMA LineOpsAre ==
  /\ \A k \in {"line", "fork", "command"}, l \in Texts : Op(k, 0, l) \in Ops
  /\ \A k \in {"route", "close", "wait"}, n \in {0} \cup Tasks : Op(k, n, <<>>) \in Ops
  /\ \A k \in {"end", "exit", "done"} : Op(k, 0, <<>>) \in Ops
  /\ \A t : Fin(t) \in Ops
<1>1. \A k \in {"line", "fork", "command"}, l \in Texts : Op(k, 0, l) \in Ops
  BY DEF Op, Ops
<1>2. \A k \in {"route", "close", "wait"}, n \in {0} \cup Tasks : Op(k, n, <<>>) \in Ops
  BY DEF Op, Ops
<1>3. \A k \in {"end", "exit", "done"} : Op(k, 0, <<>>) \in Ops
  BY DEF Op, Ops
<1>4. Op("chr", W, <<">">>) \in Ops
  BY SymbolsAre, BodyOpsAre
<1> QED BY <1>1, <1>2, <1>3, <1>4 DEF Fin

\* The fields of an operation.
LEMMA OpFields == \A k, n, s : Op(k, n, s).op = k /\ Op(k, n, s).n = n /\ Op(k, n, s).s = s
BY DEF Op

\* Printing a text is an operation for each character.
LEMMA CharsAre ==
  ASSUME NEW s \in Texts
  PROVE  Chars(W, s) \in Seq(BodyOps) /\ NoHalf(Chars(W, s))
<1>1. Len(s) \in Nat /\ DOMAIN s = 1 .. Len(s) /\ \A i \in 1 .. Len(s) : s[i] \in Symbols
  BY LenProperties, ElementOfSeq DEF Texts
<1>2. PICK f : f = [i \in 1 .. Len(s) |-> Op("chr", W, <<s[i]>>)]
  OBVIOUS
<1>3. \A i \in 1 .. Len(s) : Op("chr", W, <<s[i]>>) \in BodyOps
  BY <1>1, BodyOpsAre
<1>4. f \in Seq(BodyOps) /\ Len(f) = Len(s)
  BY <1>1, <1>2, <1>3, IsASeq
<1>5. NoHalf(f)
  BY <1>2, <1>4, OpFields DEF NoHalf
<1>6. Chars(W, s) = f
  BY <1>1, <1>2 DEF Chars
<1> QED BY <1>4, <1>5, <1>6

\* No half-printed character among operations put together.
LEMMA NoHalfJoin ==
  ASSUME NEW g \in Seq(Ops), NEW h \in Seq(Ops), NoHalf(g), NoHalf(h)
  PROVE  g \o h \in Seq(Ops) /\ NoHalf(g \o h)
<1>1. PICK w : w = g \o h
  OBVIOUS
<1>2. Len(g) \in Nat /\ Len(h) \in Nat
  BY LenProperties
<1>3. w \in Seq(Ops) /\ Len(w) = Len(g) + Len(h) /\ \A i \in 1 .. Len(g) + Len(h) : w[i] = IF i <= Len(g) THEN g[i] ELSE h[i - Len(g)]
  BY <1>1, ConcatProperties
<1>4. ASSUME NEW i \in 1 .. Len(w) PROVE w[i].op # "half"
  <2>1. CASE i <= Len(g)
    BY <1>2, <1>3, <2>1 DEF NoHalf
  <2>2. CASE ~(i <= Len(g))
    <3>1. i - Len(g) \in 1 .. Len(h) /\ w[i] = h[i - Len(g)]
      BY <1>2, <1>3, <2>2
    <3> QED BY <3>1 DEF NoHalf
  <2> QED BY <2>1, <2>2
<1> QED BY <1>1, <1>3, <1>4 DEF NoHalf

\* The next operation of the task is the first of the command's output f, and others may take its place.
InBody(t, s, f, b) ==
  /\ exec[t].ops # <<>> /\ At(t) = f[1] /\ At(t) \in BodyOps /\ s \in {"close", "end", "fin"}
  /\ Tail(f) \in Seq(BodyOps) /\ Tail(exec[t].ops) = Tail(f) \o b
  /\ \A g \in Seq(BodyOps) : g \o Tail(f) \in Seq(BodyOps) /\ g \o Tail(exec[t].ops) = (g \o Tail(f)) \o b

\* The next operation is part of the output, or begins the stage.
LEMMA SplitBody ==
  ASSUME NEW t, NEW s, NEW f, NEW b, Split(t, s, f, b), f # <<>>
  PROVE  InBody(t, s, f, b)
<1>1. f \in Seq(BodyOps) /\ b \in Seq(Ops) /\ exec[t].ops = f \o b /\ s \in {"close", "end", "fin"}
  BY DEF Split
<1>2. PICK o : o = exec[t].ops
  OBVIOUS
<1>4. ASSUME NEW g \in Seq(BodyOps)
      PROVE  /\ o # <<>> /\ o[1] = f[1] /\ f[1] \in BodyOps
             /\ Tail(o) = Tail(f) \o b /\ g \o Tail(f) \in Seq(BodyOps) /\ g \o Tail(o) = (g \o Tail(f)) \o b
  BY <1>1, <1>2, Prepend, SMTT(30)
<1>5. Tail(f) \in Seq(BodyOps)
  BY <1>1, HeadTailProperties
<1>6. o # <<>> /\ o[1] = f[1] /\ f[1] \in BodyOps /\ Tail(o) = Tail(f) \o b
  BY <1>4, <1>5
<1> QED BY <1>1, <1>2, <1>4, <1>5, <1>6, Zenon DEF At, InBody

\* At the stages of ExecuteLine there is no output left.
LEMMA SplitLine ==
  ASSUME NEW t, NEW s, NEW b, Split(t, s, <<>>, b)
  PROVE  /\ exec[t].ops = b
         /\ b # <<>> => \/ s \in {"line", "fork", "route", "command", "close", "wait", "end"} /\ At(t).op = s
                        \/ s = "fin" /\ b = <<Fin(t)>> /\ At(t) = Fin(t)
                        \/ s = "prompt" /\ t = W /\ At(t) = Op("half", W, <<">">>)
                        \/ s = "over" /\ t # W /\ At(t) = Op("done", 0, <<>>)
<1>1. b \in Seq(Ops) /\ exec[t].ops = <<>> \o b /\ Stage(t, s, b, exec[t].sub)
  BY DEF Split
<1>2. exec[t].ops = b
  BY <1>1, ConcatEmptySeq
<1>3. At(t) = b[1]
  BY <1>2 DEF At
<1>4. CASE s \in {"line", "fork", "command"}
  <2>1. \E l \in Texts : b[1] = Op(s, 0, l)
    <3>1. CASE s = "line"
      <4>1. \E l \in Texts : b = <<Op("line", 0, l), Fin(t)>>
        BY <1>1, <3>1 DEF Stage
      <4>2. PICK l \in Texts : b[1] = Op("line", 0, l)
        BY <4>1, Tails
      <4> QED BY <3>1, <4>2
    <3>2. CASE s = "fork"
      <4>1. \E l \in Texts : b = <<Op("fork", 0, l), Op("command", 0, l), Fin(t)>>
        BY <1>1, <3>2 DEF Stage
      <4>2. PICK l \in Texts : b[1] = Op("fork", 0, l)
        BY <4>1, Tails
      <4> QED BY <3>2, <4>2
    <3>3. CASE s = "command"
      <4>1. \E l \in Texts : b = <<Op("command", 0, l), Fin(t)>>
        BY <1>1, <3>3 DEF Stage
      <4>2. PICK l \in Texts : b[1] = Op("command", 0, l)
        BY <4>1, Tails
      <4> QED BY <3>3, <4>2
    <3> QED BY <1>4, <3>1, <3>2, <3>3
  <2> QED BY <1>2, <1>3, <1>4, <2>1, OpFields
<1>5. CASE s \in {"route", "close", "wait", "end"}
  <2>1. \E n : b[1] = Op(s, n, <<>>)
    <3>1. CASE s = "route"
      <4>1. \E l \in Texts : b = <<Op("route", exec[t].sub, <<>>), Op("command", 0, l), Fin(t)>>
        BY <1>1, <3>1 DEF Stage
      <4>2. b[1] = Op("route", exec[t].sub, <<>>)
        BY <4>1, Tails
      <4> QED BY <3>1, <4>2
    <3>2. CASE s = "close"
      <4>1. b = <<Op("close", exec[t].sub, <<>>), Op("wait", exec[t].sub, <<>>), End_, Fin(t)>>
        BY <1>1, <3>2 DEF Stage
      <4> QED BY <3>2, <4>1, Tails, Zenon
    <3>3. CASE s = "wait"
      <4>1. b = <<Op("wait", exec[t].sub, <<>>), End_, Fin(t)>>
        BY <1>1, <3>3 DEF Stage
      <4> QED BY <3>3, <4>1, Tails, Zenon
    <3>4. CASE s = "end"
      <4>1. b = <<End_, Fin(t)>>
        BY <1>1, <3>4 DEF Stage
      <4> QED BY <3>4, <4>1, Tails, Zenon DEF End_
    <3> QED BY <1>5, <3>1, <3>2, <3>3, <3>4
  <2> QED BY <1>2, <1>3, <1>5, <2>1, OpFields
<1>6. CASE s \in {"fin", "prompt", "over"}
  <2>1. CASE s = "fin"
    <3>1. b = <<Fin(t)>>
      BY <1>1, <2>1 DEF Stage
    <3>2. b[1] = Fin(t)
      BY <3>1
    <3> QED BY <1>2, <1>3, <2>1, <3>1, <3>2
  <2>2. CASE s = "prompt"
    <3>1. t = W /\ b = <<Op("half", W, <<">">>)>>
      BY <1>1, <2>2 DEF Stage
    <3>2. b[1] = Op("half", W, <<">">>)
      BY <3>1
    <3> QED BY <1>2, <1>3, <2>2, <3>1, <3>2
  <2>3. CASE s = "over"
    <3>1. b = IF t = W THEN <<>> ELSE <<Op("done", 0, <<>>)>>
      BY <1>1, <2>3 DEF Stage
    <3>2. b # <<>> => t # W /\ b[1] = Op("done", 0, <<>>)
      BY <3>1
    <3> QED BY <1>2, <1>3, <2>3, <3>2
  <2> QED BY <1>6, <2>1, <2>2, <2>3
<1> QED BY <1>1, <1>2, <1>4, <1>5, <1>6 DEF Split, Stages

-----------------------------------------------------------------------------
(***************************************************************************)
(* What a step leaves alone                                                *)
(***************************************************************************)

\* The keyboard's route is kept.
LEMMA KeyboardKept ==
  ASSUME Keyboard, layer_task_map'[WLayer] = layer_task_map[WLayer], DOMAIN term \subseteq DOMAIN term',
         \A u \in DOMAIN term \ {W} : term'[u].layer = term[u].layer
  PROVE  Keyboard'
BY DEF Keyboard

\* A task that does not step goes on as before.
LEMMA OtherRuns ==
  ASSUME NEW u, Running(u), exec'[u] = exec[u],
         u # W => term'[u].layer = term[u].layer /\ (u \in DOMAIN queue => u \in DOMAIN queue'),
         u = W => /\ Keyboard => Keyboard'
                  /\ term'[W].files[2] = term[W].files[2] /\ term'[W].linebuf = term[W].linebuf
                  /\ ~disturbed' /\ Busy(W, "half") => ~disturbed /\ column' = column /\ term'[W].x = term[W].x
  PROVE  Running(u)'
<1>1. PICK s, f, b : Split(u, s, f, b)
  BY DEF Running
<1>2. HalfFirst(exec'[u].ops)
  BY DEF Running
<1>3. /\ s \in Stages /\ f \in Seq(BodyOps) /\ b \in Seq(Ops)
      /\ exec[u].ops = f \o b /\ Stage(u, s, b, exec[u].sub)
      /\ f # <<>> => s \in {"close", "end", "fin"}
  BY <1>1 DEF Split
<1>4. u = W => AtStage(s)'
  <2>1. SUFFICES ASSUME u = W PROVE AtStage(s)'
    OBVIOUS
  <2>2. AtStage(s)
    BY <1>1, <2>1 DEF Split
  <2>3. s = "prompt" => Busy(W, "half")
    <3>1. SUFFICES ASSUME s = "prompt" PROVE Busy(W, "half")
      OBVIOUS
    <3>2. f = <<>>
      BY <1>3, <3>1
    <3>3. b = <<Op("half", W, <<">">>)>>
      BY <1>3, <3>1 DEF Stage
    <3>4. exec[W].ops = b /\ (b # <<>> => At(W) = Op("half", W, <<">">>))
      BY <1>1, <2>1, <3>1, <3>2, SplitLine
    <3> QED BY <3>3, <3>4, Tails, OpFields DEF Busy
  <2> QED BY <2>1, <2>2, <2>3 DEF AtStage
<1>5. u # W => AtStageOf(u, s)'
  BY <1>1 DEF Split, AtStageOf
<1>6. Split(u, s, f, b)'
  BY <1>3, <1>4, <1>5 DEF Split
<1> QED BY <1>2, <1>6 DEF Running

\* A task whose command goes on is at the same stage after it.
LEMMA BodyRuns ==
  ASSUME NEW t, NEW s, NEW f, NEW b, Split(t, s, f, b), f # <<>>, NEW g \in Seq(BodyOps), 
         exec'[t].ops = g \o Tail(exec[t].ops), exec'[t].sub = exec[t].sub, exec'[t].stdout = exec[t].stdout,
         HalfFirst(exec'[t].ops),
         t # W => term'[t].layer = term[t].layer /\ (t \in DOMAIN queue => t \in DOMAIN queue'),
         t = W => /\ Keyboard => Keyboard'
                  /\ term'[W].files[2] = term[W].files[2] /\ term'[W].linebuf = term[W].linebuf
  PROVE  Running(t)'
<1>1. /\ s \in {"close", "end", "fin"} /\ g \o Tail(f) \in Seq(BodyOps)
      /\ g \o Tail(exec[t].ops) = (g \o Tail(f)) \o b
  <2>1. InBody(t, s, f, b)
    BY SplitBody
  <2> QED BY <2>1 DEF InBody
<1>2. PICK h : h = g \o Tail(f)
  OBVIOUS
<1>3. s \in Stages /\ b \in Seq(Ops) /\ Stage(t, s, b, exec[t].sub)
  BY DEF Split
<1>4. t = W => AtStage(s)'
  <2>1. t = W => AtStage(s)
    BY DEF Split
  <2> QED BY <1>1, <2>1 DEF AtStage
<1>5. t # W => AtStageOf(t, s)'
  BY DEF Split, AtStageOf
<1>6. Split(t, s, h, b)'
  BY <1>1, <1>2, <1>3, <1>4, <1>5 DEF Split
<1> QED BY <1>6 DEF Running

\* The window is kept by a step that does not print.
LEMMA WindowKept ==
  ASSUME Window, DOMAIN term \subseteq DOMAIN term', screen' = screen, column' = column, disturbed' = disturbed,
         term'[W].x = term[W].x, term'[W].y = term[W].y,
         term'[W].linebuf = term[W].linebuf, term'[W].history = term[W].history,
         (exec'[W].ops = <<>>) <=> (exec[W].ops = <<>>), W \in DOMAIN term,
         \A u \in DOMAIN term' : Busy(u, "half")' => u \in DOMAIN term /\ exec'[u] = exec[u]
  PROVE  Window'
<1>1. \A u \in DOMAIN term' : Busy(u, "half")' => u \in DOMAIN term /\ Busy(u, "half") /\ At(u)' = At(u)
  BY DEF Busy, At
<1>2. \A u \in DOMAIN term' : Busy(u, "half")' =>
        /\ Fits(term'[W].x, At(u)'.s[1]) /\ exec'[W].ops # <<>>
        /\ \A v \in DOMAIN term' : Busy(v, "half")' => v = u
  BY <1>1 DEF Window
<1>3. PromptLineFaithful'
  BY DEF Window, PromptLineFaithful, AtPrompt
<1> QED BY <1>2, <1>3 DEF Window

\* The command clear blanks the window.
LEMMA WindowCleared ==
  ASSUME Window, DOMAIN term \subseteq DOMAIN term', screen' = [y \in Rows |-> [x \in Columns |-> Blank]],
         term'[W].x = term[W].x, term'[W].linebuf = term[W].linebuf, term'[W].history = term[W].history,
         exec'[W].ops # <<>>, \A u \in DOMAIN term' : Busy(u, "half")' => u \in DOMAIN term /\ exec'[u] = exec[u]
  PROVE  Window'
<1>1. \A u \in DOMAIN term' : Busy(u, "half")' => u \in DOMAIN term /\ Busy(u, "half") /\ At(u)' = At(u)
  BY DEF Busy, At
<1>2. \A u \in DOMAIN term' : Busy(u, "half")' =>
        /\ Fits(term'[W].x, At(u)'.s[1]) /\ exec'[W].ops # <<>>
        /\ \A v \in DOMAIN term' : Busy(v, "half")' => v = u
  BY <1>1 DEF Window
<1>3. PromptLineFaithful'
  BY DEF PromptLineFaithful, AtPrompt
<1>4. \A y \in Rows, x \in Columns : screen'[y][x] = Blank
  OBVIOUS
<1> QED BY <1>2, <1>3, <1>4 DEF Window

\* After a step that is not a print, no character of the task is half printed.
LEMMA Pushed ==
  ASSUME NEW o \in Seq(Ops), o # <<>>, HalfFirst(o), NEW g \in Seq(Ops), NoHalf(g), NEW q, q = g \o Tail(o)
  PROVE  q \in Seq(Ops) /\ NoHalf(q) /\ HalfFirst(q) /\ (q # <<>> => q[1].op # "half") /\ Tail(o) \in Seq(Ops)
<1>1. Tail(o) \in Seq(Ops) /\ NoHalf(Tail(o))
  BY HeadTailProperties DEF HalfFirst
<1>2. PICK r : r = Tail(o)
  OBVIOUS
<1>3. q \in Seq(Ops) /\ NoHalf(q)
  BY <1>1, <1>2, NoHalfJoin
<1>4. q # <<>> => Len(q) \in Nat \ {0}
  BY <1>3, EmptySeq
<1>5. HalfFirst(q)
  <2>1. SUFFICES ASSUME q # <<>> PROVE NoHalf(Tail(q))
    BY DEF HalfFirst
  <2>2. Len(Tail(q)) = Len(q) - 1 /\ \A i \in 1 .. Len(Tail(q)) : Tail(q)[i] = q[i + 1]
    BY <1>3, <2>1, HeadTailProperties
  <2>3. ASSUME NEW i \in 1 .. Len(Tail(q)) PROVE Tail(q)[i].op # "half"
    <3>1. i + 1 \in 1 .. Len(q) /\ Tail(q)[i] = q[i + 1]
      BY <1>4, <2>1, <2>2
    <3> QED BY <1>3, <3>1 DEF NoHalf
  <2> QED BY <2>3 DEF NoHalf
<1>6. q # <<>> => q[1].op # "half"
  <2>1. SUFFICES ASSUME q # <<>> PROVE q[1].op # "half"
    OBVIOUS
  <2>2. 1 \in 1 .. Len(q)
    BY <1>4, <2>1
  <2> QED BY <1>3, <2>2 DEF NoHalf
<1> QED BY <1>1, <1>3, <1>5, <1>6

\* A sequence put before another that is not empty is not empty.
LEMMA JoinNotEmpty ==
  ASSUME NEW g \in Seq(Ops), NEW h \in Seq(Ops), h # <<>>
  PROVE  g \o h # <<>>
<1>1. Len(g \o h) = Len(g) + Len(h) /\ Len(g) \in Nat /\ Len(h) \in Nat \ {0}
  BY ConcatProperties, EmptySeq, LenProperties
<1>2. Len(g \o h) # 0
  BY <1>1
<1> QED BY <1>2

\* The prompt is still to come after any other step of W.
LEMMA PromptLeft ==
  ASSUME NEW s, NEW f, NEW b, Split(W, s, f, b), exec[W].ops # <<>>, At(W).op \notin {"chr", "half"}
  PROVE  Tail(exec[W].ops) # <<>>
<1>1. CASE f # <<>>
  <2>1. s \in {"close", "end", "fin"} /\ Tail(f) \in Seq(BodyOps) /\ Tail(exec[W].ops) = Tail(f) \o b
    <3>1. PICK t : t = W
      OBVIOUS
    <3>2. Split(t, s, f, b)
      BY <3>1
    <3>3. s \in {"close", "end", "fin"} /\ Tail(f) \in Seq(BodyOps) /\ Tail(exec[t].ops) = Tail(f) \o b
      <4>1. InBody(t, s, f, b)
        BY <1>1, <3>2, SplitBody
      <4> QED BY <4>1 DEF InBody
    <3> QED BY <3>1, <3>3
  <2>2. Stage(W, s, b, exec[W].sub) /\ b \in Seq(Ops)
    BY Zenon DEF Split
  <2>3. b # <<>>
    <3>1. CASE s = "close"
      <4>1. \E p, q, r : b = <<p, q, r, Fin(W)>>
        BY <2>2, <3>1 DEF Stage
      <4> QED BY <4>1, Tails
    <3>2. CASE s = "end"
      <4>1. \E p : b = <<p, Fin(W)>>
        BY <2>2, <3>2 DEF Stage
      <4> QED BY <4>1, Tails
    <3>3. CASE s = "fin"
      <4>1. b = <<Fin(W)>>
        BY <2>2, <3>3 DEF Stage
      <4> QED BY <4>1, Tails
    <3> QED BY <2>1, <3>1, <3>2, <3>3
  <2>4. PICK h \in Seq(Ops) : h = Tail(f)
    BY <2>1, BodyOpsAre, SeqMonotonic
  <2>5. h \o b # <<>>
    BY <2>2, <2>3, <2>4, JoinNotEmpty
  <2> QED BY <2>1, <2>4, <2>5
<1>2. CASE f = <<>>
  <2>1. Split(W, s, <<>>, b)
    BY <1>2
  <2>2. exec[W].ops = b /\ b # <<>> /\ s \in {"line", "fork", "route", "command", "close", "wait", "end"}
    <3>1. exec[W].ops = b
      BY <2>1, SplitLine
    <3>2. \/ s \in {"line", "fork", "route", "command", "close", "wait", "end"} /\ At(W).op = s
          \/ s = "fin" /\ b = <<Fin(W)>> /\ At(W) = Fin(W)
          \/ s = "prompt" /\ W = W /\ At(W) = Op("half", W, <<">">>)
          \/ s = "over" /\ W # W /\ At(W) = Op("done", 0, <<>>)
      BY <2>1, <3>1, SplitLine
    <3>3. Fin(W).op = "chr" /\ Op("half", W, <<">">>).op = "half"
      BY OpFields DEF Fin
    <3> QED BY <3>1, <3>2, <3>3
  <2>3. Stage(W, s, b, exec[W].sub)
    BY DEF Split
  <2>4. CASE s \in {"line", "command", "end"}
    <3>1. \E p : b = <<p, Fin(W)>>
      BY <2>3, <2>4 DEF Stage
    <3> QED BY <2>2, <3>1, Tails
  <2>5. CASE s \in {"fork", "route", "wait"}
    <3>1. \E p, q : b = <<p, q, Fin(W)>>
      BY <2>3, <2>5 DEF Stage
    <3> QED BY <2>2, <3>1, Tails
  <2>6. CASE s = "close"
    <3>1. \E p, q, r : b = <<p, q, r, Fin(W)>>
      BY <2>3, <2>6 DEF Stage
    <3> QED BY <2>2, <3>1, Tails
  <2> QED BY <2>2, <2>4, <2>5, <2>6
<1> QED BY <1>1, <1>2

\* A step that does not print keeps the invariant if the task that steps is at a
\* stage after it, and so are the tasks it made.
LEMMA QuietStep ==
  ASSUME TerminalInv, NEW t \in DOMAIN term, exec[t].ops # <<>>, At(t).op \notin {"chr", "half"},
         NEW n \in Tasks, DOMAIN term' = 1 .. n, DOMAIN term \subseteq 1 .. n,
         term' \in [1 .. n -> Terminals], exec' \in [1 .. n -> Execs],
         \A u \in 1 .. n : exec'[u].sub \in {0} \cup 1 .. n,
         \A u \in DOMAIN term \ {t} : term'[u] = term[u] /\ exec'[u] = exec[u],
         NEW g \in Seq(Ops), NoHalf(g), exec'[t].ops = g \o Tail(exec[t].ops),
         term'[t].show = term[t].show,
         t = W => /\ term'[W].layer = WLayer
                  /\ term'[W].files[1] = Term(W) /\ term'[W].files[3] = Term(W)
                  /\ term'[W].x = term[W].x
                  /\ term'[W].linebuf = term[W].linebuf /\ term'[W].history = term[W].history,
         \/ screen' = screen /\ (t = W => term'[W].y = term[W].y)
         \/ t = W /\ screen' = [y \in Rows |-> [x \in Columns |-> Blank]],
         column' = column, disturbed' = disturbed,
         DOMAIN queue' \subseteq 1 .. n, queue' \in [DOMAIN queue' -> Seq(Messages)],
         DOMAIN queue \ {t} \subseteq DOMAIN queue', W \in DOMAIN queue',
         WLayer \in DOMAIN layer_task_map', layer_task_map' = [l \in DOMAIN layer_task_map' |-> layer_task_map'[l]],
         \A u \in (1 .. n) \ DOMAIN term : Running(u)' /\ NoHalf(exec'[u].ops) /\ ~term'[u].show,
         Running(t)', t # W => (Keyboard => Keyboard')
  PROVE  TerminalInv'
<1>1. TypeInv /\ WTerminal /\ (\A u \in DOMAIN term : Running(u)) /\ (~disturbed => Window)
  BY DEF TerminalInv
<1>2. W \in DOMAIN term /\ exec[t].ops \in Seq(Ops) /\ exec \in [DOMAIN term -> Execs]
  <2>1. W \in DOMAIN term
    BY <1>1 DEF TypeInv, Tasks, W
  <2>2. exec \in [DOMAIN term -> Execs]
    BY <1>1 DEF TypeInv
  <2>3. exec[t] \in Execs
    BY <2>2
  <2> QED BY <2>1, <2>2, <2>3 DEF Execs
<1>3. /\ exec'[t].ops \in Seq(Ops) /\ NoHalf(exec'[t].ops) /\ (exec'[t].ops # <<>> => exec'[t].ops[1].op # "half")
      /\ Tail(exec[t].ops) \in Seq(Ops)
  <2>1. HalfFirst(exec[t].ops)
    BY <1>1 DEF Running
  <2> QED BY <1>2, <2>1, Pushed
<1>4. TypeInv'
  <2>1. \A u \in DOMAIN term' : exec'[u].sub \in {0} \cup DOMAIN term'
    OBVIOUS
  <2>2. disturbed' \in BOOLEAN /\ screen' \in [Rows -> [Columns -> Symbols]]
    <3>1. disturbed \in BOOLEAN /\ screen \in [Rows -> [Columns -> Symbols]]
      BY <1>1 DEF TypeInv
    <3>2. [y \in Rows |-> [x \in Columns |-> Blank]] \in [Rows -> [Columns -> Symbols]]
      BY SymbolsAre
    <3> QED BY <3>1, <3>2
  <2> QED BY <2>1, <2>2 DEF TypeInv
<1>5. WTerminal'
  <2>1. /\ term[W].show /\ term[W].layer = WLayer
        /\ term[W].files[1] = Term(W) /\ term[W].files[3] = Term(W)
        /\ \A u \in DOMAIN term \ {W} : ~term[u].show
    BY <1>1 DEF WTerminal
  <2>2. term'[W].show /\ term'[W].layer = WLayer /\ term'[W].files[1] = Term(W) /\ term'[W].files[3] = Term(W)
    BY <1>2, <2>1
  <2>3. ASSUME NEW u \in DOMAIN term' \ {W} PROVE ~term'[u].show
    <3>1. CASE u \in DOMAIN term
      BY <2>1, <2>3, <3>1
    <3>2. CASE u \notin DOMAIN term
      BY <2>3, <3>2
    <3> QED BY <3>1, <3>2
  <2> QED BY <2>2, <2>3 DEF WTerminal
<1>6. ASSUME NEW u \in DOMAIN term' PROVE Running(u)'
  <2>1. CASE u = t
    BY <2>1
  <2>2. CASE u \notin DOMAIN term
    BY <1>6, <2>2
  <2>3. CASE u \in DOMAIN term /\ u # t
    <3>1. Running(u) /\ exec'[u] = exec[u] /\ term'[u] = term[u]
      BY <1>1, <2>3
    <3>2. u # W => term'[u].layer = term[u].layer /\ (u \in DOMAIN queue => u \in DOMAIN queue')
      BY <2>3, <3>1
    <3>3. u = W => /\ Keyboard => Keyboard'
                   /\ term'[W].files[2] = term[W].files[2] /\ term'[W].linebuf = term[W].linebuf
                   /\ ~disturbed' /\ Busy(W, "half") => ~disturbed /\ column' = column /\ term'[W].x = term[W].x
      BY <2>3, <3>1
    <3> QED BY <3>1, <3>2, <3>3, OtherRuns
  <2> QED BY <2>1, <2>2, <2>3
<1>7. ASSUME ~disturbed' PROVE Window'
  <2>1. Window
    BY <1>1, <1>7
  <2>2. (exec'[W].ops = <<>>) <=> (exec[W].ops = <<>>)
    <3>1. CASE t # W
      BY <1>2, <3>1
    <3>2. CASE t = W
      <4>1. PICK s, f, b : Split(W, s, f, b)
        BY <1>1, <1>2 DEF Running
      <4>2. Tail(exec[W].ops) # <<>>
        BY <3>2, <4>1, PromptLeft
      <4>3. exec'[W].ops # <<>>
        BY <1>3, <3>2, <4>2, JoinNotEmpty
      <4> QED BY <3>2, <4>3
    <3> QED BY <3>1, <3>2
  <2>3. ASSUME NEW u \in DOMAIN term', Busy(u, "half")' PROVE u \in DOMAIN term /\ exec'[u] = exec[u]
    <3>1. exec'[u].ops # <<>> /\ exec'[u].ops[1].op = "half"
      BY <2>3 DEF Busy, At
    <3>2. u # t
      BY <1>3, <3>1
    <3>3. u \in DOMAIN term
      <4>1. SUFFICES ASSUME u \notin DOMAIN term PROVE FALSE
        OBVIOUS
      <4>2. NoHalf(exec'[u].ops) /\ exec'[u] \in Execs
        BY <2>3, <4>1
      <4>3. exec'[u].ops \in Seq(Ops)
        BY <4>2 DEF Execs
      <4>4. 1 \in 1 .. Len(exec'[u].ops)
        BY <3>1, <4>3, EmptySeq
      <4> QED BY <3>1, <4>2, <4>4 DEF NoHalf
    <3> QED BY <3>2, <3>3
  <2>4. term'[W].x = term[W].x /\ term'[W].linebuf = term[W].linebuf /\ term'[W].history = term[W].history
    BY <1>2
  <2>5. CASE screen' = screen /\ (t = W => term'[W].y = term[W].y)
    <3>1. term'[W].y = term[W].y
      BY <1>2, <2>5
    <3> QED BY <1>2, <2>1, <2>2, <2>3, <2>4, <2>5, <3>1, WindowKept
  <2>6. CASE t = W /\ screen' = [y \in Rows |-> [x \in Columns |-> Blank]]
    <3>1. exec'[W].ops # <<>>
      BY <2>2, <2>6
    <3> QED BY <1>2, <2>1, <2>3, <2>4, <2>6, <3>1, WindowCleared
  <2> QED BY <2>5, <2>6
<1> QED BY <1>4, <1>5, <1>6, <1>7 DEF TerminalInv

\* What the invariant says of a task.
LEMMA TaskFacts ==
  ASSUME TerminalInv, NEW t \in DOMAIN term
  PROVE  /\ term[t] \in Terminals /\ exec[t] \in Execs /\ exec[t].ops \in Seq(Ops) /\ exec[t].sub \in {0} \cup DOMAIN term
         /\ Running(t) /\ W \in DOMAIN term /\ W \in DOMAIN queue /\ t \in Tasks /\ 0 \notin DOMAIN term
         /\ DOMAIN queue \subseteq DOMAIN term /\ queue \in [DOMAIN queue -> Seq(Messages)]
         /\ term \in [DOMAIN term -> Terminals] /\ exec \in [DOMAIN term -> Execs]
         /\ WLayer \in DOMAIN layer_task_map
         /\ layer_task_map = [l \in DOMAIN layer_task_map |-> layer_task_map[l]]
<1>1. TypeInv /\ WTerminal /\ Running(t)
  BY DEF TerminalInv
<1>2. PICK n \in Tasks : DOMAIN term = 1 .. n
  BY <1>1 DEF TypeInv
<1>3. W \in DOMAIN term /\ t \in Tasks /\ 0 \notin DOMAIN term
  BY <1>2, TerminalAssumption DEF Tasks, W
<1>4. /\ term \in [DOMAIN term -> Terminals] /\ exec \in [DOMAIN term -> Execs]
      /\ exec[t].sub \in {0} \cup DOMAIN term
      /\ DOMAIN queue \subseteq DOMAIN term /\ queue \in [DOMAIN queue -> Seq(Messages)]
      /\ WLayer \in DOMAIN layer_task_map
      /\ layer_task_map = [l \in DOMAIN layer_task_map |-> layer_task_map[l]]
  BY <1>1 DEF TypeInv
<1>5. term[t] \in Terminals /\ exec[t] \in Execs
  BY <1>4
<1>6. exec[t].ops \in Seq(Ops)
  BY <1>5 DEF Execs
<1>7. W \in DOMAIN queue
  BY <1>1 DEF WTerminal
<1> QED BY <1>1, <1>3, <1>4, <1>5, <1>6, <1>7

\* A step of a task that changes no terminal and starts none.
LEMMA QuietSame ==
  ASSUME TerminalInv, NEW t \in DOMAIN term, exec[t].ops # <<>>, At(t).op \notin {"chr", "half"},
         exec' \in [DOMAIN term -> Execs], exec'[t].sub \in {0} \cup DOMAIN term,
         \A u \in DOMAIN term \ {t} : exec'[u] = exec[u],
         NEW g \in Seq(Ops), NoHalf(g), exec'[t].ops = g \o Tail(exec[t].ops),
         UNCHANGED <<term, screen, column, disturbed>>,
         DOMAIN queue' \subseteq DOMAIN term, queue' \in [DOMAIN queue' -> Seq(Messages)],
         DOMAIN queue \ {t} \subseteq DOMAIN queue', W \in DOMAIN queue',
         DOMAIN layer_task_map' = DOMAIN layer_task_map,
         layer_task_map' = [l \in DOMAIN layer_task_map' |-> layer_task_map'[l]],
         Running(t)', t # W => (Keyboard => Keyboard')
  PROVE  TerminalInv'
<1>1. TypeInv /\ WTerminal
  BY DEF TerminalInv
<1>2. PICK n \in Tasks : DOMAIN term = 1 .. n
  BY <1>1 DEF TypeInv
<1>3. /\ term \in [1 .. n -> Terminals] /\ WLayer \in DOMAIN layer_task_map
      /\ \A u \in 1 .. n : exec[u].sub \in {0} \cup 1 .. n
  BY <1>1, <1>2 DEF TypeInv
<1>4. term[W].layer = WLayer /\ term[W].files[1] = Term(W) /\ term[W].files[3] = Term(W)
  BY <1>1 DEF WTerminal
<1>5. \A u \in 1 .. n : exec'[u].sub \in {0} \cup 1 .. n
  BY <1>2, <1>3
<1> QED BY <1>2, <1>3, <1>4, <1>5, QuietStep

\* A step of a command that runs.
LEMMA BodyStep ==
  ASSUME TerminalInv, NEW t \in DOMAIN term, exec[t].ops # <<>>, At(t).op \in {"put", "read"},
         exec' \in [DOMAIN term -> Execs], exec'[t].sub = exec[t].sub, exec'[t].stdout = exec[t].stdout,
         \A u \in DOMAIN term \ {t} : exec'[u] = exec[u],
         NEW g \in Seq(BodyOps), NoHalf(g), exec'[t].ops = g \o Tail(exec[t].ops),
         UNCHANGED <<term, screen, column, disturbed, layer_task_map>>,
         DOMAIN queue' = DOMAIN queue, queue' \in [DOMAIN queue -> Seq(Messages)]
  PROVE  TerminalInv'
<1>1. /\ exec[t].ops \in Seq(Ops) /\ exec[t].sub \in {0} \cup DOMAIN term
      /\ Running(t) /\ W \in DOMAIN term /\ W \in DOMAIN queue /\ DOMAIN queue \subseteq DOMAIN term
      /\ layer_task_map = [l \in DOMAIN layer_task_map |-> layer_task_map[l]]
  BY TaskFacts
<1>2. PICK s, f, b : Split(t, s, f, b)
  BY <1>1 DEF Running
<1>3. f # <<>>
  <2>1. SUFFICES ASSUME f = <<>> PROVE FALSE
    OBVIOUS
  <2>2. Split(t, s, <<>>, b)
    BY <1>2, <2>1
  <2>3. \/ At(t).op \in {"line", "fork", "route", "command", "close", "wait", "end"}
        \/ At(t) = Fin(t) \/ At(t) = Op("half", W, <<">">>) \/ At(t) = Op("done", 0, <<>>)
    BY <2>2, SplitLine
  <2>4. Fin(t).op \in {"chr", "exit"}
    BY OpFields DEF Fin
  <2> QED BY <2>3, <2>4, OpFields
<1>4. g \in Seq(Ops)
  BY BodyOpsAre, SeqMonotonic
<1>5. Keyboard => Keyboard'
  BY KeyboardKept
<1>6. HalfFirst(exec'[t].ops)
  BY <1>1, <1>4, Pushed DEF Running
<1>7. Running(t)'
  BY <1>2, <1>3, <1>5, <1>6, BodyRuns
<1>8. At(t).op \notin {"chr", "half"}
  OBVIOUS
<1> QED BY <1>1, <1>4, <1>5, <1>7, <1>8, QuietSame

-----------------------------------------------------------------------------
(***************************************************************************)
(* The commands                                                            *)
(***************************************************************************)

\* The task goes on with other operations.
LEMMA GoesIs ==
  ASSUME TerminalInv, NEW t \in DOMAIN term, exec[t].ops # <<>>, NEW g \in Seq(Ops), NEW e, e = Goes(t, g)
  PROVE  /\ e \in [DOMAIN term -> Execs] /\ \A u \in DOMAIN term \ {t} : e[u] = exec[u]
         /\ e[t].ops = g \o Tail(exec[t].ops) /\ e[t].sub = exec[t].sub /\ e[t].stdout = exec[t].stdout
         /\ e[t].code = exec[t].code /\ e[t].acc = exec[t].acc /\ e[t].eof = exec[t].eof
<1>1. exec \in [DOMAIN term -> Execs] /\ exec[t] \in Execs /\ exec[t].ops \in Seq(Ops)
  BY TaskFacts
<1>2. PICK o : o = g \o Tail(exec[t].ops)
  OBVIOUS
<1>3. o \in Seq(Ops)
  <2>1. Tail(exec[t].ops) \in Seq(Ops)
    BY <1>1, HeadTailProperties
  <2> QED BY <1>2, <2>1, ConcatProperties
<1>4. e = [exec EXCEPT ![t] = [exec[t] EXCEPT !.ops = o]]
  BY <1>1, <1>2 DEF Goes
<1>5. PICK v : v = [exec[t] EXCEPT !.ops = o]
  OBVIOUS
<1>6. v \in Execs /\ v.ops = o /\ v.sub = exec[t].sub /\ v.stdout = exec[t].stdout
      /\ v.code = exec[t].code /\ v.acc = exec[t].acc /\ v.eof = exec[t].eof
  BY <1>1, <1>3, <1>5 DEF Execs
<1> QED BY <1>1, <1>2, <1>4, <1>5, <1>6

\* The next operation of a task.
LEMMA NextOp ==
  ASSUME TerminalInv, NEW t \in DOMAIN term, exec[t].ops # <<>>
  PROVE  /\ At(t) \in Ops
         /\ At(t).op = "put" => At(t).n \in {2, 3} /\ At(t).s \in Texts
         /\ At(t).op \in {"chr", "half"} => At(t).n = W /\ \E c \in Symbols : At(t).s = <<c>>
<1>1. exec[t].ops \in Seq(Ops)
  BY TaskFacts
<1>2. At(t) \in Ops
  BY <1>1, EmptySeq, ElementOfSeq DEF At
<1>3. \A o \in Ops : o.op = "put" => o.n \in {2, 3} /\ o.s \in Texts
  BY DEF Ops, BodyOps
<1>4. \A o \in Ops : o.op \in {"chr", "half"} => o.n = W /\ \E c \in Symbols : o.s = <<c>>
  BY DEF Ops, BodyOps
<1> QED BY <1>2, <1>3, <1>4

\* PrintToFD
LEMMA PutKeeps ==
  ASSUME TerminalInv, NEW t \in DOMAIN term, Put(t)
  PROVE  TerminalInv'
<1>1. exec[t].ops # <<>> /\ At(t).op = "put" /\ UNCHANGED <<term, screen, layer_task_map, files, typed, column, disturbed>>
  BY DEF Put, Busy
<1>2. At(t).n \in {2, 3} /\ At(t).s \in Texts
  BY <1>1, NextOp
<1>3. PICK fd, s : fd = term[t].files[At(t).n] /\ s = At(t).s
  OBVIOUS
<1>4. fd \in Fds /\ s \in Texts
  <2>1. term[t] \in Terminals
    BY TaskFacts
  <2>2. term[t].files \in [1 .. 3 -> Fds]
    BY <2>1 DEF Terminals
  <2> QED BY <1>2, <1>3, <2>2
<1>5. \/ fd[1] = "term" /\ exec' = Goes(t, Chars(fd[2], s)) /\ UNCHANGED queue
      \/ fd[1] = "file" /\ exec' = Goes(t, <<>>) /\ UNCHANGED queue
      \/ fd[1] = "pipe" /\ exec' = Goes(t, <<>>)
         /\ queue' = IF fd[2] \in DOMAIN queue
                     THEN [queue EXCEPT ![fd[2]] = @ \o [i \in DOMAIN s |-> PipeMsg(s[i])]] ELSE queue
  BY <1>3 DEF Put
<1>6. DOMAIN queue' = DOMAIN queue /\ queue' \in [DOMAIN queue -> Seq(Messages)]
  <2>1. queue \in [DOMAIN queue -> Seq(Messages)]
    BY TaskFacts
  <2>2. CASE queue' = queue
    BY <2>1, <2>2
  <2>3. CASE fd[2] \in DOMAIN queue /\ queue' = [queue EXCEPT ![fd[2]] = @ \o [i \in DOMAIN s |-> PipeMsg(s[i])]]
    <3>1. PICK m : m = [i \in DOMAIN s |-> PipeMsg(s[i])]
      OBVIOUS
    <3>2. m \in Seq(Messages)
      <4>1. Len(s) \in Nat /\ DOMAIN s = 1 .. Len(s) /\ \A i \in 1 .. Len(s) : s[i] \in Symbols
        BY <1>4, LenProperties, ElementOfSeq DEF Texts
      <4>2. \A i \in 1 .. Len(s) : PipeMsg(s[i]) \in Messages
        BY <4>1 DEF PipeMsg, Messages
      <4> QED BY <3>1, <4>1, <4>2, IsASeq
    <3>3. queue[fd[2]] \o m \in Seq(Messages)
      BY <2>1, <2>3, <3>2, ConcatProperties
    <3> QED BY <2>1, <2>3, <3>1, <3>3
  <2> QED BY <1>5, <2>2, <2>3
<1>7. PICK g : g \in Seq(BodyOps) /\ NoHalf(g) /\ exec' = Goes(t, g)
  <2>1. CASE fd[1] = "term" /\ exec' = Goes(t, Chars(fd[2], s))
    <3>1. fd[2] = W
      BY <1>4, <2>1 DEF Fds, Term, PipeTo, File
    <3> QED BY <1>4, <2>1, <3>1, CharsAre
  <2>2. CASE exec' = Goes(t, <<>>)
    <3>1. <<>> \in Seq(BodyOps) /\ NoHalf(<<>>)
      BY DEF NoHalf
    <3> QED BY <2>2, <3>1
  <2> QED BY <1>5, <2>1, <2>2
<1>8. g \in Seq(Ops)
  BY <1>7, BodyOpsAre, SeqMonotonic
<1>9. /\ exec' \in [DOMAIN term -> Execs] /\ \A u \in DOMAIN term \ {t} : exec'[u] = exec[u]
      /\ exec'[t].ops = g \o Tail(exec[t].ops) /\ exec'[t].sub = exec[t].sub /\ exec'[t].stdout = exec[t].stdout
  BY <1>1, <1>7, <1>8, GoesIs
<1> QED BY <1>1, <1>6, <1>7, <1>9, BodyStep

\* The task goes on with more of its command.
GoesOn(t, e) ==
  \E g \in Seq(BodyOps) :
    /\ NoHalf(g) /\ e \in [DOMAIN term -> Execs] /\ \A u \in DOMAIN term \ {t} : e[u] = exec[u]
    /\ e[t].ops = g \o Tail(exec[t].ops) /\ e[t].sub = exec[t].sub /\ e[t].stdout = exec[t].stdout

\* Operations of a command put together.
LEMMA BodyJoin ==
  ASSUME NEW g \in Seq(BodyOps), NEW h \in Seq(BodyOps), NoHalf(g), NoHalf(h)
  PROVE  g \o h \in Seq(BodyOps) /\ NoHalf(g \o h)
<1>1. g \in Seq(Ops) /\ h \in Seq(Ops)
  BY BodyOpsAre, SeqMonotonic
<1> QED BY <1>1, NoHalfJoin, ConcatProperties

\* Short outputs.
LEMMA BodiesAre ==
  /\ <<>> \in Seq(BodyOps) /\ NoHalf(<<>>)
  /\ \A s \in Texts : Out(s) \in Seq(BodyOps) /\ NoHalf(Out(s))
  /\ \A c \in Symbols : Err(c) \in Seq(BodyOps) /\ NoHalf(Err(c))
  /\ <<Op("read", 0, <<>>)>> \in Seq(BodyOps) /\ NoHalf(<<Op("read", 0, <<>>)>>)
<1>1. <<>> \in Seq(BodyOps) /\ NoHalf(<<>>)
  BY DEF NoHalf
<1>2. ASSUME NEW o \in BodyOps, o.op # "half" PROVE <<o>> \in Seq(BodyOps) /\ NoHalf(<<o>>)
  BY <1>2 DEF NoHalf
<1>3. ASSUME NEW s \in Texts PROVE Out(s) \in Seq(BodyOps) /\ NoHalf(Out(s))
  <2>1. Op("put", 2, s) \in BodyOps /\ Op("put", 2, s).op # "half"
    BY BodyOpsAre, OpFields
  <2> QED BY <1>2, <2>1 DEF Out
<1>4. ASSUME NEW c \in Symbols PROVE Err(c) \in Seq(BodyOps) /\ NoHalf(Err(c))
  <2>1. <<c, "\n">> \in Texts
    BY TextsAre, SymbolsAre
  <2>2. Op("put", 3, <<c, "\n">>) \in BodyOps /\ Op("put", 3, <<c, "\n">>).op # "half"
    BY <2>1, BodyOpsAre, OpFields
  <2> QED BY <1>2, <2>2 DEF Err
<1>5. <<Op("read", 0, <<>>)>> \in Seq(BodyOps) /\ NoHalf(<<Op("read", 0, <<>>)>>)
  BY <1>2, BodyOpsAre, OpFields
<1> QED BY <1>1, <1>3, <1>4, <1>5

\* The fields that reading changes.
LEMMA ReadFields ==
  ASSUME TerminalInv, NEW t \in DOMAIN term, exec[t].ops # <<>>, NEW g \in Seq(BodyOps), NoHalf(g),
         NEW a \in Texts, NEW z \in BOOLEAN, NEW o, o = g \o Tail(exec[t].ops),
         NEW e, e = [exec EXCEPT ![t] = [exec[t] EXCEPT !.ops = o, !.acc = a, !.eof = z]]
  PROVE  GoesOn(t, e)
<1>1. exec \in [DOMAIN term -> Execs] /\ exec[t] \in Execs /\ exec[t].ops \in Seq(Ops)
  BY TaskFacts
<1>2. o \in Seq(Ops)
  <2>1. Tail(exec[t].ops) \in Seq(Ops) /\ g \in Seq(Ops)
    BY <1>1, HeadTailProperties, BodyOpsAre, SeqMonotonic
  <2> QED BY <2>1, ConcatProperties
<1>3. PICK v : v = [exec[t] EXCEPT !.ops = o, !.acc = a, !.eof = z]
  OBVIOUS
<1>4. v \in Execs /\ v.ops = o /\ v.sub = exec[t].sub /\ v.stdout = exec[t].stdout
  BY <1>1, <1>2, <1>3 DEF Execs
<1>5. e \in [DOMAIN term -> Execs] /\ (\A u \in DOMAIN term \ {t} : e[u] = exec[u]) /\ e[t] = v
  BY <1>1, <1>3, <1>4
<1> QED BY <1>4, <1>5 DEF GoesOn

\* ReadDelim takes a character.
LEMMA CollectIs ==
  ASSUME TerminalInv, NEW t \in DOMAIN term, exec[t].ops # <<>>, NEW echo \in Seq(BodyOps), NoHalf(echo), NEW c \in Symbols
  PROVE  GoesOn(t, Collect(t, echo, c))
<1>1. exec \in [DOMAIN term -> Execs] /\ exec[t] \in Execs
  BY TaskFacts
<1>2. PICK acc \in Texts : acc = Append(exec[t].acc, c)
  <2>1. exec[t].acc \in Texts
    BY <1>1 DEF Execs
  <2> QED BY <2>1, TextsAre
<1>3. PICK x, r : x = (IF c = "\n" THEN Out(acc) ELSE <<>>) /\ r = <<Op("read", 0, <<>>)>>
  OBVIOUS
<1>4. x \in Seq(BodyOps) /\ NoHalf(x) /\ r \in Seq(BodyOps) /\ NoHalf(r)
  BY <1>3, BodiesAre
<1>5. PICK g : g = (echo \o x) \o r
  OBVIOUS
<1>6. g \in Seq(BodyOps) /\ NoHalf(g)
  <2>1. echo \o x \in Seq(BodyOps) /\ NoHalf(echo \o x)
    BY <1>4, BodyJoin
  <2> QED BY <1>4, <1>5, <2>1, BodyJoin
<1>7. PICK a \in Texts : a = IF c = "\n" THEN <<>> ELSE acc
  BY TextsAre
<1>8. PICK o : o = g \o Tail(exec[t].ops)
  OBVIOUS
<1>9. PICK z \in BOOLEAN : z = exec[t].eof
  BY <1>1 DEF Execs
<1>10. Collect(t, echo, c) = [exec EXCEPT ![t].ops = o, ![t].acc = a]
  BY <1>2, <1>3, <1>5, <1>7, <1>8 DEF Collect
<1>11. [exec EXCEPT ![t].ops = o, ![t].acc = a] = [exec EXCEPT ![t] = [exec[t] EXCEPT !.ops = o, !.acc = a, !.eof = z]]
  BY <1>1, <1>9 DEF Execs
<1> QED BY <1>6, <1>8, <1>10, <1>11, ReadFields, ZenonT(30)

\* ReadDelim sees the end.
LEMMA AtEofIs ==
  ASSUME TerminalInv, NEW t \in DOMAIN term, exec[t].ops # <<>>, NEW echo \in Seq(BodyOps), NoHalf(echo)
  PROVE  GoesOn(t, AtEof(t, echo)) /\ GoesOn(t, [AtEof(t, echo) EXCEPT ![t].eof = TRUE])
<1>1. exec \in [DOMAIN term -> Execs] /\ exec[t] \in Execs
  BY TaskFacts
<1>2. PICK acc \in Texts : acc = exec[t].acc
  BY <1>1 DEF Execs
<1>3. PICK x, y : y = Out(acc) \o <<Op("read", 0, <<>>)>> /\ x = (IF acc = <<>> THEN <<>> ELSE y)
  OBVIOUS
<1>4. x \in Seq(BodyOps) /\ NoHalf(x)
  <2>1. PICK r : r = <<Op("read", 0, <<>>)>>
    OBVIOUS
  <2>2. Out(acc) \in Seq(BodyOps) /\ NoHalf(Out(acc)) /\ r \in Seq(BodyOps) /\ NoHalf(r)
    BY <2>1, BodiesAre
  <2>3. y \in Seq(BodyOps) /\ NoHalf(y)
    BY <1>3, <2>1, <2>2, BodyJoin
  <2> QED BY <1>3, <2>3, BodiesAre
<1>5. PICK g : g = echo \o x
  OBVIOUS
<1>6. g \in Seq(BodyOps) /\ NoHalf(g)
  BY <1>4, <1>5, BodyJoin
<1>7. PICK a \in Texts : a = <<>>
  BY TextsAre
<1>8. PICK o : o = g \o Tail(exec[t].ops)
  OBVIOUS
<1>9. PICK z \in BOOLEAN : z = exec[t].eof
  BY <1>1 DEF Execs
<1>10. AtEof(t, echo) = [exec EXCEPT ![t].ops = o, ![t].acc = a]
  BY <1>2, <1>3, <1>5, <1>7, <1>8 DEF AtEof
<1>11. [exec EXCEPT ![t].ops = o, ![t].acc = a] = [exec EXCEPT ![t] = [exec[t] EXCEPT !.ops = o, !.acc = a, !.eof = z]]
  BY <1>1, <1>9 DEF Execs
<1>12. [[exec EXCEPT ![t].ops = o, ![t].acc = a] EXCEPT ![t].eof = TRUE]
         = [exec EXCEPT ![t] = [exec[t] EXCEPT !.ops = o, !.acc = a, !.eof = TRUE]]
  BY <1>1 DEF Execs
<1>13. GoesOn(t, AtEof(t, echo))
  BY <1>6, <1>8, <1>10, <1>11, ReadFields, ZenonT(30)
<1>14. GoesOn(t, [AtEof(t, echo) EXCEPT ![t].eof = TRUE])
  <2>1. PICK y1, e : y1 = TRUE /\ e = [exec EXCEPT ![t] = [exec[t] EXCEPT !.ops = o, !.acc = a, !.eof = y1]]
    OBVIOUS
  <2>2. GoesOn(t, e)
    <3>1. y1 \in BOOLEAN
      BY <2>1
    <3> QED BY <1>6, <1>8, <2>1, <3>1, ReadFields
  <2>3. e = [AtEof(t, echo) EXCEPT ![t].eof = TRUE]
    BY <1>10, <1>12, <2>1, Zenon
  <2> QED BY <2>2, <2>3, Zenon
<1> QED BY <1>13, <1>14

\* A read keeps the invariant if the command goes on after it.
LEMMA ReadKeeps ==
  ASSUME TerminalInv, NEW t \in DOMAIN term, exec[t].ops # <<>>, At(t).op = "read",
         GoesOn(t, exec') \/ exec' = exec,
         UNCHANGED <<term, screen, layer_task_map, files, typed, column, disturbed>>,
         DOMAIN queue' = DOMAIN queue, queue' \in [DOMAIN queue -> Seq(Messages)]
  PROVE  TerminalInv'
<1>1. CASE GoesOn(t, exec')
  <2>1. PICK g \in Seq(BodyOps) :
          /\ NoHalf(g) /\ exec' \in [DOMAIN term -> Execs] /\ \A u \in DOMAIN term \ {t} : exec'[u] = exec[u]
          /\ exec'[t].ops = g \o Tail(exec[t].ops) /\ exec'[t].sub = exec[t].sub /\ exec'[t].stdout = exec[t].stdout
    BY <1>1 DEF GoesOn
  <2> QED BY <2>1, BodyStep
<1>2. CASE exec' = exec
  <2>1. PICK g : g = <<Op("read", 0, <<>>)>>
    OBVIOUS
  <2>2. g \in Seq(BodyOps) /\ NoHalf(g)
    BY <2>1, BodiesAre
  <2>3. exec \in [DOMAIN term -> Execs] /\ exec[t].ops \in Seq(Ops) /\ At(t) \in Ops
    BY TaskFacts, NextOp
  <2>4. At(t) = Op("read", 0, <<>>)
    BY <2>3 DEF Op, Ops, BodyOps
  <2>5. exec[t].ops = g \o Tail(exec[t].ops)
    <3>1. PICK o, r : o = exec[t].ops /\ r = Tail(o) /\ o \in Seq(Ops)
      BY <2>3
    <3>2. r \in Seq(Ops) /\ Len(r) = Len(o) - 1 /\ (\A i \in 1 .. Len(r) : r[i] = o[i + 1]) /\ Len(o) \in Nat \ {0}
      BY <3>1, HeadTailProperties, EmptySeq
    <3>3. g \in Seq(Ops) /\ Len(g) = 1 /\ g[1] = Op("read", 0, <<>>) /\ o[1] = g[1]
      <4>1. g \in Seq(Ops)
        BY <2>2, BodyOpsAre, SeqMonotonic
      <4> QED BY <2>1, <2>4, <3>1, <4>1 DEF At
    <3>4. Len(o) = Len(g) + Len(r) /\ (\A i \in 1 .. Len(g) : o[i] = g[i]) /\ (\A i \in 1 .. Len(r) : o[Len(g) + i] = r[i])
      <4>1. Len(g) = 1 /\ o[1] = g[1]
        BY <3>3
      <4>2. Len(r) = Len(o) - 1 /\ (\A i \in 1 .. Len(r) : r[i] = o[i + 1]) /\ Len(o) \in Nat \ {0}
        BY <3>2
      <4>3. \A i \in 1 .. Len(g) : o[i] = g[i]
        BY <4>1
      <4>4. \A i \in 1 .. Len(r) : o[1 + i] = r[i]
        BY <4>2
      <4> QED BY <4>1, <4>2, <4>3, <4>4
    <3>5. g \o r = o
      <4>1. o \in Seq(Ops)
        BY <3>1
      <4> QED BY <3>2, <3>3, <3>4, <4>1, ConcatIs, Zenon
    <3> QED BY <3>1, <3>5
  <2> QED BY <1>2, <2>2, <2>3, <2>5, BodyStep
<1> QED BY <1>1, <1>2

\* The next message of a task.
LEMMA NextMessage ==
  ASSUME TerminalInv, NEW t \in DOMAIN queue, queue[t] # <<>>
  PROVE  /\ Head(queue[t]) \in Messages /\ Head(queue[t]).c \in Symbols
         /\ [queue EXCEPT ![t] = Tail(@)] \in [DOMAIN queue -> Seq(Messages)]
<1>1. queue \in [DOMAIN queue -> Seq(Messages)]
  BY DEF TerminalInv, TypeInv
<1>2. Head(queue[t]) \in Messages /\ Tail(queue[t]) \in Seq(Messages)
  BY <1>1, HeadTailProperties
<1> QED BY <1>1, <1>2 DEF Messages

\* A task that reads has its queue.
LEMMA ReaderQueue ==
  ASSUME TerminalInv, NEW t \in DOMAIN term, exec[t].ops # <<>>, At(t).op \notin {"done"}
  PROVE  t \in DOMAIN queue
<1>1. Running(t) /\ W \in DOMAIN queue
  BY TaskFacts
<1>2. PICK s, f, b : Split(t, s, f, b)
  BY <1>1 DEF Running
<1>3. SUFFICES ASSUME t # W PROVE t \in DOMAIN queue
  BY <1>1
<1>4. AtStageOf(t, s)
  BY <1>2, <1>3 DEF Split
<1>5. s # "over"
  <2>1. SUFFICES ASSUME s = "over" PROVE FALSE
    OBVIOUS
  <2>2. f = <<>>
    BY <1>2, <2>1 DEF Split
  <2>3. Split(t, s, <<>>, b)
    BY <1>2, <2>2
  <2>4. exec[t].ops = b /\ At(t) = Op("done", 0, <<>>)
    BY <2>1, <2>3, SplitLine
  <2> QED BY <2>4, OpFields
<1> QED BY <1>4, <1>5 DEF AtStageOf

\* TerminalFileDescriptor::Read
LEMMA ReadKeyKeeps ==
  ASSUME TerminalInv, NEW t \in DOMAIN term, ReadKey(t)
  PROVE  TerminalInv'
<1>1. /\ exec[t].ops # <<>> /\ At(t).op = "read" /\ term[t].files[1] = Term(t) /\ queue[t] # <<>>
      /\ queue' = [queue EXCEPT ![t] = Tail(@)]
      /\ UNCHANGED <<term, screen, layer_task_map, files, typed, column, disturbed>>
  BY DEF ReadKey, Busy
<1>2. t = W
  <2>1. term[t] \in Terminals
    BY TaskFacts
  <2>2. term[t].files[1] \in Fds
    BY <2>1 DEF Terminals
  <2> QED BY <1>1, <2>2 DEF Fds, Term, PipeTo, File
<1>3. t \in DOMAIN queue
  BY <1>1, ReaderQueue
<1>4. PICK m : m = Head(queue[t])
  OBVIOUS
<1>5. m.c \in Symbols /\ queue' \in [DOMAIN queue -> Seq(Messages)]
  BY <1>1, <1>3, <1>4, NextMessage
<1>6. \/ exec' = exec \/ exec' = AtEof(t, Chars(t, <<"^D">>)) \/ exec' = Collect(t, Chars(t, <<m.c>>), m.c)
  BY <1>4 DEF ReadKey
<1>7. /\ Chars(t, <<"^D">>) \in Seq(BodyOps) /\ NoHalf(Chars(t, <<"^D">>))
      /\ Chars(t, <<m.c>>) \in Seq(BodyOps) /\ NoHalf(Chars(t, <<m.c>>))
  <2>1. <<"^D">> \in Texts /\ <<m.c>> \in Texts
    BY <1>5, SymbolsAre, TextsAre
  <2> QED BY <1>2, <2>1, CharsAre
<1>8. GoesOn(t, AtEof(t, Chars(t, <<"^D">>)))
  BY <1>1, <1>7, AtEofIs
<1>9. GoesOn(t, Collect(t, Chars(t, <<m.c>>), m.c))
  BY <1>1, <1>5, <1>7, CollectIs
<1>10. GoesOn(t, exec') \/ exec' = exec
  BY <1>6, <1>8, <1>9, Zenon
<1> QED BY <1>1, <1>5, <1>10, ReadKeeps

\* PipeDescriptor::Read
LEMMA ReadPipeKeeps ==
  ASSUME TerminalInv, NEW t \in DOMAIN term, ReadPipe(t)
  PROVE  TerminalInv'
<1>1. /\ exec[t].ops # <<>> /\ At(t).op = "read"
      /\ UNCHANGED <<term, screen, layer_task_map, files, typed, column, disturbed>>
  BY DEF ReadPipe, Busy
<1>2. t \in DOMAIN queue
  BY <1>1, ReaderQueue
<1>3. <<>> \in Seq(BodyOps) /\ NoHalf(<<>>)
  BY BodiesAre
<1>4. GoesOn(t, AtEof(t, <<>>)) /\ GoesOn(t, [AtEof(t, <<>>) EXCEPT ![t].eof = TRUE])
  BY <1>1, <1>3, AtEofIs
<1>5. CASE exec' = AtEof(t, <<>>) /\ UNCHANGED queue
  <2>1. queue \in [DOMAIN queue -> Seq(Messages)]
    BY TaskFacts
  <2>2. GoesOn(t, exec')
    BY <1>4, <1>5, Zenon
  <2> QED BY <1>1, <1>5, <2>1, <2>2, ReadKeeps
<1>6. CASE /\ queue[t] # <<>> /\ queue' = [queue EXCEPT ![t] = Tail(@)]
           /\ \/ exec' = exec \/ exec' = [AtEof(t, <<>>) EXCEPT ![t].eof = TRUE]
              \/ exec' = Collect(t, <<>>, Head(queue[t]).c)
  <2>1. Head(queue[t]).c \in Symbols /\ queue' \in [DOMAIN queue -> Seq(Messages)]
    BY <1>2, <1>6, NextMessage
  <2>2. GoesOn(t, Collect(t, <<>>, Head(queue[t]).c))
    BY <1>1, <1>3, <2>1, CollectIs
  <2>3. GoesOn(t, exec') \/ exec' = exec
    BY <1>4, <1>6, <2>2, Zenon
  <2>4. DOMAIN queue' = DOMAIN queue
    BY <2>1
  <2> QED BY <1>1, <2>1, <2>3, <2>4, ReadKeeps
<1>7. \/ exec' = AtEof(t, <<>>) /\ UNCHANGED queue
      \/ /\ queue[t] # <<>> /\ queue' = [queue EXCEPT ![t] = Tail(@)]
         /\ \/ exec' = exec \/ exec' = [AtEof(t, <<>>) EXCEPT ![t].eof = TRUE]
            \/ exec' = Collect(t, <<>>, Head(queue[t]).c)
  BY DEF ReadPipe
<1> QED BY <1>5, <1>6, <1>7

-----------------------------------------------------------------------------
(***************************************************************************)
(* The stages of ExecuteLine                                               *)
(***************************************************************************)

\* Short sequences of operations.
LEMMA ShortOps ==
  /\ \A p \in Ops : p.op # "half" => <<p>> \in Seq(Ops) /\ NoHalf(<<p>>)
  /\ \A p, q \in Ops : p.op # "half" /\ q.op # "half" => <<p, q>> \in Seq(Ops) /\ NoHalf(<<p, q>>)
  /\ \A p, q, r \in Ops : p.op # "half" /\ q.op # "half" /\ r.op # "half" => <<p, q, r>> \in Seq(Ops) /\ NoHalf(<<p, q, r>>)
  /\ \A p, q, r, u \in Ops : p.op # "half" /\ q.op # "half" /\ r.op # "half" /\ u.op # "half" =>
       <<p, q, r, u>> \in Seq(Ops) /\ NoHalf(<<p, q, r, u>>)
<1>1. ASSUME NEW p \in Ops, p.op # "half" PROVE <<p>> \in Seq(Ops) /\ NoHalf(<<p>>)
  BY <1>1 DEF NoHalf
<1>2. ASSUME NEW p \in Ops, NEW q \in Ops, p.op # "half", q.op # "half" PROVE <<p, q>> \in Seq(Ops) /\ NoHalf(<<p, q>>)
  BY <1>2 DEF NoHalf
<1>3. ASSUME NEW p \in Ops, NEW q \in Ops, NEW r \in Ops, p.op # "half", q.op # "half", r.op # "half"
      PROVE  <<p, q, r>> \in Seq(Ops) /\ NoHalf(<<p, q, r>>)
  BY <1>3 DEF NoHalf
<1>4. ASSUME NEW p \in Ops, NEW q \in Ops, NEW r \in Ops, NEW u \in Ops, p.op # "half", q.op # "half", r.op # "half", u.op # "half"
      PROVE  <<p, q, r, u>> \in Seq(Ops) /\ NoHalf(<<p, q, r, u>>)
  BY <1>4 DEF NoHalf
<1> QED BY <1>1, <1>2, <1>3, <1>4

\* The last operation of a line.
LEMMA FinIs == \A t : Fin(t) \in Ops /\ Fin(t).op \in {"chr", "exit"}
<1>1. \A t : Fin(t).op \in {"chr", "exit"}
  BY OpFields DEF Fin
<1> QED BY <1>1, LineOpsAre

\* Without half-printed characters there is none after the first operation.
LEMMA NoHalfFirst ==
  ASSUME NEW q \in Seq(Ops), NoHalf(q)
  PROVE  HalfFirst(q)
<1>1. SUFFICES ASSUME q # <<>> PROVE NoHalf(Tail(q))
  BY DEF HalfFirst
<1>2. Len(Tail(q)) = Len(q) - 1 /\ (\A i \in 1 .. Len(Tail(q)) : Tail(q)[i] = q[i + 1]) /\ Len(q) \in Nat \ {0}
  BY <1>1, HeadTailProperties, EmptySeq
<1>3. ASSUME NEW i \in 1 .. Len(Tail(q)) PROVE Tail(q)[i].op # "half"
  <2>1. i + 1 \in 1 .. Len(q) /\ Tail(q)[i] = q[i + 1]
    BY <1>2
  <2> QED BY <2>1 DEF NoHalf
<1> QED BY <1>3 DEF NoHalf

\* The operations of a stage before the prompt.
LEMMA StageOps ==
  ASSUME NEW t, NEW s \in {"line", "fork", "route", "command", "close", "wait", "end", "fin"}, NEW b,
         NEW sub \in {0} \cup Tasks, Stage(t, s, b, sub)
  PROVE  b \in Seq(Ops) /\ NoHalf(b) /\ b # <<>>
<1>1. Fin(t) \in Ops /\ Fin(t).op # "half" /\ End_ \in Ops /\ End_.op # "half"
  BY FinIs, LineOpsAre, OpFields DEF End_
<1>2. \A k \in {"line", "fork", "command"}, l \in Texts : Op(k, 0, l) \in Ops /\ Op(k, 0, l).op # "half"
  BY LineOpsAre, OpFields
<1>3. \A k \in {"route", "close", "wait"} : Op(k, sub, <<>>) \in Ops /\ Op(k, sub, <<>>).op # "half"
  BY LineOpsAre, OpFields
<1>4. CASE s \in {"line", "command", "end"}
  <2>1. \E p \in Ops : p.op # "half" /\ b = <<p, Fin(t)>>
    BY <1>1, <1>2, <1>4 DEF Stage
  <2> QED BY <1>1, <2>1, ShortOps, Tails
<1>5. CASE s \in {"fork", "route", "wait"}
  <2>1. \E p, q \in Ops : p.op # "half" /\ q.op # "half" /\ b = <<p, q, Fin(t)>>
    BY <1>1, <1>2, <1>3, <1>5 DEF Stage
  <2> QED BY <1>1, <2>1, ShortOps, Tails
<1>6. CASE s = "close"
  <2>1. \E p, q \in Ops : p.op # "half" /\ q.op # "half" /\ b = <<p, q, End_, Fin(t)>>
    BY <1>1, <1>3, <1>6 DEF Stage
  <2> QED BY <1>1, <2>1, ShortOps, Tails
<1>7. CASE s = "fin"
  <2>1. b = <<Fin(t)>>
    BY <1>7 DEF Stage
  <2> QED BY <1>1, <2>1, ShortOps, Tails
<1> QED BY <1>4, <1>5, <1>6, <1>7

\* A task whose next operation is one of ExecuteLine is at that stage.
LEMMA AtLine ==
  ASSUME TerminalInv, NEW t \in DOMAIN term, NEW k \in {"line", "fork", "route", "command", "close", "wait", "end"}, Busy(t, k)
  PROVE  Split(t, k, <<>>, exec[t].ops)
<1>1. exec[t].ops # <<>> /\ At(t).op = k
  BY DEF Busy
<1>2. PICK s, f, b : Split(t, s, f, b)
  BY TaskFacts DEF Running
<1>3. f = <<>>
  <2>1. SUFFICES ASSUME f # <<>> PROVE FALSE
    OBVIOUS
  <2>2. At(t) \in BodyOps
    <3>1. InBody(t, s, f, b)
      BY <1>2, <2>1, SplitBody
    <3> QED BY <3>1 DEF InBody
  <2> QED BY <1>1, <2>2, BodyOpsAre
<1>4. Split(t, s, <<>>, b)
  BY <1>2, <1>3
<1>5. exec[t].ops = b /\ s = k
  <2>1. exec[t].ops = b
    BY <1>4, SplitLine
  <2>2. \/ s \in {"line", "fork", "route", "command", "close", "wait", "end"} /\ At(t).op = s
        \/ s = "fin" /\ b = <<Fin(t)>> /\ At(t) = Fin(t)
        \/ s = "prompt" /\ t = W /\ At(t) = Op("half", W, <<">">>)
        \/ s = "over" /\ t # W /\ At(t) = Op("done", 0, <<>>)
    BY <1>1, <1>4, <2>1, SplitLine
  <2> QED BY <1>1, <2>1, <2>2, FinIs, OpFields
<1> QED BY <1>4, <1>5

\* A task arrives at a stage, with output to come.
LEMMA Arrives ==
  ASSUME NEW t, NEW s \in {"line", "fork", "route", "command", "close", "wait", "end", "fin"},
         NEW f \in Seq(BodyOps), NoHalf(f), NEW b, f # <<>> => s \in {"close", "end", "fin"},
         exec'[t].sub \in {0} \cup Tasks, Stage(t, s, b, exec'[t].sub), exec'[t].ops = f \o b,
         t = W => AtStage(s)', t # W => AtStageOf(t, s)'
  PROVE  Running(t)' /\ NoHalf(exec'[t].ops)
<1>1. b \in Seq(Ops) /\ NoHalf(b)
  BY StageOps
<1>2. f \in Seq(Ops)
  BY BodyOpsAre, SeqMonotonic
<1>3. f \o b \in Seq(Ops) /\ NoHalf(f \o b)
  BY <1>1, <1>2, NoHalfJoin
<1>4. HalfFirst(exec'[t].ops)
  BY <1>3, NoHalfFirst
<1>5. Split(t, s, f, b)'
  BY <1>1 DEF Split, Stages
<1> QED BY <1>3, <1>4, <1>5 DEF Running

\* No operations.
LEMMA NoOps == <<>> \in Seq(BodyOps) /\ <<>> \in Seq(Ops) /\ NoHalf(<<>>)
<1>1. <<>> \in Seq(BodyOps) /\ NoHalf(<<>>)
  BY BodiesAre
<1>2. <<>> \in Seq(Ops)
  OBVIOUS
<1> QED BY <1>1, <1>2

\* FinishWrite closes the pipe.
LEMMA FinishPipeKeeps ==
  ASSUME TerminalInv, NEW t \in DOMAIN term, FinishPipe(t)
  PROVE  TerminalInv'
<1>1. /\ exec[t].ops # <<>> /\ At(t).op = "close" /\ queue' = Post(At(t).n, PipeMsg(NUL)) /\ exec' = Goes(t, <<>>)
      /\ UNCHANGED <<term, screen, layer_task_map, files, typed, column, disturbed>>
  BY DEF FinishPipe, Busy
<1>2. Split(t, "close", <<>>, exec[t].ops)
  BY AtLine DEF FinishPipe
<1>3. PICK g : g = <<>> /\ g \in Seq(BodyOps) /\ g \in Seq(Ops) /\ NoHalf(g)
  BY NoOps, Zenon
<1>4. /\ exec' \in [DOMAIN term -> Execs] /\ \A u \in DOMAIN term \ {t} : exec'[u] = exec[u]
      /\ exec'[t].ops = g \o Tail(exec[t].ops) /\ exec'[t].sub = exec[t].sub /\ exec'[t].stdout = exec[t].stdout
  <2>1. exec' = Goes(t, g) /\ g \in Seq(Ops)
    BY <1>1, <1>3
  <2> QED BY <1>1, <2>1, GoesIs
<1>5. /\ exec[t].sub \in {0} \cup DOMAIN term /\ exec[t].sub \in {0} \cup Tasks /\ W \in DOMAIN queue
      /\ DOMAIN queue \subseteq DOMAIN term /\ queue \in [DOMAIN queue -> Seq(Messages)]
      /\ layer_task_map = [l \in DOMAIN layer_task_map |-> layer_task_map[l]]
  <2>1. exec[t] \in Execs
    BY TaskFacts
  <2>2. exec[t].sub \in {0} \cup Tasks
    BY <2>1 DEF Execs
  <2> QED BY <2>2, TaskFacts
<1>6. PICK b : b = <<Op("wait", exec[t].sub, <<>>), End_, Fin(t)>>
  OBVIOUS
<1>7. exec[t].sub # 0 /\ Tail(exec[t].ops) = b
  <2>1. exec[t].sub # 0 /\ exec[t].ops = <<Op("close", exec[t].sub, <<>>), Op("wait", exec[t].sub, <<>>), End_, Fin(t)>>
    BY <1>2 DEF Split, Stage
  <2>2. Tail(exec[t].ops) = b
    BY <1>6, <2>1
  <2> QED BY <2>1, <2>2
<1>8. Stage(t, "wait", b, exec'[t].sub)
  BY <1>4, <1>6, <1>7 DEF Stage
<1>9. queue' \in [DOMAIN queue -> Seq(Messages)]
  <2>1. PipeMsg(NUL) \in Messages
    BY SymbolsAre DEF PipeMsg, Messages
  <2>2. \A q \in Seq(Messages) : Append(q, PipeMsg(NUL)) \in Seq(Messages)
    BY <2>1, AppendProperties
  <2> QED BY <1>1, <1>5, <2>2 DEF Post
<1>10. DOMAIN queue' = DOMAIN queue
  BY <1>9
<1>11. Running(t)'
  <2>1. t = W => AtStage("wait")'
    BY <1>1, <1>2, <1>4 DEF Split, AtStage
  <2>2. t # W => AtStageOf(t, "wait")'
    BY <1>1, <1>2, <1>10 DEF Split, AtStageOf
  <2>3. exec'[t].ops = g \o b /\ exec'[t].sub \in {0} \cup Tasks /\ g = <<>>
    BY <1>3, <1>4, <1>5, <1>7
  <2> QED BY <1>3, <1>8, <2>1, <2>2, <2>3, Arrives
<1>12. t # W => (Keyboard => Keyboard')
  BY <1>1, KeyboardKept
<1> QED BY <1>1, <1>3, <1>4, <1>5, <1>9, <1>10, <1>11, <1>12, QuietSame

\* WaitFinish, and the route of the keys.
LEMMA WaitFinishKeeps ==
  ASSUME TerminalInv, NEW t \in DOMAIN term, WaitFinish(t)
  PROVE  TerminalInv'
<1>1. /\ exec[t].ops # <<>> /\ At(t).op = "wait" /\ layer_task_map' = RouteBack(t)
      /\ exec' = [Goes(t, <<>>) EXCEPT ![t].code = term[At(t).n].last]
      /\ UNCHANGED <<term, queue, screen, files, typed, column, disturbed>>
  BY DEF WaitFinish, Busy
<1>2. Split(t, "wait", <<>>, exec[t].ops)
  BY AtLine DEF WaitFinish
<1>3. PICK g : g = <<>> /\ g \in Seq(BodyOps) /\ g \in Seq(Ops) /\ NoHalf(g)
  BY NoOps, Zenon
<1>4. /\ exec[t].sub \in {0} \cup DOMAIN term /\ exec[t].sub \in {0} \cup Tasks /\ W \in DOMAIN queue
      /\ DOMAIN queue \subseteq DOMAIN term /\ queue \in [DOMAIN queue -> Seq(Messages)] /\ W \in DOMAIN term
      /\ layer_task_map = [l \in DOMAIN layer_task_map |-> layer_task_map[l]] /\ WLayer \in DOMAIN layer_task_map
      /\ term \in [DOMAIN term -> Terminals]
  <2>1. exec[t] \in Execs
    BY TaskFacts
  <2>2. exec[t].sub \in {0} \cup Tasks
    BY <2>1 DEF Execs
  <2> QED BY <2>2, TaskFacts
<1>5. PICK b : b = <<End_, Fin(t)>>
  OBVIOUS
<1>6. exec[t].sub # 0 /\ Tail(exec[t].ops) = b /\ At(t).n = exec[t].sub
  <2>1. exec[t].sub # 0 /\ exec[t].ops = <<Op("wait", exec[t].sub, <<>>), End_, Fin(t)>>
    BY <1>2 DEF Split, Stage
  <2>2. Tail(exec[t].ops) = b /\ exec[t].ops[1] = Op("wait", exec[t].sub, <<>>)
    BY <1>5, <2>1
  <2> QED BY <2>1, <2>2, OpFields DEF At
<1>7. PICK c \in Codes : c = term[At(t).n].last
  <2>1. term[At(t).n] \in Terminals
    BY <1>4, <1>6
  <2> QED BY <2>1 DEF Terminals
<1>8. /\ exec' \in [DOMAIN term -> Execs] /\ \A u \in DOMAIN term \ {t} : exec'[u] = exec[u]
      /\ exec'[t].ops = g \o Tail(exec[t].ops) /\ exec'[t].sub = exec[t].sub /\ exec'[t].stdout = exec[t].stdout
  <2>1. PICK e : e = Goes(t, <<>>)
    OBVIOUS
  <2>2. /\ e \in [DOMAIN term -> Execs] /\ \A u \in DOMAIN term \ {t} : e[u] = exec[u]
        /\ e[t].ops = g \o Tail(exec[t].ops) /\ e[t].sub = exec[t].sub /\ e[t].stdout = exec[t].stdout
    <3>1. e = Goes(t, g) /\ g \in Seq(Ops)
      BY <1>3, <2>1
    <3> QED BY <1>1, <3>1, GoesIs
  <2>3. exec' = [e EXCEPT ![t].code = c]
    BY <1>1, <1>7, <2>1
  <2>4. PICK v : v = [e[t] EXCEPT !.code = c]
    OBVIOUS
  <2>5. v \in Execs /\ v.ops = e[t].ops /\ v.sub = e[t].sub /\ v.stdout = e[t].stdout
    BY <2>2, <2>4 DEF Execs
  <2>6. exec' = [e EXCEPT ![t] = v]
    BY <2>2, <2>3, <2>4
  <2> QED BY <2>2, <2>5, <2>6
<1>9. Stage(t, "end", b, exec'[t].sub)
  BY <1>5 DEF Stage
<1>10. /\ DOMAIN layer_task_map' = DOMAIN layer_task_map
       /\ layer_task_map' = [l \in DOMAIN layer_task_map' |-> layer_task_map'[l]]
       /\ layer_task_map'[WLayer] = IF term[t].layer = WLayer THEN t ELSE layer_task_map[WLayer]
  BY <1>1, <1>4 DEF RouteBack
<1>11. t # W => (Keyboard => Keyboard')
  BY <1>1, <1>10 DEF Keyboard
<1>12. Running(t)'
  <2>1. t = W => AtStage("end")'
    <3>1. SUFFICES ASSUME t = W PROVE AtStage("end")'
      OBVIOUS
    <3>2. AtStage("wait") /\ term[W].layer = WLayer
      BY <1>2, <3>1 DEF Split, TerminalInv, WTerminal
    <3>3. Keyboard'
      BY <1>10, <3>1, <3>2 DEF Keyboard
    <3> QED BY <1>1, <1>8, <3>1, <3>2, <3>3 DEF AtStage
  <2>2. t # W => AtStageOf(t, "end")'
    BY <1>1, <1>2 DEF Split, AtStageOf
  <2>3. exec'[t].ops = g \o b /\ exec'[t].sub \in {0} \cup Tasks /\ g = <<>>
    BY <1>3, <1>4, <1>6, <1>8
  <2> QED BY <1>3, <1>9, <2>1, <2>2, <2>3, Arrives
<1> QED BY <1>1, <1>3, <1>4, <1>8, <1>10, <1>11, <1>12, QuietSame

\* A terminal whose standard output, exit code and layer are set.
Stdout(T, fd, c, ly) == [T EXCEPT !.files = [T.files EXCEPT ![2] = fd], !.last = c, !.layer = ly]

\* Its other fields are kept.
LEMMA StdoutSet ==
  ASSUME NEW T \in Terminals, NEW fd \in Fds, NEW c \in Codes, NEW ly \in {0, WLayer} \cup GarbageIds, NEW v,
         v = Stdout(T, fd, c, ly)
  PROVE  /\ v \in Terminals /\ v.show = T.show /\ v.x = T.x /\ v.y = T.y /\ v.linebuf = T.linebuf /\ v.history = T.history
         /\ v.layer = ly /\ v.files[1] = T.files[1] /\ v.files[2] = fd /\ v.files[3] = T.files[3]
<1>1. T.files \in [1 .. 3 -> Fds]
  BY DEF Terminals
<1>2. PICK fs : fs = [T.files EXCEPT ![2] = fd]
  OBVIOUS
<1>3. fs \in [1 .. 3 -> Fds] /\ fs[1] = T.files[1] /\ fs[2] = fd /\ fs[3] = T.files[3]
  BY <1>1, <1>2
<1>4. v = [T EXCEPT !.files = fs, !.last = c, !.layer = ly]
  BY <1>2 DEF Stdout
<1>5. v \in Terminals /\ v.files = fs
  BY <1>3, <1>4 DEF Terminals
<1>6. v.show = T.show /\ v.x = T.x /\ v.y = T.y /\ v.linebuf = T.linebuf /\ v.history = T.history /\ v.layer = ly
  BY <1>4 DEF Terminals
<1> QED BY <1>3, <1>5, <1>6

\* A step of ExecuteLine that does no more than that to the terminal.
LEMMA StdoutStep ==
  ASSUME TerminalInv, NEW t \in DOMAIN term, exec[t].ops # <<>>, At(t).op \notin {"chr", "half"},
         NEW v, v \in Terminals, v.show = term[t].show, v.x = term[t].x, v.y = term[t].y, v.linebuf = term[t].linebuf,
         v.history = term[t].history, v.files[1] = term[t].files[1], v.files[3] = term[t].files[3], t = W => v.layer = WLayer,
         term' = [term EXCEPT ![t] = v], UNCHANGED <<queue, screen, column, disturbed>>,
         exec' \in [DOMAIN term -> Execs], exec'[t].sub \in {0} \cup DOMAIN term,
         \A u \in DOMAIN term \ {t} : exec'[u] = exec[u],
         NEW g \in Seq(Ops), NoHalf(g), exec'[t].ops = g \o Tail(exec[t].ops),
         DOMAIN layer_task_map' = DOMAIN layer_task_map,
         layer_task_map' = [l \in DOMAIN layer_task_map' |-> layer_task_map'[l]],
         Running(t)', t # W => (Keyboard => Keyboard')
  PROVE  TerminalInv'
<1>1. TypeInv /\ WTerminal
  BY DEF TerminalInv
<1>2. PICK n \in Tasks : DOMAIN term = 1 .. n
  BY <1>1 DEF TypeInv
<1>3. /\ term \in [1 .. n -> Terminals] /\ WLayer \in DOMAIN layer_task_map
      /\ \A u \in 1 .. n : exec[u].sub \in {0} \cup 1 .. n
      /\ DOMAIN queue \subseteq 1 .. n /\ queue \in [DOMAIN queue -> Seq(Messages)]
  BY <1>1, <1>2 DEF TypeInv
<1>4. term[W].layer = WLayer /\ term[W].files[1] = Term(W) /\ term[W].files[3] = Term(W) /\ W \in DOMAIN queue
  BY <1>1 DEF WTerminal
<1>5. \A u \in 1 .. n : exec'[u].sub \in {0} \cup 1 .. n
  BY <1>2, <1>3
<1>6. /\ term' \in [1 .. n -> Terminals] /\ DOMAIN term' = 1 .. n /\ term'[t] = v
      /\ \A u \in DOMAIN term \ {t} : term'[u] = term[u]
  BY <1>2, <1>3
<1>7. t = W => /\ term'[W].layer = WLayer
               /\ term'[W].files[1] = Term(W) /\ term'[W].files[3] = Term(W)
               /\ term'[W].x = term[W].x
               /\ term'[W].linebuf = term[W].linebuf /\ term'[W].history = term[W].history
  BY <1>4, <1>6
<1>8. screen' = screen /\ (t = W => term'[W].y = term[W].y)
  BY <1>6
<1> QED BY <1>2, <1>3, <1>4, <1>5, <1>6, <1>7, <1>8, QuietStep

\* The end of ExecuteLine.
LEMMA EndKeeps ==
  ASSUME TerminalInv, NEW t \in DOMAIN term, End(t)
  PROVE  TerminalInv'
<1>1. /\ exec[t].ops # <<>> /\ At(t).op = "end" /\ exec' = Goes(t, <<>>)
      /\ term' = [term EXCEPT ![t].last = exec[t].code, ![t].files[2] = exec[t].stdout]
      /\ UNCHANGED <<queue, screen, layer_task_map, files, typed, column, disturbed>>
  BY DEF End, Busy
<1>2. Split(t, "end", <<>>, exec[t].ops)
  BY AtLine DEF End
<1>3. PICK g : g = <<>> /\ g \in Seq(BodyOps) /\ g \in Seq(Ops) /\ NoHalf(g)
  BY NoOps, Zenon
<1>4. /\ exec' \in [DOMAIN term -> Execs] /\ \A u \in DOMAIN term \ {t} : exec'[u] = exec[u]
      /\ exec'[t].ops = g \o Tail(exec[t].ops) /\ exec'[t].sub = exec[t].sub /\ exec'[t].stdout = exec[t].stdout
  <2>1. exec' = Goes(t, g) /\ g \in Seq(Ops)
    BY <1>1, <1>3
  <2> QED BY <1>1, <2>1, GoesIs
<1>5. /\ exec[t].sub \in {0} \cup DOMAIN term /\ exec[t].sub \in {0} \cup Tasks
      /\ exec[t].stdout \in Fds /\ exec[t].code \in Codes /\ term[t] \in Terminals /\ term \in [DOMAIN term -> Terminals]
      /\ layer_task_map = [l \in DOMAIN layer_task_map |-> layer_task_map[l]]
  <2>1. exec[t] \in Execs
    BY TaskFacts
  <2>2. exec[t].sub \in {0} \cup Tasks /\ exec[t].stdout \in Fds /\ exec[t].code \in Codes
    BY <2>1 DEF Execs
  <2> QED BY <2>2, TaskFacts
<1>6. PICK b : b = <<Fin(t)>>
  OBVIOUS
<1>7. Tail(exec[t].ops) = b
  <2>1. exec[t].ops = <<End_, Fin(t)>>
    BY <1>2 DEF Split, Stage
  <2> QED BY <1>6, <2>1
<1>8. Stage(t, "fin", b, exec'[t].sub)
  BY <1>6 DEF Stage
<1>9. PICK ly \in {0, WLayer} \cup GarbageIds : ly = term[t].layer
  BY <1>5 DEF Terminals
<1>10. PICK v : v = Stdout(term[t], exec[t].stdout, exec[t].code, ly)
  OBVIOUS
<1>11. /\ v \in Terminals /\ v.show = term[t].show /\ v.x = term[t].x /\ v.y = term[t].y
       /\ v.linebuf = term[t].linebuf /\ v.history = term[t].history /\ v.layer = ly
       /\ v.files[1] = term[t].files[1] /\ v.files[2] = exec[t].stdout /\ v.files[3] = term[t].files[3]
  BY <1>5, <1>10, StdoutSet
<1>12. term' = [term EXCEPT ![t] = v]
  <2>1. v = [term[t] EXCEPT !.last = exec[t].code, !.files[2] = exec[t].stdout]
    BY <1>5, <1>9, <1>10 DEF Terminals, Stdout
  <2> QED BY <1>1, <1>5, <2>1
<1>13. term'[t] = v /\ \A u \in DOMAIN term \ {t} : term'[u] = term[u]
  BY <1>5, <1>12
<1>14. Keyboard => Keyboard'
  BY <1>1, <1>9, <1>11, <1>12, <1>13, KeyboardKept
<1>15. t = W => v.layer = WLayer
  BY <1>9, <1>11 DEF TerminalInv, WTerminal
<1>16. Running(t)'
  <2>1. t = W => AtStage("fin")'
    BY <1>1, <1>2, <1>11, <1>13, <1>14 DEF Split, AtStage
  <2>2. t # W => AtStageOf(t, "fin")'
    BY <1>1, <1>2 DEF Split, AtStageOf
  <2>3. exec'[t].ops = g \o b /\ exec'[t].sub \in {0} \cup Tasks /\ g = <<>>
    BY <1>3, <1>4, <1>5, <1>7
  <2> QED BY <1>3, <1>8, <2>1, <2>2, <2>3, Arrives
<1>17. /\ At(t).op \notin {"chr", "half"} /\ exec'[t].sub \in {0} \cup DOMAIN term
       /\ DOMAIN layer_task_map' = DOMAIN layer_task_map
       /\ layer_task_map' = [k \in DOMAIN layer_task_map' |-> layer_task_map'[k]]
  BY <1>1, <1>4, <1>5
<1> QED BY <1>1, <1>3, <1>4, <1>11, <1>12, <1>14, <1>15, <1>16, <1>17, StdoutStep

\* The keys of the window go to the other side of the pipe.
LEMMA RouteKeeps ==
  ASSUME TerminalInv, NEW t \in DOMAIN term, Route(t)
  PROVE  TerminalInv'
<1>1. PICK layer \in IF term[t].show THEN {term[t].layer} ELSE GarbageIds :
        /\ exec[t].ops # <<>> /\ At(t).op = "route" /\ exec' = Goes(t, <<>>)
        /\ term' = [term EXCEPT ![t].files[2] = PipeTo(At(t).n), ![t].layer = layer]
        /\ layer_task_map' = [layer_task_map EXCEPT ![layer] = At(t).n]
        /\ UNCHANGED <<queue, screen, files, typed, column, disturbed>>
  BY DEF Route, Busy
<1>2. Split(t, "route", <<>>, exec[t].ops)
  BY AtLine DEF Route
<1>3. PICK g : g = <<>> /\ g \in Seq(BodyOps) /\ g \in Seq(Ops) /\ NoHalf(g)
  BY NoOps, Zenon
<1>4. /\ exec' \in [DOMAIN term -> Execs] /\ \A u \in DOMAIN term \ {t} : exec'[u] = exec[u]
      /\ exec'[t].ops = g \o Tail(exec[t].ops) /\ exec'[t].sub = exec[t].sub /\ exec'[t].stdout = exec[t].stdout
  <2>1. exec' = Goes(t, g) /\ g \in Seq(Ops)
    BY <1>1, <1>3
  <2> QED BY <1>1, <2>1, GoesIs
<1>5. /\ exec[t].sub \in {0} \cup DOMAIN term /\ exec[t].sub \in {0} \cup Tasks
      /\ term[t] \in Terminals /\ term \in [DOMAIN term -> Terminals] /\ WLayer \in DOMAIN layer_task_map
      /\ layer_task_map = [l \in DOMAIN layer_task_map |-> layer_task_map[l]]
  <2>1. exec[t] \in Execs
    BY TaskFacts
  <2>2. exec[t].sub \in {0} \cup Tasks
    BY <2>1 DEF Execs
  <2> QED BY <2>2, TaskFacts
<1>6. PICK l \in Texts, b \in Seq(Ops) : /\ exec[t].ops = <<Op("route", exec[t].sub, <<>>), Op("command", 0, l), Fin(t)>> /\ exec[t].sub # 0
                            /\ b = <<Op("command", 0, l), Fin(t)>>
  <2>1. PICK l \in Texts : exec[t].ops = <<Op("route", exec[t].sub, <<>>), Op("command", 0, l), Fin(t)>> /\ exec[t].sub # 0
    BY <1>2 DEF Split, Stage
  <2>2. <<Op("command", 0, l), Fin(t)>> \in Seq(Ops)
    BY LineOpsAre
  <2> QED BY <2>1, <2>2
<1>7. Tail(exec[t].ops) = b /\ At(t).n = exec[t].sub /\ exec[t].sub \in Tasks
  <2>1. Tail(exec[t].ops) = b /\ exec[t].ops[1] = Op("route", exec[t].sub, <<>>)
    BY <1>6
  <2> QED BY <1>5, <1>6, <2>1, OpFields DEF At
<1>8. Stage(t, "command", b, exec'[t].sub)
  BY <1>6 DEF Stage
<1>9. term[t].show <=> t = W
  BY DEF TerminalInv, WTerminal
<1>10. layer \in {0, WLayer} \cup GarbageIds /\ (t = W => layer = WLayer)
  <2>1. CASE t = W
    BY <1>1, <1>9, <2>1 DEF TerminalInv, WTerminal
  <2>2. CASE t # W
    BY <1>1, <1>9, <2>2
  <2> QED BY <2>1, <2>2
<1>11. PICK c \in Codes, fd \in Fds : c = term[t].last /\ fd = PipeTo(exec[t].sub)
  <2>1. term[t].last \in Codes
    BY <1>5 DEF Terminals
  <2>2. PipeTo(exec[t].sub) \in Fds
    BY <1>7 DEF Fds
  <2> QED BY <2>1, <2>2
<1>18. PICK v : v = Stdout(term[t], fd, c, layer)
  OBVIOUS
<1>12. /\ v \in Terminals /\ v.show = term[t].show /\ v.x = term[t].x /\ v.y = term[t].y
       /\ v.linebuf = term[t].linebuf /\ v.history = term[t].history /\ v.layer = layer
       /\ v.files[1] = term[t].files[1] /\ v.files[3] = term[t].files[3]
  BY <1>5, <1>10, <1>18, StdoutSet
<1>13. term' = [term EXCEPT ![t] = v]
  <2>1. v = [term[t] EXCEPT !.files[2] = fd, !.layer = layer]
    BY <1>5, <1>11, <1>18 DEF Terminals, Stdout
  <2> QED BY <1>1, <1>5, <1>7, <1>11, <2>1
<1>14. term'[t] = v /\ DOMAIN term' = DOMAIN term /\ \A u \in DOMAIN term \ {t} : term'[u] = term[u]
  BY <1>5, <1>13
<1>15. /\ DOMAIN layer_task_map' = DOMAIN layer_task_map
       /\ layer_task_map' = [k \in DOMAIN layer_task_map' |-> layer_task_map'[k]]
       /\ layer # WLayer => layer_task_map'[WLayer] = layer_task_map[WLayer]
  BY <1>1, <1>5
<1>16. t # W => (Keyboard => Keyboard')
  <2>1. SUFFICES ASSUME t # W, Keyboard PROVE Keyboard'
    OBVIOUS
  <2>2. CASE layer = WLayer
    BY <1>12, <1>14, <2>1, <2>2 DEF Keyboard
  <2>3. CASE layer # WLayer
    <3>1. term[t].layer = 0
      BY <1>2, <2>1 DEF Split, AtStageOf
    <3> QED BY <1>14, <1>15, <2>1, <2>3, <3>1 DEF Keyboard, WLayer
  <2> QED BY <2>2, <2>3
<1>17. Running(t)'
  <2>1. t = W => AtStage("command")'
    BY <1>1, <1>2, <1>4, <1>6, <1>12, <1>14 DEF Split, AtStage
  <2>2. t # W => AtStageOf(t, "command")'
    BY <1>1, <1>2 DEF Split, AtStageOf
  <2>3. exec'[t].ops = g \o b /\ exec'[t].sub \in {0} \cup Tasks /\ g = <<>>
    BY <1>3, <1>4, <1>5, <1>7
  <2> QED BY <1>3, <1>8, <2>1, <2>2, <2>3, Arrives
<1> QED BY <1>1, <1>3, <1>4, <1>5, <1>10, <1>12, <1>13, <1>15, <1>16, <1>17, StdoutStep

\* A task that ends has nothing left to do.
LEMMA AtExit ==
  ASSUME TerminalInv, NEW t \in DOMAIN term, Busy(t, "exit")
  PROVE  Split(t, "fin", <<>>, exec[t].ops) /\ exec[t].ops = <<Op("exit", 0, <<>>)>> /\ t # W
<1>1. exec[t].ops # <<>> /\ At(t).op = "exit"
  BY DEF Busy
<1>2. PICK s, f, b : Split(t, s, f, b)
  BY TaskFacts DEF Running
<1>3. f = <<>>
  <2>1. SUFFICES ASSUME f # <<>> PROVE FALSE
    OBVIOUS
  <2>2. At(t) \in BodyOps
    <3>1. InBody(t, s, f, b)
      BY <1>2, <2>1, SplitBody
    <3> QED BY <3>1 DEF InBody
  <2> QED BY <1>1, <2>2, BodyOpsAre
<1>4. Split(t, s, <<>>, b)
  BY <1>2, <1>3
<1>5. exec[t].ops = b /\ s = "fin" /\ b = <<Fin(t)>> /\ At(t) = Fin(t)
  <2>1. exec[t].ops = b
    BY <1>4, SplitLine
  <2>2. \/ s \in {"line", "fork", "route", "command", "close", "wait", "end"} /\ At(t).op = s
        \/ s = "fin" /\ b = <<Fin(t)>> /\ At(t) = Fin(t)
        \/ s = "prompt" /\ t = W /\ At(t) = Op("half", W, <<">">>)
        \/ s = "over" /\ t # W /\ At(t) = Op("done", 0, <<>>)
    BY <1>1, <1>4, <2>1, SplitLine
  <2> QED BY <1>1, <2>1, <2>2, OpFields
<1>6. t # W
  BY <1>1, <1>5, OpFields DEF Fin
<1> QED BY <1>4, <1>5, <1>6 DEF Fin

\* A terminal without a window ends.
LEMMA ExitKeeps ==
  ASSUME TerminalInv, NEW t \in DOMAIN term, Exit(t)
  PROVE  TerminalInv'
<1>1. /\ exec[t].ops # <<>> /\ At(t).op = "exit" /\ exec' = Goes(t, <<Op("done", 0, <<>>)>>)
      /\ queue' = [u \in DOMAIN queue \ {t} |-> queue[u]]
      /\ UNCHANGED <<term, screen, layer_task_map, files, typed, column, disturbed>>
  BY DEF Exit, Busy
<1>2. Split(t, "fin", <<>>, exec[t].ops) /\ exec[t].ops = <<Op("exit", 0, <<>>)>> /\ t # W
  BY AtExit DEF Exit
<1>3. PICK g : g = <<Op("done", 0, <<>>)>>
  OBVIOUS
<1>4. g \in Seq(Ops) /\ NoHalf(g) /\ g \o <<>> = g
  <2>1. Op("done", 0, <<>>) \in Ops /\ Op("done", 0, <<>>).op # "half"
    BY LineOpsAre, OpFields
  <2>2. g \in Seq(Ops) /\ NoHalf(g)
    BY <1>3, <2>1, ShortOps
  <2> QED BY <2>2, ConcatEmptySeq
<1>5. /\ exec' \in [DOMAIN term -> Execs] /\ \A u \in DOMAIN term \ {t} : exec'[u] = exec[u]
      /\ exec'[t].ops = g \o Tail(exec[t].ops) /\ exec'[t].sub = exec[t].sub
  <2>1. exec' = Goes(t, g) /\ g \in Seq(Ops)
    BY <1>1, <1>3, <1>4, Zenon
  <2>2. exec[t].ops # <<>>
    BY <1>1
  <2> QED BY <2>1, <2>2, GoesIs
<1>6. Tail(exec[t].ops) = <<>>
  BY <1>2
<1>7. /\ exec[t].sub \in {0} \cup DOMAIN term /\ W \in DOMAIN queue
      /\ DOMAIN queue \subseteq DOMAIN term /\ queue \in [DOMAIN queue -> Seq(Messages)]
      /\ layer_task_map = [l \in DOMAIN layer_task_map |-> layer_task_map[l]]
  BY TaskFacts
<1>8. Running(t)'
  <2>1. exec'[t].ops = <<>> \o g /\ exec'[t].ops = g
    BY <1>4, <1>5, <1>6, ConcatEmptySeq
  <2>2. Stage(t, "over", g, exec'[t].sub)
    BY <1>2, <1>3 DEF Stage
  <2>3. AtStageOf(t, "over")'
    BY DEF AtStageOf
  <2>4. <<>> \in Seq(BodyOps)
    BY NoOps
  <2>5. Split(t, "over", <<>>, g)'
    BY <1>2, <1>4, <2>1, <2>2, <2>3, <2>4 DEF Split, Stages
  <2>6. HalfFirst(exec'[t].ops)
    BY <1>4, <2>1, NoHalfFirst
  <2> QED BY <2>5, <2>6 DEF Running
<1>9. /\ DOMAIN queue' \subseteq DOMAIN term /\ queue' \in [DOMAIN queue' -> Seq(Messages)]
      /\ DOMAIN queue \ {t} \subseteq DOMAIN queue' /\ W \in DOMAIN queue'
  BY <1>1, <1>2, <1>7
<1>10. Keyboard => Keyboard'
  BY <1>1, KeyboardKept
<1>11. /\ DOMAIN layer_task_map' = DOMAIN layer_task_map
       /\ layer_task_map' = [k \in DOMAIN layer_task_map' |-> layer_task_map'[k]]
       /\ At(t).op \notin {"chr", "half"} /\ exec'[t].sub \in {0} \cup DOMAIN term
  BY <1>1, <1>5, <1>7
<1> QED BY <1>1, <1>4, <1>5, <1>8, <1>9, <1>10, <1>11, QuietSame

-----------------------------------------------------------------------------
(***************************************************************************)
(* The parts of a line                                                     *)
(***************************************************************************)

\* A nonempty set of numbers has a least one.
LEMMA Least ==
  ASSUME NEW T \in SUBSET Nat, T # {}
  PROVE  \E m \in T : \A k \in T : m <= k
<1> DEFINE R == OpToRel(<, Nat)
<1>1. \E x \in T : \A y \in T : ~(<<y, x>> \in R)
  BY NatLessThanWellFounded, WFMin, Zenon
<1>2. \A x, y \in T : <<y, x>> \notin R => ~(y < x)
  BY Zenon DEF OpToRel
<1>3. \E x \in T : \A y \in T : ~(y < x)
  BY <1>1, <1>2, Zenon
<1> QED BY <1>3

\* A text as a function.
LEMMA TextIs ==
  ASSUME NEW l \in Texts
  PROVE  Len(l) \in Nat /\ DOMAIN l = 1 .. Len(l) /\ (\A i \in 1 .. Len(l) : l[i] \in Symbols) /\ l = [i \in 1 .. Len(l) |-> l[i]]
BY LenProperties, ElementOfSeq DEF Texts

\* strchr finds a place of the line.
LEMMA IndexIs ==
  ASSUME NEW l \in Texts, NEW c
  PROVE  Index(l, c) \in 0 .. Len(l)
<1>1. Len(l) \in Nat /\ DOMAIN l = 1 .. Len(l)
  BY TextIs
<1>2. CASE c \in ToSet(l)
  <2>1. PICK T : T = {i \in 1 .. Len(l) : l[i] = c}
    OBVIOUS
  <2>2. T \in SUBSET Nat /\ T # {}
    BY <1>1, <1>2, <2>1 DEF ToSet
  <2>3. PICK m \in T : \A k \in T : m <= k
    BY <2>2, Least
  <2>4. m \in DOMAIN l /\ l[m] = c /\ \A j \in 1 .. m - 1 : l[j] # c
    BY <1>1, <2>1, <2>3
  <2>5. (CHOOSE i \in DOMAIN l : l[i] = c /\ \A j \in 1 .. i - 1 : l[j] # c) \in DOMAIN l
    BY <2>4, Zenon
  <2> QED BY <1>1, <1>2, <2>5 DEF Index
<1>3. CASE c \notin ToSet(l)
  BY <1>1, <1>3 DEF Index
<1> QED BY <1>2, <1>3

\* Cutting a line.
LEMMA CutIs ==
  ASSUME NEW l \in Texts, NEW i
  PROVE  Cut(l, i) \in Texts /\ Len(Cut(l, i)) = Len(l)
<1>1. CASE i = 0
  BY <1>1 DEF Cut
<1>2. CASE i # 0
  <2>1. PICK n \in Nat : n = Len(l)
    BY TextIs
  <2>2. PICK m : m = [l EXCEPT ![i] = NUL]
    OBVIOUS
  <2>3. m = [j \in 1 .. n |-> IF j = i THEN NUL ELSE l[j]] /\ \A j \in 1 .. n : l[j] \in Symbols
    BY <2>1, <2>2, TextIs
  <2>4. \A j \in 1 .. n : m[j] \in Symbols
    BY <2>3, SymbolsAre
  <2>5. m \in Seq(Symbols) /\ Len(m) = n
    BY <2>3, <2>4, IsASeq
  <2> QED BY <1>2, <2>1, <2>2, <2>5 DEF Cut, Texts
<1> QED BY <1>1, <1>2

\* Skipping spaces stays in the line or at its end.
LEMMA SkipSpacesIs ==
  ASSUME NEW l \in Texts, NEW i \in 1 .. Len(l) + 1
  PROVE  SkipSpaces(l, i) \in i .. Len(l) + 1
<1>1. PICK n \in Nat : n = Len(l)
  BY TextIs
<1>7. i \in Nat \ {0} /\ i <= n + 1
  BY <1>1
<1>2. PICK T : T = {j \in i .. n + 1 : j = n + 1 \/ l[j] # Blank}
  OBVIOUS
<1>3. T \in SUBSET Nat /\ T # {}
  <2>1. n + 1 \in T
    BY <1>2, <1>7
  <2> QED BY <1>2, <1>7, <2>1
<1>4. PICK m \in T : \A k \in T : m <= k
  BY <1>3, Least
<1>5. m \in i .. n + 1 /\ (\A k \in i .. m - 1 : l[k] = Blank) /\ (m = n + 1 \/ l[m] # Blank)
  <2>1. m \in i .. n + 1 /\ (m = n + 1 \/ l[m] # Blank)
    BY <1>2
  <2>2. ASSUME NEW k \in i .. m - 1, l[k] # Blank PROVE FALSE
    <3>1. k \in T
      BY <1>2, <1>7, <2>1, <2>2
    <3>2. m <= k
      BY <1>4, <3>1
    <3> QED BY <1>7, <2>1, <3>2
  <2> QED BY <2>1, <2>2
<1>6. (CHOOSE j \in i .. Len(l) + 1 : (\A k \in i .. j - 1 : l[k] = " ") /\ (j = Len(l) + 1 \/ l[j] # " ")) \in i .. Len(l) + 1
  BY <1>1, <1>5, Zenon DEF Blank
<1> QED BY <1>6, Zenon DEF SkipSpaces

\* The string at a place of the line.
LEMMA StrIs ==
  ASSUME NEW l \in Texts, NEW i \in 1 .. Len(l) + 1
  PROVE  Str(l, i) \in Texts
<1>1. PICK n \in Nat : n = Len(l)
  BY TextIs
<1>2. PICK e : e = IF \E j \in i .. Len(l) : l[j] = NUL
                   THEN CHOOSE j \in i .. Len(l) : l[j] = NUL /\ \A k \in i .. j - 1 : l[k] # NUL
                   ELSE Len(l) + 1
  OBVIOUS
<1>3. e \in i .. n + 1
  <2>1. CASE \E j \in i .. Len(l) : l[j] = NUL
    <3>1. PICK T : T = {j \in i .. n : l[j] = NUL}
      OBVIOUS
    <3>2. T \in SUBSET Nat /\ T # {}
      BY <1>1, <2>1, <3>1
    <3>3. PICK m \in T : \A k \in T : m <= k
      BY <3>2, Least
    <3>4. m \in i .. n /\ l[m] = NUL /\ \A k \in i .. m - 1 : l[k] # NUL
      BY <1>1, <3>1, <3>3
    <3>5. (CHOOSE j \in i .. Len(l) : l[j] = NUL /\ \A k \in i .. j - 1 : l[k] # NUL) \in i .. Len(l)
      BY <1>1, <3>4, Zenon
    <3> QED BY <1>1, <1>2, <2>1, <3>5
  <2>2. CASE ~ \E j \in i .. Len(l) : l[j] = NUL
    BY <1>1, <1>2, <2>2
  <2> QED BY <2>1, <2>2
<1>4. \A j \in i .. e - 1 : l[j] \in Symbols
  BY <1>1, <1>3, TextIs
<1>5. SubSeq(l, i, e - 1) \in Seq(Symbols)
  <2>1. i \in Int /\ e - 1 \in Int
    BY <1>1, <1>3
  <2> QED BY <1>4, <2>1, SubSeqProperties
<1> QED BY <1>2, <1>5 DEF Str, Texts

\* The parts of a line are texts.
LEMMA CutsAre ==
  ASSUME NEW l \in Texts
  PROVE  /\ Cuts(l).command \in Texts /\ Cuts(l).arg \in Texts
         /\ Cuts(l).sub # <<>> => Cuts(l).sub[1] \in Texts
         /\ Cuts(l).dest # <<>> => Cuts(l).dest[1] \in Texts
<1>1. PICK sp, rd, pp : sp = Index(l, " ") /\ rd = Index(l, ">") /\ pp = Index(l, "|")
  OBVIOUS
<1>2. PICK n \in Nat : n = Len(l)
  BY TextIs
<1>3. sp \in 0 .. n /\ rd \in 0 .. n /\ pp \in 0 .. n
  BY <1>1, <1>2, IndexIs
<1>4. PICK l0, l1, l2 : l0 = Cut(l, sp) /\ l1 = Cut(l0, rd) /\ l2 = Cut(l1, pp)
  OBVIOUS
<1>5. l0 \in Texts /\ l1 \in Texts /\ l2 \in Texts /\ Len(l1) = n /\ Len(l2) = n
  <2>1. l0 \in Texts /\ Len(l0) = n
    BY <1>2, <1>4, CutIs
  <2>2. l1 \in Texts /\ Len(l1) = n
    BY <1>4, <2>1, CutIs
  <2>3. l2 \in Texts /\ Len(l2) = n
    BY <1>4, <2>2, CutIs
  <2> QED BY <2>1, <2>2, <2>3
<1>6. Cuts(l) = [command |-> Str(l2, 1), hasArg |-> sp > 0,
                 arg  |-> IF sp > 0 THEN Str(l2, SkipSpaces(l, sp + 1)) ELSE <<>>,
                 dest |-> IF rd > 0 THEN <<Str(l1, SkipSpaces(l1, rd + 1))>> ELSE <<>>,
                 sub  |-> IF pp > 0 THEN <<Str(l2, SkipSpaces(l2, pp + 1))>> ELSE <<>>]
  BY <1>1, <1>4 DEF Cuts
<1>7. Str(l2, 1) \in Texts
  <2>1. 1 \in 1 .. Len(l2) + 1
    BY <1>5
  <2> QED BY <1>5, <2>1, StrIs
<1>8. Str(l2, SkipSpaces(l, sp + 1)) \in Texts
  <2>1. sp + 1 \in 1 .. Len(l) + 1
    BY <1>2, <1>3
  <2>2. SkipSpaces(l, sp + 1) \in sp + 1 .. Len(l) + 1
    BY <2>1, SkipSpacesIs
  <2>3. SkipSpaces(l, sp + 1) \in 1 .. Len(l2) + 1
    BY <1>2, <1>3, <1>5, <2>2
  <2> QED BY <1>5, <2>3, StrIs
<1>9. Str(l1, SkipSpaces(l1, rd + 1)) \in Texts
  <2>1. rd + 1 \in 1 .. Len(l1) + 1
    BY <1>3, <1>5
  <2>2. SkipSpaces(l1, rd + 1) \in rd + 1 .. Len(l1) + 1
    BY <1>5, <2>1, SkipSpacesIs
  <2>3. SkipSpaces(l1, rd + 1) \in 1 .. Len(l1) + 1
    BY <1>3, <1>5, <2>2
  <2> QED BY <1>5, <2>3, StrIs
<1>10. Str(l2, SkipSpaces(l2, pp + 1)) \in Texts
  <2>1. pp + 1 \in 1 .. Len(l2) + 1
    BY <1>3, <1>5
  <2>2. SkipSpaces(l2, pp + 1) \in pp + 1 .. Len(l2) + 1
    BY <1>5, <2>1, SkipSpacesIs
  <2>3. SkipSpaces(l2, pp + 1) \in 1 .. Len(l2) + 1
    BY <1>3, <1>5, <2>2
  <2> QED BY <1>5, <2>3, StrIs
<1>11. Cuts(l).command \in Texts /\ Cuts(l).arg \in Texts
  BY <1>6, <1>7, <1>8, TextsAre
<1>12. Cuts(l).sub # <<>> => Cuts(l).sub[1] \in Texts
  BY <1>6, <1>10
<1>13. Cuts(l).dest # <<>> => Cuts(l).dest[1] \in Texts
  BY <1>6, <1>9
<1> QED BY <1>11, <1>12, <1>13

-----------------------------------------------------------------------------
(***************************************************************************)
(* ExecuteLine, up to the command                                          *)
(***************************************************************************)

\* What is left to do, the exit code, the other side and the standard output.
Exec(E, o, c, sub, fd) == [E EXCEPT !.ops = o, !.code = c, !.sub = sub, !.stdout = fd]
SetExec(t, o, c, sub, fd) == [exec EXCEPT ![t] = Exec(exec[t], o, c, sub, fd)]
ExecIs(e, t, o, sub, fd) ==
  /\ e \in [DOMAIN term -> Execs] /\ \A u \in DOMAIN term \ {t} : e[u] = exec[u]
  /\ e[t].ops = o /\ e[t].sub = sub /\ e[t].stdout = fd

\* The locals of a task are set.
LEMMA ExecSet ==
  ASSUME TerminalInv, NEW t \in DOMAIN term, NEW o \in Seq(Ops), NEW c \in Codes, NEW sub \in {0} \cup Tasks, NEW fd \in Fds,
         NEW e, e = SetExec(t, o, c, sub, fd)
  PROVE  ExecIs(e, t, o, sub, fd)
<1>1. exec \in [DOMAIN term -> Execs] /\ exec[t] \in Execs
  BY TaskFacts
<1>2. PICK v : v = Exec(exec[t], o, c, sub, fd)
  OBVIOUS
<1>3. v \in Execs /\ v.ops = o /\ v.sub = sub /\ v.stdout = fd
  BY <1>1, <1>2 DEF Exec, Execs
<1> QED BY <1>1, <1>2, <1>3 DEF SetExec, ExecIs

\* Where ExecuteLine goes on after the redirection.
Lands(t, g, ok) ==
  \E s \in {"fork", "command", "fin"}, f \in Seq(BodyOps), b \in Seq(Ops) :
    /\ NoHalf(f) /\ (f # <<>> => s = "fin") /\ (s = "fin" <=> ~ok) /\ Stage(t, s, b, 0)
    /\ g \o <<Fin(t)>> = f \o b

\* It goes on there.
LEMMA RedirectOps ==
  ASSUME NEW t \in Tasks, NEW l \in Texts, NEW ok \in BOOLEAN, NEW g,
         g = IF ok THEN Forks(l) \o <<Op("command", 0, l)>> ELSE Err("cannot redirect")
  PROVE  g \in Seq(Ops) /\ NoHalf(g) /\ Lands(t, g, ok)
<1>1. PICK p, q, r : p = Op("fork", 0, l) /\ q = Op("command", 0, l) /\ r = Fin(t)
  OBVIOUS
<1>2. /\ p \in Ops /\ p.op # "half" /\ q \in Ops /\ q.op # "half" /\ r \in Ops /\ r.op # "half"
  BY <1>1, LineOpsAre, FinIs, OpFields
<1>3. CASE ok /\ Cuts(l).sub # <<>>
  <2>1. PICK b : b = <<p, q, r>>
    OBVIOUS
  <2>2. g = <<p, q>> /\ g \o <<r>> = b
    <3>1. g = <<p>> \o <<q>>
      BY <1>1, <1>3 DEF Forks
    <3>2. g = <<p, q>>
      BY <3>1, Joins, Zenon
    <3>3. <<p, q>> \o <<r>> = <<p, q, r>>
      BY Joins, Zenon
    <3> QED BY <2>1, <3>2, <3>3, Zenon
  <2>3. g \in Seq(Ops) /\ NoHalf(g) /\ b \in Seq(Ops)
    BY <1>2, <2>1, <2>2, ShortOps
  <2>4. Stage(t, "fork", b, 0)
    BY <1>1, <1>3, <2>1 DEF Stage
  <2>5. <<>> \o b = b
    BY <2>3, ConcatEmptySeq
  <2>6. g \o <<Fin(t)>> = <<>> \o b
    BY <1>1, <2>2, <2>5, Zenon
  <2> QED BY <1>3, <2>3, <2>4, <2>6, NoOps DEF Lands
<1>4. CASE ok /\ Cuts(l).sub = <<>>
  <2>1. PICK b : b = <<q, r>>
    OBVIOUS
  <2>2. g = <<q>> /\ g \o <<r>> = b
    <3>1. g = <<>> \o <<q>> /\ <<q>> \in Seq(Ops)
      BY <1>1, <1>2, <1>4 DEF Forks
    <3>2. g = <<q>>
      BY <3>1, ConcatEmptySeq
    <3> QED BY <2>1, <3>2, Joins, Zenon
  <2>3. g \in Seq(Ops) /\ NoHalf(g) /\ b \in Seq(Ops)
    BY <1>2, <2>1, <2>2, ShortOps
  <2>4. Stage(t, "command", b, 0)
    BY <1>1, <1>4, <2>1 DEF Stage
  <2>5. <<>> \o b = b
    BY <2>3, ConcatEmptySeq
  <2>6. g \o <<Fin(t)>> = <<>> \o b
    BY <1>1, <2>2, <2>5, Zenon
  <2> QED BY <1>4, <2>3, <2>4, <2>6, NoOps DEF Lands
<1>5. CASE ~ok
  <2>1. PICK b : b = <<r>>
    OBVIOUS
  <2>2. g \in Seq(BodyOps) /\ NoHalf(g) /\ g \in Seq(Ops)
    <3>1. g = Err("cannot redirect")
      BY <1>5
    <3>2. "cannot redirect" \in Symbols
      BY SymbolsAre
    <3>3. g \in Seq(BodyOps) /\ NoHalf(g)
      BY <3>1, <3>2, BodiesAre, Zenon
    <3> QED BY <3>3, BodyOpsAre, SeqMonotonic
  <2>3. Stage(t, "fin", b, 0) /\ b \in Seq(Ops)
    <3>1. b \in Seq(Ops)
      BY <1>2, <2>1, ShortOps
    <3>2. b = <<Fin(t)>>
      BY <1>1, <2>1
    <3>3. Stage(t, "fin", b, 0)
      BY <3>2 DEF Stage
    <3> QED BY <3>1, <3>3
  <2>4. g \o <<Fin(t)>> = g \o b
    BY <1>1, <2>1
  <2> QED BY <1>5, <2>2, <2>3, <2>4 DEF Lands
<1> QED BY <1>3, <1>4, <1>5

\* The redirection.
LEMMA ExecuteLineKeeps ==
  ASSUME TerminalInv, NEW t \in DOMAIN term, ExecuteLine(t)
  PROVE  TerminalInv'
<1>1. Split(t, "line", <<>>, exec[t].ops) /\ exec[t].ops # <<>> /\ At(t).op = "line"
  BY AtLine DEF ExecuteLine, Busy
<1>2. PICK l \in Texts : exec[t].ops = <<Op("line", 0, l), Fin(t)>>
  BY <1>1 DEF Split, Stage
<1>3. At(t).s = l /\ Tail(exec[t].ops) = <<Fin(t)>>
  <2>1. exec[t].ops[1] = Op("line", 0, l) /\ Tail(exec[t].ops) = <<Fin(t)>>
    BY <1>2
  <2> QED BY <2>1, OpFields DEF At
<1>4. PICK ok \in BOOLEAN : Redirected(t, l, ok)
  BY <1>3, Zenon DEF ExecuteLine
<1>5. UNCHANGED <<queue, screen, layer_task_map, typed, column, disturbed>>
  BY DEF ExecuteLine
<1>6. PICK g : g = IF ok THEN Forks(l) \o <<Op("command", 0, l)>> ELSE Err("cannot redirect")
  OBVIOUS
<1>7. t \in Tasks /\ exec[t] \in Execs /\ exec \in [DOMAIN term -> Execs] /\ term[t] \in Terminals
      /\ term \in [DOMAIN term -> Terminals] /\ exec[t].ops \in Seq(Ops) /\ W \in DOMAIN term
      /\ layer_task_map = [k \in DOMAIN layer_task_map |-> layer_task_map[k]]
  BY TaskFacts
<1>8. g \in Seq(Ops) /\ NoHalf(g)
  BY <1>6, <1>7, RedirectOps
<1>9. PICK s \in {"fork", "command", "fin"}, f \in Seq(BodyOps), b \in Seq(Ops) :
        /\ NoHalf(f) /\ (f # <<>> => s = "fin") /\ (s = "fin" <=> ~ok) /\ Stage(t, s, b, 0)
        /\ g \o <<Fin(t)>> = f \o b
  <2>1. Lands(t, g, ok)
    BY <1>6, <1>7, RedirectOps
  <2> QED BY <2>1 DEF Lands
<1>10. PICK o : o = g \o Tail(exec[t].ops)
  OBVIOUS
<1>11. o \in Seq(Ops) /\ o = f \o b
  <2>1. Tail(exec[t].ops) \in Seq(Ops)
    BY <1>1, <1>7, HeadTailProperties
  <2> QED BY <1>3, <1>8, <1>9, <1>10, <2>1, ConcatProperties
<1>12. PICK fd \in Fds : fd = term[t].files[2]
  <2>1. term[t].files \in [1 .. 3 -> Fds]
    BY <1>7 DEF Terminals
  <2> QED BY <2>1
<1>13. exec' = SetExec(t, o, 0, 0, fd)
  <2>1. exec' = [exec EXCEPT ![t].ops = o, ![t].stdout = fd, ![t].code = 0, ![t].sub = 0]
    BY <1>4, <1>6, <1>10, <1>12, <1>7 DEF Redirected
  <2>2. Exec(exec[t], o, 0, 0, fd) = [exec[t] EXCEPT !.ops = o, !.stdout = fd, !.code = 0, !.sub = 0]
    BY <1>7 DEF Exec, Execs
  <2> QED BY <1>7, <2>1, <2>2 DEF SetExec
<1>14. /\ exec' \in [DOMAIN term -> Execs] /\ \A u \in DOMAIN term \ {t} : exec'[u] = exec[u]
       /\ exec'[t].ops = o /\ exec'[t].sub = 0 /\ exec'[t].stdout = fd
  <2>1. PICK c \in Codes, sub \in {0} \cup Tasks : c = 0 /\ sub = 0
    BY DEF Codes
  <2>2. exec' = SetExec(t, o, c, sub, fd)
    BY <1>13, <2>1
  <2>3. /\ exec' \in [DOMAIN term -> Execs] /\ \A u \in DOMAIN term \ {t} : exec'[u] = exec[u]
        /\ exec'[t].ops = o /\ exec'[t].sub = sub /\ exec'[t].stdout = fd
    <3>1. o \in Seq(Ops)
      BY <1>11
    <3>2. ExecIs(exec', t, o, sub, fd)
      BY <2>2, <3>1, ExecSet, Zenon
    <3> QED BY <3>2 DEF ExecIs
  <2> QED BY <2>1, <2>3
<1>15. PICK out \in Fds : out = IF ok /\ Cuts(l).dest # <<>> THEN File ELSE fd
  BY DEF Fds
<1>16. PICK c \in Codes, ly \in {0, WLayer} \cup GarbageIds : c = term[t].last /\ ly = term[t].layer
  BY <1>7 DEF Terminals
<1>17. PICK v : v = Stdout(term[t], out, c, ly)
  OBVIOUS
<1>18. /\ v \in Terminals /\ v.show = term[t].show /\ v.x = term[t].x /\ v.y = term[t].y
       /\ v.linebuf = term[t].linebuf /\ v.history = term[t].history /\ v.layer = ly
       /\ v.files[1] = term[t].files[1] /\ v.files[2] = out /\ v.files[3] = term[t].files[3]
  BY <1>7, <1>17, StdoutSet
<1>19. term' = [term EXCEPT ![t] = v]
  <2>1. term' = [term EXCEPT ![t].files[2] = out]
    BY <1>4, <1>7, <1>12, <1>15 DEF Redirected
  <2>2. v = [term[t] EXCEPT !.files[2] = out]
    BY <1>7, <1>16, <1>17 DEF Stdout, Terminals
  <2> QED BY <1>7, <2>1, <2>2
<1>20. term'[t] = v /\ DOMAIN term' = DOMAIN term /\ \A u \in DOMAIN term \ {t} : term'[u] = term[u]
  BY <1>7, <1>19
<1>21. Keyboard => Keyboard'
  BY <1>5, <1>16, <1>18, <1>20, KeyboardKept
<1>22. t = W => v.layer = WLayer
  BY <1>16, <1>18 DEF TerminalInv, WTerminal
<1>23. Running(t)'
  <2>1. t = W => AtStage(s)'
    <3>1. SUFFICES ASSUME t = W PROVE AtStage(s)'
      OBVIOUS
    <3>2. Keyboard /\ term[W].files[2] = Term(W) /\ term[W].linebuf = <<>>
      BY <1>1, <3>1 DEF Split, AtStage
    <3>3. s = "fin" => out = fd
      BY <1>9, <1>15
    <3>4. fd = Term(W) /\ exec'[W].stdout = Term(W) /\ term'[W].linebuf = <<>> /\ term'[W].files[2] = out
      BY <1>12, <1>14, <1>18, <1>20, <3>1, <3>2
    <3> QED BY <1>9, <1>21, <3>2, <3>3, <3>4 DEF AtStage
  <2>2. t # W => AtStageOf(t, s)'
    <3>1. t # W => term[t].layer = 0 /\ t \in DOMAIN queue
      BY <1>1 DEF Split, AtStageOf
    <3> QED BY <1>5, <1>16, <1>18, <1>20, <3>1 DEF AtStageOf
  <2>3. exec'[t].ops = f \o b /\ exec'[t].sub \in {0} \cup Tasks /\ Stage(t, s, b, exec'[t].sub)
    BY <1>9, <1>11, <1>14
  <2>4. NoHalf(f) /\ (f # <<>> => s \in {"close", "end", "fin"})
        /\ s \in {"line", "fork", "route", "command", "close", "wait", "end", "fin"}
    BY <1>9
  <2> QED BY <2>1, <2>2, <2>3, <2>4, Arrives
<1>24. /\ At(t).op \notin {"chr", "half"} /\ exec'[t].sub \in {0} \cup DOMAIN term
       /\ DOMAIN layer_task_map' = DOMAIN layer_task_map
       /\ layer_task_map' = [k \in DOMAIN layer_task_map' |-> layer_task_map'[k]]
       /\ UNCHANGED <<queue, screen, column, disturbed>> /\ exec'[t].ops = g \o Tail(exec[t].ops)
  BY <1>1, <1>5, <1>7, <1>10, <1>14
<1> QED BY <1>1, <1>8, <1>14, <1>18, <1>19, <1>21, <1>22, <1>23, <1>24, StdoutStep

-----------------------------------------------------------------------------
(***************************************************************************)
(* New terminals                                                           *)
(***************************************************************************)

\* A line enters the history.
LEMMA EnteredIs ==
  ASSUME NEW T \in Terminals, NEW line \in Texts, NEW v, v = Entered(T, line)
  PROVE  /\ v \in Terminals /\ v.show = T.show /\ v.x = T.x /\ v.y = T.y /\ v.linebuf = <<>>
         /\ v.files = T.files /\ v.layer = T.layer
         /\ \A i \in 1 .. HistorySize : v.history[i] = line \/ \E j \in 1 .. HistorySize : v.history[i] = T.history[j]
<1>1. PICK n \in Nat \ {0} : n = HistorySize
  BY TerminalAssumption
<1>2. T.history \in [1 .. n -> Texts]
  BY <1>1 DEF Terminals
<1>3. PICK h : h = T.history
  OBVIOUS
<1>4. h \in Seq(Texts) /\ Len(h) = n
  BY <1>2, <1>3, IsASeq
<1>5. PICK f : f = Front(h)
  OBVIOUS
<1>6. f \in Seq(Texts) /\ Len(f) = n - 1 /\ \A i \in 1 .. n - 1 : f[i] = h[i]
  <2>1. \A i \in 1 .. n - 1 : h[i] \in Texts
    BY <1>2, <1>3
  <2>2. PICK k \in Int : k = n - 1
    OBVIOUS
  <2>3. f = SubSeq(h, 1, k)
    BY <1>4, <1>5, <2>2 DEF Front
  <2>4. /\ SubSeq(h, 1, k) \in Seq(Texts) /\ Len(SubSeq(h, 1, k)) = (IF 1 <= k THEN k - 1 + 1 ELSE 0)
        /\ \A i \in 1 .. k - 1 + 1 : SubSeq(h, 1, k)[i] = h[1 + i - 1]
    BY <2>1, <2>2, SubSeqProperties
  <2> QED BY <2>2, <2>3, <2>4
<1>7. PICK w : w = <<line>> \o f
  OBVIOUS
<1>8. /\ w \in Seq(Texts) /\ Len(w) = n
      /\ \A i \in 1 .. n : w[i] = IF i <= 1 THEN line ELSE f[i - 1]
  <2>1. PICK z : z = <<line>>
    OBVIOUS
  <2>2. z \in Seq(Texts) /\ Len(z) = 1 /\ z[1] = line
    BY <2>1
  <2>3. /\ w \in Seq(Texts) /\ Len(w) = Len(z) + Len(f)
        /\ \A i \in 1 .. Len(z) + Len(f) : w[i] = IF i <= Len(z) THEN z[i] ELSE f[i - Len(z)]
    BY <1>6, <1>7, <2>1, <2>2, ConcatProperties
  <2> QED BY <1>6, <2>2, <2>3
<1>9. PICK hs : hs = IF line # <<>> THEN w ELSE h
  OBVIOUS
<1>10. hs \in [1 .. n -> Texts]
  <2>1. w \in [1 .. n -> Texts]
    BY <1>8, SeqDef
  <2> QED BY <1>2, <1>3, <1>9, <2>1
<1>11. \A i \in 1 .. n : hs[i] = line \/ \E j \in 1 .. n : hs[i] = h[j]
  <2>1. ASSUME NEW i \in 1 .. n PROVE hs[i] = line \/ \E j \in 1 .. n : hs[i] = h[j]
    <3>1. CASE line = <<>>
      BY <1>9, <3>1
    <3>2. CASE line # <<>> /\ i <= 1
      BY <1>8, <1>9, <3>2
    <3>3. CASE line # <<>> /\ ~(i <= 1)
      <4>1. i - 1 \in 1 .. n - 1 /\ i - 1 \in 1 .. n
        BY <3>3
      <4>2. hs[i] = h[i - 1]
        BY <1>6, <1>8, <1>9, <3>3, <4>1
      <4> QED BY <4>1, <4>2
    <3> QED BY <3>1, <3>2, <3>3
  <2> QED BY <2>1
<1>12. v = [T EXCEPT !.history = hs, !.linebuf = <<>>, !.index = 0]
  <2>1. hs = IF line # <<>> THEN <<line>> \o Front(T.history) ELSE T.history
    BY <1>3, <1>5, <1>7, <1>9, Zenon
  <2> QED BY <2>1, Zenon DEF Entered
<1>13. v \in Terminals /\ v.history = hs
  <2>1. <<>> \in Texts
    BY TextsAre
  <2>2. 0 \in 0 .. HistorySize /\ hs \in [1 .. HistorySize -> Texts]
    BY <1>1, <1>10
  <2> QED BY <1>12, <2>1, <2>2 DEF Terminals
<1>14. /\ v.show = T.show /\ v.x = T.x /\ v.y = T.y /\ v.linebuf = <<>>
       /\ v.files = T.files /\ v.layer = T.layer
  BY <1>12 DEF Terminals
<1> QED BY <1>1, <1>3, <1>11, <1>13, <1>14

\* A terminal without a window.
LEMMA NewTerminalIs ==
  ASSUME NEW fds \in [1 .. 3 -> Fds], NEW T, T = NewTerminal(FALSE, fds, 0)
  PROVE  T \in Terminals /\ ~T.show /\ T.layer = 0 /\ T.files = fds
<1>1. 0 \in Rows /\ 0 \in 0 .. HistorySize /\ 0 \in Codes
  BY TerminalAssumption DEF Rows, Codes
<1>2. [i \in 1 .. HistorySize |-> <<>>] \in [1 .. HistorySize -> Texts]
  BY TextsAre
<1>3. T \in Terminals
  BY <1>1, <1>2, TextsAre DEF NewTerminal, Terminals
<1> QED BY <1>3 DEF NewTerminal

\* What NewTask and Wakeup change.
LEMMA SpawnIs ==
  ASSUME TerminalInv, NEW t \in DOMAIN term, NEW new \in Tasks, new = Cardinality(DOMAIN term) + 1,
         NEW ex \in [DOMAIN term -> Execs], NEW line \in Texts, NEW fds \in [1 .. 3 -> Fds], Spawn(ex, new, line, fds)
  PROVE  /\ DOMAIN term' = 1 .. new /\ DOMAIN term = 1 .. new - 1 /\ new # W /\ new \in DOMAIN queue'
         /\ term' \in [1 .. new -> Terminals] /\ exec' \in [1 .. new -> Execs]
         /\ DOMAIN queue' = DOMAIN queue \cup {new} /\ queue' \in [DOMAIN queue' -> Seq(Messages)]
         /\ \A u \in DOMAIN term : term'[u] = term[u] /\ exec'[u] = ex[u]
         /\ ~term'[new].show /\ term'[new].layer = 0 /\ exec'[new].sub = 0
         /\ exec'[new].ops = (IF line = <<>> THEN <<>> ELSE <<Op("line", 0, line)>>) \o <<Op("exit", 0, <<>>)>>
<1>1. PICK n \in Tasks : DOMAIN term = 1 .. n
  BY DEF TerminalInv, TypeInv
<1>2. n \in Nat /\ new = n + 1
  <2>1. n \in Nat \ {0}
    BY TerminalAssumption DEF Tasks
  <2>2. Cardinality(1 .. n) = n
    BY <2>1, FS_Interval
  <2> QED BY <1>1, <2>1, <2>2
<1>3. DOMAIN term = 1 .. new - 1 /\ new \notin DOMAIN term /\ DOMAIN term \cup {new} = 1 .. new /\ new # W
  BY <1>1, <1>2, TerminalAssumption DEF Tasks, W
<1>4. term \in [DOMAIN term -> Terminals] /\ DOMAIN queue \subseteq DOMAIN term /\ queue \in [DOMAIN queue -> Seq(Messages)]
  BY TaskFacts
<1>5. PICK T : T = Entered(NewTerminal(FALSE, fds, 0), line)
  OBVIOUS
<1>6. T \in Terminals /\ ~T.show /\ T.layer = 0
  <2>1. PICK N : N = NewTerminal(FALSE, fds, 0)
    OBVIOUS
  <2>2. N \in Terminals /\ ~N.show /\ N.layer = 0
    BY <2>1, NewTerminalIs
  <2>3. T \in Terminals /\ T.show = N.show /\ T.layer = N.layer
    BY <1>5, <2>1, <2>2, EnteredIs
  <2> QED BY <2>2, <2>3
<1>7. PICK o : o = (IF line = <<>> THEN <<>> ELSE <<Op("line", 0, line)>>) \o <<Op("exit", 0, <<>>)>>
  OBVIOUS
<1>8. o \in Seq(Ops)
  <2>1. PICK p, q : p = (IF line = <<>> THEN <<>> ELSE <<Op("line", 0, line)>>) /\ q = <<Op("exit", 0, <<>>)>>
    OBVIOUS
  <2>2. Op("line", 0, line) \in Ops /\ Op("exit", 0, <<>>) \in Ops
    BY LineOpsAre
  <2>3. p \in Seq(Ops) /\ q \in Seq(Ops)
    BY <2>1, <2>2
  <2> QED BY <1>7, <2>1, <2>3, ConcatProperties
<1>9. PICK E : E = [Idle EXCEPT !.ops = o]
  OBVIOUS
<1>10. E \in Execs /\ E.ops = o /\ E.sub = 0
  <2>1. 0 \in Codes /\ File \in Fds
    BY DEF Codes, Fds
  <2> QED BY <1>8, <1>9, <2>1, TextsAre DEF Idle, Execs
<1>11. /\ term' = With(term, new, T) /\ queue' = With(queue, new, <<>>) /\ exec' = With(ex, new, E)
  BY <1>5, <1>7, <1>9 DEF Spawn
<1>12. /\ term' \in [1 .. new -> Terminals] /\ DOMAIN term' = 1 .. new /\ term'[new] = T
       /\ \A u \in DOMAIN term : term'[u] = term[u]
  BY <1>3, <1>4, <1>6, <1>11 DEF With
<1>13. /\ exec' \in [1 .. new -> Execs] /\ exec'[new] = E /\ \A u \in DOMAIN term : exec'[u] = ex[u]
  BY <1>3, <1>10, <1>11 DEF With
<1>14. DOMAIN queue' = DOMAIN queue \cup {new} /\ queue' \in [DOMAIN queue' -> Seq(Messages)]
  <2>1. <<>> \in Seq(Messages)
    OBVIOUS
  <2> QED BY <1>4, <1>11, <2>1 DEF With
<1> QED BY <1>3, <1>6, <1>7, <1>10, <1>12, <1>13, <1>14

\* A new terminal begins with its line.
LEMMA SpawnRuns ==
  ASSUME NEW u \in Tasks \ {W}, NEW line \in Texts, u \in DOMAIN queue', term'[u].layer = 0, exec'[u].sub = 0,
         exec'[u].ops = (IF line = <<>> THEN <<>> ELSE <<Op("line", 0, line)>>) \o <<Op("exit", 0, <<>>)>>
  PROVE  Running(u)' /\ NoHalf(exec'[u].ops)
<1>1. PICK p, q : p = Op("line", 0, line) /\ q = Op("exit", 0, <<>>)
  OBVIOUS
<1>2. p \in Ops /\ q \in Ops /\ q = Fin(u)
  BY <1>1, LineOpsAre DEF Fin
<1>3. <<>> \in Seq(BodyOps) /\ NoHalf(<<>>)
  BY NoOps
<1>4. \A s : u # W => (AtStageOf(u, s)' /\ u # W)
  BY DEF AtStageOf
<1>5. CASE line = <<>>
  <2>1. PICK b : b = <<q>>
    OBVIOUS
  <2>2. exec'[u].ops = <<>> \o b
    BY <1>1, <1>5, <2>1
  <2>3. Stage(u, "fin", b, exec'[u].sub)
    BY <1>2, <2>1 DEF Stage
  <2> QED BY <1>3, <1>4, <2>2, <2>3, Arrives
<1>6. CASE line # <<>>
  <2>1. PICK b : b = <<p, q>>
    OBVIOUS
  <2>2. b \in Seq(Ops)
    BY <1>2, <2>1
  <2>3. exec'[u].ops = <<>> \o b
    <3>1. exec'[u].ops = <<p>> \o <<q>>
      BY <1>1, <1>6
    <3>2. exec'[u].ops = b
      BY <2>1, <3>1, Joins, Zenon
    <3> QED BY <2>2, <3>2, ConcatEmptySeq
  <2>4. Stage(u, "line", b, exec'[u].sub)
    BY <1>1, <1>2, <2>1 DEF Stage
  <2> QED BY <1>3, <1>4, <2>3, <2>4, Arrives
<1> QED BY <1>5, <1>6

\* A step that starts a terminal.
LEMMA SpawnStep ==
  ASSUME TerminalInv, NEW t \in DOMAIN term, exec[t].ops # <<>>, At(t).op \notin {"chr", "half"},
         NEW new \in Tasks, new = Cardinality(DOMAIN term) + 1,
         NEW ex \in [DOMAIN term -> Execs], NEW line \in Texts, NEW fds \in [1 .. 3 -> Fds], Spawn(ex, new, line, fds),
         \A u \in DOMAIN term \ {t} : ex[u] = exec[u], ex[t].sub \in {0, new} \cup DOMAIN term,
         NEW g \in Seq(Ops), NoHalf(g), ex[t].ops = g \o Tail(exec[t].ops),
         UNCHANGED <<screen, layer_task_map, column, disturbed>>, Running(t)'
  PROVE  TerminalInv'
<1>1. /\ DOMAIN term' = 1 .. new /\ DOMAIN term = 1 .. new - 1 /\ new # W /\ new \in DOMAIN queue'
      /\ term' \in [1 .. new -> Terminals] /\ exec' \in [1 .. new -> Execs]
      /\ DOMAIN queue' = DOMAIN queue \cup {new} /\ queue' \in [DOMAIN queue' -> Seq(Messages)]
      /\ \A u \in DOMAIN term : term'[u] = term[u] /\ exec'[u] = ex[u]
      /\ ~term'[new].show /\ term'[new].layer = 0 /\ exec'[new].sub = 0
      /\ exec'[new].ops = (IF line = <<>> THEN <<>> ELSE <<Op("line", 0, line)>>) \o <<Op("exit", 0, <<>>)>>
  BY SpawnIs, ZenonT(30)
<1>2. new \in Nat \ {0} /\ (1 .. new) \ DOMAIN term = {new} /\ DOMAIN term \subseteq 1 .. new /\ DOMAIN term \cup {new} = 1 .. new
  <2>1. new \in Nat \ {0}
    BY TerminalAssumption DEF Tasks
  <2>2. DOMAIN term = 1 .. new - 1
    BY <1>1
  <2>3. (1 .. new) \ (1 .. new - 1) = {new} /\ (1 .. new - 1) \subseteq 1 .. new /\ (1 .. new - 1) \cup {new} = 1 .. new
    BY <2>1
  <2> QED BY <2>1, <2>2, <2>3
<1>3. Running(new)' /\ NoHalf(exec'[new].ops)
  BY <1>1, SpawnRuns
<1>4. /\ DOMAIN queue \subseteq DOMAIN term /\ W \in DOMAIN queue /\ WLayer \in DOMAIN layer_task_map
      /\ layer_task_map = [l \in DOMAIN layer_task_map |-> layer_task_map[l]]
  BY TaskFacts
<1>5. /\ \A u \in DOMAIN term : exec[u].sub \in {0} \cup DOMAIN term
      /\ term[W].layer = WLayer /\ term[W].files[1] = Term(W) /\ term[W].files[3] = Term(W)
  BY DEF TerminalInv, TypeInv, WTerminal
<1>6. \A u \in 1 .. new : exec'[u].sub \in {0} \cup 1 .. new
  <2>1. ASSUME NEW u \in 1 .. new PROVE exec'[u].sub \in {0} \cup 1 .. new
    <3>1. CASE u = new
      BY <1>1, <3>1
    <3>2. CASE u = t
      BY <1>1, <1>2, <3>2
    <3>3. CASE u \in DOMAIN term \ {t}
      <4>1. exec'[u].sub = exec[u].sub /\ exec[u].sub \in {0} \cup DOMAIN term
        BY <1>1, <1>5, <3>3
      <4> QED BY <1>2, <4>1
    <3> QED BY <1>2, <3>1, <3>2, <3>3
  <2> QED BY <2>1
<1>7. /\ \A u \in DOMAIN term \ {t} : term'[u] = term[u] /\ exec'[u] = exec[u]
      /\ exec'[t].ops = g \o Tail(exec[t].ops) /\ term'[t] = term[t]
  BY <1>1
<1>8. t = W => /\ term'[W].layer = WLayer
               /\ term'[W].files[1] = Term(W) /\ term'[W].files[3] = Term(W)
               /\ term'[W].x = term[W].x
               /\ term'[W].linebuf = term[W].linebuf /\ term'[W].history = term[W].history
  BY <1>5, <1>7
<1>9. Keyboard => Keyboard'
  BY <1>1, <1>2, KeyboardKept
<1>10. /\ DOMAIN queue' \subseteq 1 .. new /\ DOMAIN queue \ {t} \subseteq DOMAIN queue' /\ W \in DOMAIN queue'
       /\ WLayer \in DOMAIN layer_task_map' /\ layer_task_map' = [l \in DOMAIN layer_task_map' |-> layer_task_map'[l]]
       /\ screen' = screen /\ (t = W => term'[W].y = term[W].y) /\ column' = column /\ disturbed' = disturbed
       /\ term'[t].show = term[t].show
  BY <1>1, <1>2, <1>4, <1>7
<1>11. \A u \in (1 .. new) \ DOMAIN term : Running(u)' /\ NoHalf(exec'[u].ops) /\ ~term'[u].show
  BY <1>1, <1>2, <1>3, Zenon
<1> QED BY <1>1, <1>2, <1>6, <1>7, <1>8, <1>9, <1>10, <1>11, QuietStep, ZenonT(30)

\* The other side of a pipe is started.
LEMMA ForkKeeps ==
  ASSUME TerminalInv, NEW t \in DOMAIN term, Fork(t)
  PROVE  TerminalInv'
<1>1. Split(t, "fork", <<>>, exec[t].ops) /\ exec[t].ops # <<>> /\ At(t).op = "fork"
  BY AtLine DEF Fork, Busy
<1>2. PICK l \in Texts : exec[t].ops = <<Op("fork", 0, l), Op("command", 0, l), Fin(t)>> /\ Cuts(l).sub # <<>>
  BY <1>1 DEF Split, Stage
<1>3. At(t).s = l /\ Tail(exec[t].ops) = <<Op("command", 0, l), Fin(t)>>
  <2>1. exec[t].ops[1] = Op("fork", 0, l) /\ Tail(exec[t].ops) = <<Op("command", 0, l), Fin(t)>>
    BY <1>2
  <2> QED BY <2>1, OpFields DEF At
<1>4. PICK new, ex : /\ new = Cardinality(DOMAIN term) + 1 /\ new \in Tasks
                     /\ ex = [exec EXCEPT ![t].ops = <<Op("route", new, <<>>)>> \o Tail(@), ![t].sub = new]
                     /\ Spawn(ex, new, Cuts(l).sub[1], [term[t].files EXCEPT ![1] = PipeTo(new)])
  BY <1>3, Zenon DEF Fork
<1>5. UNCHANGED <<screen, layer_task_map, column, disturbed>>
  BY DEF Fork
<1>6. PICK line \in Texts, fds \in [1 .. 3 -> Fds] : line = Cuts(l).sub[1] /\ fds = [term[t].files EXCEPT ![1] = PipeTo(new)]
  <2>1. Cuts(l).sub[1] \in Texts
    BY <1>2, CutsAre
  <2>2. term[t] \in Terminals
    BY TaskFacts
  <2>3. term[t].files \in [1 .. 3 -> Fds] /\ PipeTo(new) \in Fds
    BY <1>4, <2>2 DEF Terminals, Fds
  <2> QED BY <2>1, <2>3
<1>7. /\ exec[t] \in Execs /\ exec \in [DOMAIN term -> Execs] /\ W \in DOMAIN term
      /\ exec[t].ops \in Seq(Ops) /\ exec[t].code \in Codes /\ exec[t].stdout \in Fds
  <2>1. exec[t] \in Execs
    BY TaskFacts
  <2> QED BY <2>1, TaskFacts DEF Execs
<1>8. PICK g, b : g = <<Op("route", new, <<>>)>> /\ b = <<Op("route", new, <<>>), Op("command", 0, l), Fin(t)>>
  OBVIOUS
<1>9. g \in Seq(Ops) /\ NoHalf(g) /\ b \in Seq(Ops) /\ g \o Tail(exec[t].ops) = b /\ <<>> \o b = b
  <2>1. PICK p, q, r : p = Op("route", new, <<>>) /\ q = Op("command", 0, l) /\ r = Fin(t)
    OBVIOUS
  <2>2. p \in Ops /\ q \in Ops /\ r \in Ops /\ p.op # "half" /\ q.op # "half" /\ r.op # "half"
    <3>1. new \in {0} \cup Tasks
      BY <1>4
    <3> QED BY <2>1, <3>1, LineOpsAre, FinIs, OpFields
  <2>3. g = <<p>> /\ b = <<p, q, r>> /\ Tail(exec[t].ops) = <<q, r>>
    BY <1>3, <1>8, <2>1
  <2>4. g \in Seq(Ops) /\ NoHalf(g) /\ b \in Seq(Ops)
    BY <2>2, <2>3, ShortOps
  <2>5. <<p>> \o <<q, r>> = <<p, q, r>>
    BY Joins, Zenon
  <2> QED BY <2>3, <2>4, <2>5, ConcatEmptySeq
<1>10. ex = SetExec(t, b, exec[t].code, new, exec[t].stdout)
  <2>1. ex = [exec EXCEPT ![t].ops = b, ![t].sub = new]
    BY <1>4, <1>7, <1>8, <1>9
  <2>2. Exec(exec[t], b, exec[t].code, new, exec[t].stdout) = [exec[t] EXCEPT !.ops = b, !.sub = new]
    BY <1>7 DEF Exec, Execs
  <2> QED BY <1>7, <2>1, <2>2 DEF SetExec
<1>11. /\ ex \in [DOMAIN term -> Execs] /\ \A u \in DOMAIN term \ {t} : ex[u] = exec[u]
       /\ ex[t].ops = b /\ ex[t].sub = new /\ ex[t].stdout = exec[t].stdout
  <2>1. PICK c \in Codes, sub \in {0} \cup Tasks, fd \in Fds : c = exec[t].code /\ sub = new /\ fd = exec[t].stdout
    BY <1>4, <1>7
  <2>2. ex = SetExec(t, b, c, sub, fd)
    BY <1>10, <2>1
  <2>3. b \in Seq(Ops)
    BY <1>9
  <2>4. /\ ex \in [DOMAIN term -> Execs] /\ \A u \in DOMAIN term \ {t} : ex[u] = exec[u]
        /\ ex[t].ops = b /\ ex[t].sub = sub /\ ex[t].stdout = fd
    <3>1. ExecIs(ex, t, b, sub, fd)
      BY <2>2, <2>3, ExecSet, Zenon
    <3> QED BY <3>1 DEF ExecIs
  <2> QED BY <2>1, <2>4
<1>12. Spawn(ex, new, line, fds)
  BY <1>4, <1>6
<1>13. /\ DOMAIN term' = 1 .. new /\ DOMAIN term = 1 .. new - 1 /\ DOMAIN queue' = DOMAIN queue \cup {new}
       /\ \A u \in DOMAIN term : term'[u] = term[u] /\ exec'[u] = ex[u]
  <2>1. new \in Tasks /\ new = Cardinality(DOMAIN term) + 1 /\ ex \in [DOMAIN term -> Execs]
    BY <1>4, <1>11
  <2> QED BY <1>12, <2>1, SpawnIs, Zenon
<1>14. new # 0 /\ DOMAIN term \subseteq DOMAIN term'
  <2>1. new \in Nat \ {0}
    BY <1>4, TerminalAssumption DEF Tasks
  <2>2. DOMAIN term' = 1 .. new /\ DOMAIN term = 1 .. new - 1
    BY <1>13
  <2> QED BY <2>1, <2>2
<1>15. Keyboard => Keyboard'
  BY <1>5, <1>13, <1>14, KeyboardKept
<1>16. Running(t)'
  <2>1. t = W => AtStage("route")'
    BY <1>1, <1>11, <1>13, <1>15 DEF Split, AtStage
  <2>2. t # W => AtStageOf(t, "route")'
    BY <1>1, <1>13 DEF Split, AtStageOf
  <2>3. exec'[t].ops = <<>> \o b /\ exec'[t].sub \in {0} \cup Tasks /\ exec'[t].sub = new
    BY <1>4, <1>9, <1>11, <1>13
  <2>4. Stage(t, "route", b, exec'[t].sub)
    BY <1>8, <1>14, <2>3 DEF Stage
  <2>5. <<>> \in Seq(BodyOps) /\ NoHalf(<<>>)
    BY NoOps
  <2> QED BY <2>1, <2>2, <2>3, <2>4, <2>5, Arrives
<1>17. ex[t].ops = g \o Tail(exec[t].ops) /\ ex[t].sub \in {0, new} \cup DOMAIN term /\ At(t).op \notin {"chr", "half"}
  BY <1>1, <1>9, <1>11
<1>18. g \in Seq(Ops) /\ NoHalf(g) /\ exec[t].ops # <<>> /\ new \in Tasks /\ new = Cardinality(DOMAIN term) + 1
  BY <1>1, <1>4, <1>9
<1>19. ex \in [DOMAIN term -> Execs] /\ \A u \in DOMAIN term \ {t} : ex[u] = exec[u]
  BY <1>11
<1> QED BY <1>5, <1>12, <1>16, <1>17, <1>18, <1>19, SpawnStep

-----------------------------------------------------------------------------
(***************************************************************************)
(* The command of a line                                                   *)
(***************************************************************************)

\* What follows a command.
LEMMA EndingIs ==
  ASSUME NEW t, NEW sub \in {0} \cup Tasks, NEW b, b = Ending(sub) \o <<Fin(t)>>
  PROVE  /\ Ending(sub) \in Seq(Ops) /\ NoHalf(Ending(sub)) /\ b \in Seq(Ops)
         /\ Stage(t, IF sub = 0 THEN "end" ELSE "close", b, sub)
<1>1. PICK p, q, r, u : p = Op("close", sub, <<>>) /\ q = Op("wait", sub, <<>>) /\ r = Op("end", 0, <<>>) /\ u = Fin(t)
  OBVIOUS
<1>2. /\ p \in Ops /\ p.op # "half" /\ q \in Ops /\ q.op # "half" /\ r \in Ops /\ r.op # "half" /\ u \in Ops /\ u.op # "half"
      /\ r = End_
  BY <1>1, LineOpsAre, FinIs, OpFields DEF End_
<1>3. CASE sub = 0
  <2>1. Ending(sub) = <<>> \o <<r>> /\ <<r>> \in Seq(Ops)
    BY <1>1, <1>2, <1>3 DEF Ending
  <2>2. Ending(sub) = <<r>>
    BY <2>1, ConcatEmptySeq
  <2>3. <<r>> \o <<u>> = <<r, u>>
    BY Joins, Zenon
  <2>4. b = <<r, u>>
    BY <1>1, <2>2, <2>3, Zenon
  <2>5. Stage(t, "end", b, sub)
    BY <1>1, <1>2, <2>4 DEF Stage
  <2>6. Ending(sub) \in Seq(Ops) /\ NoHalf(Ending(sub)) /\ b \in Seq(Ops)
    BY <1>2, <2>2, <2>4, ShortOps
  <2> QED BY <1>3, <2>5, <2>6
<1>4. CASE sub # 0
  <2>1. Ending(sub) = <<p, q>> \o <<r>>
    BY <1>1, <1>4 DEF Ending
  <2>2. Ending(sub) = <<p, q, r>>
    BY <2>1, Joins, Zenon
  <2>3. b = <<p, q, r>> \o <<u>>
    BY <1>1, <2>2
  <2>4. b = <<p, q, r, u>>
    BY <2>3, JoinFour, Zenon
  <2>5. Stage(t, "close", b, sub)
    BY <1>1, <1>2, <1>4, <2>4 DEF Stage
  <2>6. Ending(sub) \in Seq(Ops) /\ NoHalf(Ending(sub)) /\ b \in Seq(Ops)
    BY <1>2, <2>2, <2>4, ShortOps
  <2> QED BY <1>4, <2>5, <2>6
<1> QED BY <1>3, <1>4

\* A task at its command.
LEMMA AtCommand ==
  ASSUME TerminalInv, NEW t \in DOMAIN term, Busy(t, "command")
  PROVE  /\ Split(t, "command", <<>>, exec[t].ops) /\ exec[t].ops # <<>> /\ At(t).op = "command"
         /\ At(t).s \in Texts /\ Tail(exec[t].ops) = <<Fin(t)>>
<1>1. Split(t, "command", <<>>, exec[t].ops) /\ exec[t].ops # <<>> /\ At(t).op = "command"
  BY AtLine DEF Busy
<1>2. PICK l \in Texts : exec[t].ops = <<Op("command", 0, l), Fin(t)>>
  BY <1>1 DEF Split, Stage
<1>3. exec[t].ops[1] = Op("command", 0, l) /\ Tail(exec[t].ops) = <<Fin(t)>>
  BY <1>2
<1> QED BY <1>1, <1>3, OpFields DEF At

\* The operations after the command.
LEMMA CommandOps ==
  ASSUME TerminalInv, NEW t \in DOMAIN term, Busy(t, "command"), NEW f \in Seq(BodyOps), NoHalf(f),
         NEW g, NEW o, g = f \o Ending(exec[t].sub), o = g \o Tail(exec[t].ops)
  PROVE  /\ g \in Seq(Ops) /\ NoHalf(g) /\ o \in Seq(Ops) /\ exec[t].sub \in {0} \cup Tasks
         /\ \E b \in Seq(Ops) : o = f \o b /\ Stage(t, IF exec[t].sub = 0 THEN "end" ELSE "close", b, exec[t].sub)
<1>1. exec[t].sub \in {0} \cup Tasks
  <2>1. exec[t] \in Execs
    BY TaskFacts
  <2> QED BY <2>1 DEF Execs
<1>2. Tail(exec[t].ops) = <<Fin(t)>> /\ <<Fin(t)>> \in Seq(Ops)
  BY AtCommand, FinIs
<1>3. PICK h, b : h = Ending(exec[t].sub) /\ b = h \o <<Fin(t)>>
  OBVIOUS
<1>4. h \in Seq(Ops) /\ NoHalf(h) /\ b \in Seq(Ops) /\ Stage(t, IF exec[t].sub = 0 THEN "end" ELSE "close", b, exec[t].sub)
  BY <1>1, <1>3, EndingIs
<1>5. f \in Seq(Ops)
  BY BodyOpsAre, SeqMonotonic
<1>6. g \in Seq(Ops) /\ NoHalf(g)
  BY <1>3, <1>4, <1>5, NoHalfJoin
<1>7. o = f \o b
  <2>1. PICK z \in Seq(Ops) : z = <<Fin(t)>>
    BY <1>2
  <2>2. (f \o h) \o z = f \o (h \o z)
    BY <1>4, <1>5, ConcatAssociative, SMTT(30)
  <2> QED BY <1>2, <1>3, <2>1, <2>2, Zenon
<1>8. o \in Seq(Ops)
  BY <1>4, <1>5, <1>7, ConcatProperties
<1> QED BY <1>1, <1>4, <1>6, <1>7, <1>8

\* After the command its output is to come, then the end of the line.
LEMMA CommandRuns ==
  ASSUME TerminalInv, NEW t \in DOMAIN term, Busy(t, "command"), NEW f \in Seq(BodyOps), NoHalf(f),
         NEW b \in Seq(Ops), Stage(t, IF exec[t].sub = 0 THEN "end" ELSE "close", b, exec[t].sub),
         exec'[t].ops = f \o b, exec'[t].sub = exec[t].sub, exec'[t].stdout = exec[t].stdout,
         t # W => (t \in DOMAIN queue => t \in DOMAIN queue'),
         t = W => (Keyboard => Keyboard') /\ term'[W].linebuf = term[W].linebuf
  PROVE  Running(t)'
<1>1. Split(t, "command", <<>>, exec[t].ops)
  BY AtCommand
<1>2. PICK s : s = IF exec[t].sub = 0 THEN "end" ELSE "close"
  OBVIOUS
<1>3. exec[t].sub \in {0} \cup Tasks
  <2>1. exec[t] \in Execs
    BY TaskFacts
  <2> QED BY <2>1 DEF Execs
<1>4. t = W => AtStage(s)'
  BY <1>1, <1>2 DEF Split, AtStage
<1>5. t # W => AtStageOf(t, s)'
  BY <1>1, <1>2 DEF Split, AtStageOf
<1>6. Stage(t, s, b, exec'[t].sub) /\ exec'[t].sub \in {0} \cup Tasks /\ s \in {"end", "close"}
  BY <1>2, <1>3
<1>7. s \in {"line", "fork", "route", "command", "close", "wait", "end", "fin"} /\ s \in {"close", "end", "fin"}
  BY <1>6
<1> QED BY <1>4, <1>5, <1>6, <1>7, Arrives

\* What a command prints, and its exit code.
Good(r) == r.ops \in Seq(BodyOps) /\ NoHalf(r.ops) /\ r.code \in Codes

\* A result of a command.
LEMMA ResultIs ==
  ASSUME NEW ops \in Seq(BodyOps), NoHalf(ops), NEW code \in Codes
  PROVE  Good(Result(ops, code)) /\ Result(ops, code).ops = ops /\ Result(ops, code).code = code
BY DEF Result, Good

\* The results of the commands.
LEMMA ResultsAre ==
  ASSUME TerminalInv, NEW t \in DOMAIN term, NEW l \in Texts, NEW c, c = Cuts(l)
  PROVE  /\ Good(Echo(term[t], c)) /\ Good(Ls(c)) /\ Good(Cat(c)) /\ Good(Result(Listing, 0)) /\ Good(Result(<<>>, 0))
         /\ \A ret \in AppCodes \cup {-1} : Good(Run(t, c, ret))
<1>1. c.command \in Texts /\ c.arg \in Texts
  BY CutsAre
<1>2. 0 \in Codes /\ 1 \in Codes /\ AppCodes \subseteq Codes
  BY DEF Codes
<1>3. <<>> \in Seq(BodyOps) /\ NoHalf(<<>>)
  BY NoOps
<1>4. \A c0 \in Symbols : Err(c0) \in Seq(BodyOps) /\ NoHalf(Err(c0))
  BY BodiesAre
<1>5. \A s \in Texts : Out(s) \in Seq(BodyOps) /\ NoHalf(Out(s))
  BY BodiesAre
<1>6. "\n" \in Symbols /\ "entry" \in Symbols /\ "out" \in Symbols /\ "app exited" \in Symbols
      /\ "no such file" \in Symbols /\ "no such command" \in Symbols /\ "failed to exec" \in Symbols
  BY SymbolsAre
<1>7. <<"\n">> \in Texts /\ <<"entry", "\n">> \in Texts /\ <<"out">> \in Texts /\ <<"app exited", "\n">> \in Texts
  BY <1>6, TextsAre
<1>8. Good(Result(Listing, 0)) /\ Good(Result(<<>>, 0))
  <2>1. Listing \in Seq(BodyOps) /\ NoHalf(Listing)
    BY <1>5, <1>7 DEF Listing
  <2> QED BY <1>2, <1>3, <2>1, ResultIs
<1>9. Good(Echo(term[t], c))
  <2>1. PICK x, y : /\ x = (IF c.arg = <<"$?">> THEN Out(<<ToString(term[t].last)>>) ELSE IF c.hasArg THEN Out(c.arg) ELSE <<>>)
                    /\ y = Out(<<"\n">>)
    OBVIOUS
  <2>2. term[t] \in Terminals
    BY TaskFacts
  <2>3. <<ToString(term[t].last)>> \in Texts
    <3>1. term[t].last \in Codes
      BY <2>2 DEF Terminals
    <3>2. ToString(term[t].last) \in Symbols
      BY <3>1, SymbolsAre
    <3> QED BY <3>2, TextsAre
  <2>4. x \in Seq(BodyOps) /\ NoHalf(x) /\ y \in Seq(BodyOps) /\ NoHalf(y)
    BY <1>1, <1>3, <1>5, <1>7, <2>1, <2>3
  <2>5. x \o y \in Seq(BodyOps) /\ NoHalf(x \o y)
    BY <2>4, BodyJoin
  <2>6. Echo(term[t], c) = Result(x \o y, 0)
    BY <2>1, Zenon DEF Echo
  <2> QED BY <1>2, <2>5, <2>6, ResultIs
<1>10. Good(Result(Err("no such file"), 1)) /\ Good(Result(Err("no such command"), 1)) /\ Good(Result(Err("failed to exec"), 0))
  BY <1>2, <1>4, <1>6, ResultIs
<1>11. Good(Ls(c))
  <2>1. c.arg \o <<"\n">> \in Texts
    BY <1>1, <1>7, TextsAre
  <2>2. Good(Result(Out(c.arg \o <<"\n">>), 0))
    BY <1>2, <1>5, <2>1, ResultIs
  <2> QED BY <1>8, <1>10, <2>2 DEF Ls
<1>12. Good(Cat(c))
  <2>1. Good(Result(<<Op("read", 0, <<>>)>>, 0))
    BY <1>2, BodiesAre, ResultIs
  <2>2. Good(Result(Out(FileText), 0))
    BY <1>2, <1>5, SymbolsAre, ResultIs
  <2> QED BY <1>10, <2>1, <2>2 DEF Cat
<1>13. ASSUME NEW ret \in AppCodes \cup {-1} PROVE Good(Run(t, c, ret))
  <2>1. PICK x, y : x = Out(<<"out">>) /\ y = (IF term[t].show THEN Chars(t, <<"app exited", "\n">>) ELSE <<>>)
    OBVIOUS
  <2>2. x \in Seq(BodyOps) /\ NoHalf(x)
    BY <1>5, <1>7, <2>1
  <2>3. y \in Seq(BodyOps) /\ NoHalf(y)
    <3>1. term[t].show => t = W
      BY DEF TerminalInv, WTerminal
    <3>2. Chars(W, <<"app exited", "\n">>) \in Seq(BodyOps) /\ NoHalf(Chars(W, <<"app exited", "\n">>))
      BY <1>7, CharsAre
    <3> QED BY <1>3, <2>1, <3>1, <3>2
  <2>4. x \o y \in Seq(BodyOps) /\ NoHalf(x \o y)
    BY <2>2, <2>3, BodyJoin
  <2>5. ret \in Codes
    BY <1>2 DEF Codes
  <2>6. Good(Result(x \o y, ret))
    BY <2>4, <2>5, ResultIs
  <2>7. \/ Run(t, c, ret) = Result(<<>>, 0) \/ Run(t, c, ret) = Result(Err("no such command"), 1)
        \/ Run(t, c, ret) = Result(Err("failed to exec"), 0) \/ Run(t, c, ret) = Result(x \o y, ret)
    BY <2>1, Zenon DEF Run
  <2> QED BY <1>8, <1>10, <2>6, <2>7, Zenon
<1> QED BY <1>8, <1>9, <1>11, <1>12, <1>13

\* A command that does its work, and perhaps clears the window.
LEMMA CommandDoes ==
  ASSUME TerminalInv, NEW t \in DOMAIN term, Busy(t, "command"), NEW r, Good(r),
         exec' = [exec EXCEPT ![t].ops = r.ops \o Ending(exec[t].sub) \o Tail(@), ![t].code = r.code],
         NEW v, v = term[t] \/ v = [term[t] EXCEPT !.y = 0], term' = [term EXCEPT ![t] = v],
         \/ screen' = screen /\ (t = W => v = term[t])
         \/ t = W /\ screen' = [y \in Rows |-> [x \in Columns |-> Blank]],
         UNCHANGED <<queue, layer_task_map, column, disturbed>>
  PROVE  TerminalInv'
<1>1. exec[t].ops # <<>> /\ At(t).op \notin {"chr", "half"}
  BY DEF Busy
<1>2. PICK f, g, o : f = r.ops /\ g = f \o Ending(exec[t].sub) /\ o = g \o Tail(exec[t].ops)
  OBVIOUS
<1>3. f \in Seq(BodyOps) /\ NoHalf(f) /\ r.code \in Codes
  BY <1>2 DEF Good
<1>4. /\ g \in Seq(Ops) /\ NoHalf(g) /\ o \in Seq(Ops) /\ exec[t].sub \in {0} \cup Tasks
  BY <1>2, <1>3, CommandOps
<1>5. PICK b \in Seq(Ops) : o = f \o b /\ Stage(t, IF exec[t].sub = 0 THEN "end" ELSE "close", b, exec[t].sub)
  BY <1>2, <1>3, CommandOps, ZenonT(30)
<1>6. /\ exec[t] \in Execs /\ exec \in [DOMAIN term -> Execs] /\ term[t] \in Terminals /\ term \in [DOMAIN term -> Terminals]
      /\ DOMAIN queue \subseteq DOMAIN term /\ queue \in [DOMAIN queue -> Seq(Messages)] /\ W \in DOMAIN queue
      /\ WLayer \in DOMAIN layer_task_map /\ exec[t].sub \in {0} \cup DOMAIN term
      /\ layer_task_map = [l \in DOMAIN layer_task_map |-> layer_task_map[l]]
  BY TaskFacts
<1>7. PICK c \in Codes, sub \in {0} \cup Tasks, fd \in Fds : c = r.code /\ sub = exec[t].sub /\ fd = exec[t].stdout
  BY <1>3, <1>4, <1>6 DEF Execs
<1>8. exec' = SetExec(t, o, c, sub, fd)
  <2>1. exec' = [exec EXCEPT ![t].ops = o, ![t].code = c]
    BY <1>2, <1>6, <1>7
  <2>2. Exec(exec[t], o, c, sub, fd) = [exec[t] EXCEPT !.ops = o, !.code = c]
    BY <1>6, <1>7 DEF Exec, Execs
  <2> QED BY <1>6, <2>1, <2>2 DEF SetExec
<1>9. /\ exec' \in [DOMAIN term -> Execs] /\ \A u \in DOMAIN term \ {t} : exec'[u] = exec[u]
      /\ exec'[t].ops = o /\ exec'[t].sub = sub /\ exec'[t].stdout = fd
  <2>1. o \in Seq(Ops)
    BY <1>4
  <2>2. ExecIs(exec', t, o, sub, fd)
    BY <1>8, <2>1, ExecSet, Zenon
  <2> QED BY <2>2 DEF ExecIs
<1>10. /\ v \in Terminals /\ v.show = term[t].show /\ v.x = term[t].x /\ v.linebuf = term[t].linebuf /\ v.history = term[t].history
       /\ v.files = term[t].files /\ v.layer = term[t].layer
  <2>1. 0 \in Rows
    BY TerminalAssumption DEF Rows
  <2> QED BY <1>6, <2>1 DEF Terminals
<1>11. PICK n \in Tasks : DOMAIN term = 1 .. n
  BY DEF TerminalInv, TypeInv
<1>12. /\ DOMAIN term' = 1 .. n /\ DOMAIN term \subseteq 1 .. n /\ term' \in [1 .. n -> Terminals] /\ exec' \in [1 .. n -> Execs]
       /\ term'[t] = v /\ \A u \in DOMAIN term \ {t} : term'[u] = term[u]
  BY <1>6, <1>9, <1>10, <1>11
<1>13. /\ \A u \in DOMAIN term : exec[u].sub \in {0} \cup DOMAIN term
       /\ term[W].layer = WLayer /\ term[W].files[1] = Term(W) /\ term[W].files[3] = Term(W)
  BY DEF TerminalInv, TypeInv, WTerminal
<1>14. \A u \in 1 .. n : exec'[u].sub \in {0} \cup 1 .. n
  BY <1>6, <1>7, <1>9, <1>11, <1>13
<1>15. Keyboard => Keyboard'
  BY <1>10, <1>11, <1>12, KeyboardKept
<1>16. Running(t)'
  <2>1. /\ exec'[t].ops = f \o b /\ exec'[t].sub = exec[t].sub /\ exec'[t].stdout = exec[t].stdout
        /\ t # W => (t \in DOMAIN queue => t \in DOMAIN queue')
        /\ t = W => (Keyboard => Keyboard') /\ term'[W].linebuf = term[W].linebuf
    BY <1>5, <1>7, <1>9, <1>10, <1>12, <1>15
  <2> QED BY <1>3, <1>5, <2>1, CommandRuns
<1>17. t = W => /\ term'[W].layer = WLayer
                /\ term'[W].files[1] = Term(W) /\ term'[W].files[3] = Term(W)
                /\ term'[W].x = term[W].x
                /\ term'[W].linebuf = term[W].linebuf /\ term'[W].history = term[W].history
  BY <1>10, <1>12, <1>13
<1>18. \/ screen' = screen /\ (t = W => term'[W].y = term[W].y)
       \/ t = W /\ screen' = [y \in Rows |-> [x \in Columns |-> Blank]]
  BY <1>12
<1>19. /\ DOMAIN queue' \subseteq 1 .. n /\ queue' \in [DOMAIN queue' -> Seq(Messages)]
       /\ DOMAIN queue \ {t} \subseteq DOMAIN queue' /\ W \in DOMAIN queue'
       /\ WLayer \in DOMAIN layer_task_map' /\ layer_task_map' = [l \in DOMAIN layer_task_map' |-> layer_task_map'[l]]
       /\ column' = column /\ disturbed' = disturbed /\ term'[t].show = term[t].show
       /\ exec'[t].ops = g \o Tail(exec[t].ops) /\ (1 .. n) \ DOMAIN term = {}
  <2>1. /\ DOMAIN queue' \subseteq 1 .. n /\ queue' \in [DOMAIN queue' -> Seq(Messages)]
        /\ DOMAIN queue \ {t} \subseteq DOMAIN queue' /\ W \in DOMAIN queue'
    BY <1>6, <1>11
  <2>2. WLayer \in DOMAIN layer_task_map' /\ layer_task_map' = [l \in DOMAIN layer_task_map' |-> layer_task_map'[l]]
    BY <1>6
  <2>3. column' = column /\ disturbed' = disturbed /\ term'[t].show = term[t].show
    BY <1>10, <1>12
  <2>4. exec'[t].ops = g \o Tail(exec[t].ops) /\ (1 .. n) \ DOMAIN term = {}
    BY <1>2, <1>9, <1>11
  <2> QED BY <2>1, <2>2, <2>3, <2>4
<1>20. \A u \in DOMAIN term \ {t} : term'[u] = term[u] /\ exec'[u] = exec[u]
  BY <1>9, <1>12
<1>21. \A u \in (1 .. n) \ DOMAIN term : Running(u)' /\ NoHalf(exec'[u].ops) /\ ~term'[u].show
  BY <1>19
<1> QED BY <1>1, <1>4, <1>12, <1>14, <1>15, <1>16, <1>17, <1>18, <1>19, <1>20, <1>21, QuietStep

\* noterm starts a command in a terminal of its own.
LEMMA NotermKeeps ==
  ASSUME TerminalInv, NEW t \in DOMAIN term, Busy(t, "command"), NEW line \in Texts,
         NEW new, new = Cardinality(DOMAIN term) + 1, new \in Tasks,
         Spawn([exec EXCEPT ![t].ops = Ending(exec[t].sub) \o Tail(@)], new, line, term[t].files),
         UNCHANGED <<screen, layer_task_map, column, disturbed>>
  PROVE  TerminalInv'
<1>1. exec[t].ops # <<>> /\ At(t).op \notin {"chr", "half"}
  BY DEF Busy
<1>2. PICK f, g, o : f = <<>> /\ g = f \o Ending(exec[t].sub) /\ o = g \o Tail(exec[t].ops)
  OBVIOUS
<1>3. f \in Seq(BodyOps) /\ NoHalf(f)
  BY <1>2, NoOps
<1>4. /\ g \in Seq(Ops) /\ NoHalf(g) /\ o \in Seq(Ops) /\ exec[t].sub \in {0} \cup Tasks
  BY <1>2, <1>3, CommandOps
<1>5. PICK b \in Seq(Ops) : o = f \o b /\ Stage(t, IF exec[t].sub = 0 THEN "end" ELSE "close", b, exec[t].sub)
  BY <1>2, <1>3, CommandOps
<1>6. /\ exec[t] \in Execs /\ exec \in [DOMAIN term -> Execs] /\ term[t] \in Terminals
      /\ exec[t].sub \in {0} \cup DOMAIN term
  BY TaskFacts
<1>7. PICK c \in Codes, sub \in {0} \cup Tasks, fd \in Fds : c = exec[t].code /\ sub = exec[t].sub /\ fd = exec[t].stdout
  BY <1>4, <1>6 DEF Execs
<1>8. PICK ex : ex = [exec EXCEPT ![t].ops = Ending(exec[t].sub) \o Tail(@)]
  OBVIOUS
<1>9. ex = SetExec(t, o, c, sub, fd)
  <2>1. g = Ending(exec[t].sub)
    <3>1. Ending(exec[t].sub) \in Seq(Ops)
      BY <1>4, EndingIs
    <3> QED BY <1>2, <3>1, ConcatEmptySeq
  <2>2. ex = [exec EXCEPT ![t].ops = o]
    BY <1>2, <1>6, <1>8, <2>1
  <2>3. Exec(exec[t], o, c, sub, fd) = [exec[t] EXCEPT !.ops = o]
    BY <1>6, <1>7 DEF Exec, Execs
  <2> QED BY <1>6, <2>2, <2>3 DEF SetExec
<1>10. /\ ex \in [DOMAIN term -> Execs] /\ \A u \in DOMAIN term \ {t} : ex[u] = exec[u]
       /\ ex[t].ops = o /\ ex[t].sub = sub /\ ex[t].stdout = fd
  <2>1. o \in Seq(Ops)
    BY <1>4
  <2>2. ExecIs(ex, t, o, sub, fd)
    BY <1>9, <2>1, ExecSet, Zenon
  <2> QED BY <2>2 DEF ExecIs
<1>11. PICK fds \in [1 .. 3 -> Fds] : fds = term[t].files
  BY <1>6 DEF Terminals
<1>12. Spawn(ex, new, line, fds) /\ ex \in [DOMAIN term -> Execs]
  BY <1>8, <1>10, <1>11
<1>13. /\ DOMAIN term' = 1 .. new /\ DOMAIN term = 1 .. new - 1 /\ DOMAIN queue' = DOMAIN queue \cup {new}
       /\ \A u \in DOMAIN term : term'[u] = term[u] /\ exec'[u] = ex[u]
  BY <1>12, SpawnIs, Zenon
<1>14. DOMAIN term \subseteq DOMAIN term'
  <2>1. new \in Nat \ {0}
    BY TerminalAssumption DEF Tasks
  <2>2. DOMAIN term' = 1 .. new /\ DOMAIN term = 1 .. new - 1
    BY <1>13
  <2>3. (1 .. new - 1) \subseteq (1 .. new)
    BY <2>1
  <2> QED BY <2>2, <2>3
<1>15. Keyboard => Keyboard'
  BY <1>13, <1>14, KeyboardKept
<1>16. Running(t)'
  <2>1. /\ exec'[t].ops = f \o b /\ exec'[t].sub = exec[t].sub /\ exec'[t].stdout = exec[t].stdout
        /\ t # W => (t \in DOMAIN queue => t \in DOMAIN queue')
        /\ t = W => (Keyboard => Keyboard') /\ term'[W].linebuf = term[W].linebuf
    BY <1>5, <1>7, <1>10, <1>13, <1>15
  <2> QED BY <1>3, <1>5, <2>1, CommandRuns
<1>17. ex[t].ops = g \o Tail(exec[t].ops) /\ ex[t].sub \in {0, new} \cup DOMAIN term
  BY <1>2, <1>6, <1>7, <1>10
<1>18. g \in Seq(Ops) /\ NoHalf(g)
  BY <1>4
<1>19. \A u \in DOMAIN term \ {t} : ex[u] = exec[u]
  BY <1>10
<1> QED BY <1>1, <1>12, <1>16, <1>17, <1>18, <1>19, SpawnStep

\* The command of a line.
LEMMA CommandKeeps ==
  ASSUME TerminalInv, NEW t \in DOMAIN term, Command(t)
  PROVE  TerminalInv'
<1>1. Busy(t, "command") /\ UNCHANGED <<layer_task_map, files, typed, column, disturbed>>
  BY DEF Command
<1>2. PICK l, c : l = At(t).s /\ c = Cuts(l)
  OBVIOUS
<1>3. l \in Texts /\ c.arg \in Texts
  BY <1>1, <1>2, AtCommand, CutsAre
<1>4. /\ Good(Echo(term[t], c)) /\ Good(Ls(c)) /\ Good(Cat(c)) /\ Good(Result(Listing, 0)) /\ Good(Result(<<>>, 0))
      /\ \A ret \in AppCodes \cup {-1} : Good(Run(t, c, ret))
  BY <1>2, <1>3, ResultsAre
<1> DEFINE does(r) == exec' = [exec EXCEPT ![t].ops = r.ops \o Ending(exec[t].sub) \o Tail(@), ![t].code = r.code]
<1>5. term \in [DOMAIN term -> Terminals] /\ term = [term EXCEPT ![t] = term[t]]
  <2>1. term \in [DOMAIN term -> Terminals]
    BY TaskFacts
  <2> QED BY <2>1
<1>6. ASSUME NEW r, Good(r), does(r), UNCHANGED <<term, queue, screen>> PROVE TerminalInv'
  <2>1. PICK v : v = term[t]
    OBVIOUS
  <2>2. /\ v = term[t] \/ v = [term[t] EXCEPT !.y = 0]
        /\ term' = [term EXCEPT ![t] = v]
        /\ \/ screen' = screen /\ (t = W => v = term[t])
           \/ t = W /\ screen' = [y \in Rows |-> [x \in Columns |-> Blank]]
        /\ UNCHANGED <<queue, layer_task_map, column, disturbed>>
    BY <1>1, <1>5, <1>6, <2>1
  <2> QED BY <1>1, <1>6, <2>2, CommandDoes, Zenon
<1>7. CASE /\ does(Result(<<>>, 0)) /\ term' = [term EXCEPT ![t].y = 0] /\ UNCHANGED queue
           /\ screen' = IF term[t].show THEN [y \in Rows |-> [x \in Columns |-> Blank]] ELSE screen
  <2>1. PICK v, r : v = [term[t] EXCEPT !.y = 0] /\ r = Result(<<>>, 0)
    OBVIOUS
  <2>2. term[t].show <=> t = W
    BY DEF TerminalInv, WTerminal
  <2>3. term' = [term EXCEPT ![t] = v]
    BY <1>5, <1>7, <2>1
  <2>4. /\ v = term[t] \/ v = [term[t] EXCEPT !.y = 0]
        /\ \/ screen' = screen /\ (t = W => v = term[t])
           \/ t = W /\ screen' = [y \in Rows |-> [x \in Columns |-> Blank]]
        /\ UNCHANGED <<queue, layer_task_map, column, disturbed>>
    BY <1>1, <1>7, <2>1, <2>2
  <2>5. Good(r) /\ does(r)
    BY <1>4, <1>7, <2>1
  <2> QED BY <1>1, <2>3, <2>4, <2>5, CommandDoes, Zenon
<1>8. CASE /\ Cardinality(DOMAIN term) + 1 \in Tasks /\ UNCHANGED screen
           /\ Spawn([exec EXCEPT ![t].ops = Ending(exec[t].sub) \o Tail(@)], Cardinality(DOMAIN term) + 1, c.arg, term[t].files)
  <2>1. PICK line, new : line = c.arg /\ new = Cardinality(DOMAIN term) + 1
    OBVIOUS
  <2>2. line \in Texts /\ new \in Tasks /\ UNCHANGED <<screen, layer_task_map, column, disturbed>>
    BY <1>1, <1>3, <1>8, <2>1
  <2>3. Spawn([exec EXCEPT ![t].ops = Ending(exec[t].sub) \o Tail(@)], new, line, term[t].files)
    BY <1>8, <2>1
  <2> QED BY <1>1, <2>1, <2>2, <2>3, NotermKeeps, Zenon
<1>9. \/ \E r : Good(r) /\ does(r) /\ UNCHANGED <<term, queue, screen>>
      \/ /\ does(Result(<<>>, 0)) /\ term' = [term EXCEPT ![t].y = 0] /\ UNCHANGED queue
         /\ screen' = IF term[t].show THEN [y \in Rows |-> [x \in Columns |-> Blank]] ELSE screen
      \/ /\ Cardinality(DOMAIN term) + 1 \in Tasks /\ UNCHANGED screen
         /\ Spawn([exec EXCEPT ![t].ops = Ending(exec[t].sub) \o Tail(@)], Cardinality(DOMAIN term) + 1, c.arg, term[t].files)
  BY <1>2, <1>4, Zenon DEF Command
<1> QED BY <1>6, <1>7, <1>8, <1>9


-----------------------------------------------------------------------------
(***************************************************************************)
(* Printing                                                                *)
(***************************************************************************)

\* The terminal v is T with the cursor at another place
Moved(T, v, x, y) ==
  /\ v \in Terminals /\ v.x = x /\ v.y = y /\ v.show = T.show /\ v.linebuf = T.linebuf
  /\ v.history = T.history /\ v.files = T.files /\ v.layer = T.layer
CursorGoes(x, y) ==
  /\ term' \in [DOMAIN term -> Terminals]
  /\ \A u \in DOMAIN term \ {W} : term'[u] = term[u]
  /\ Moved(term[W], term'[W], x, y)
BlankFrom(scr, x0, y0) ==
  \A y \in Rows, x \in Columns : y > y0 \/ (y = y0 /\ x >= x0) => scr[y][x] = Blank

\* A step that prints keeps the invariant if the task that prints is at a stage
\* after it, and the window is in order when no other task prints.
LEMMA PrintStep ==
  ASSUME TerminalInv, NEW t \in DOMAIN term,
         exec' \in [DOMAIN term -> Execs], exec'[t].sub = exec[t].sub,
         \A u \in DOMAIN term \ {t} : exec'[u] = exec[u],
         NEW x, NEW y, CursorGoes(x, y), screen' \in [Rows -> [Columns -> Symbols]],
         disturbed' = (disturbed \/ Intrudes(t, W)), t # W => column' = column,
         UNCHANGED <<queue, layer_task_map>>,
         Running(t)', ~disturbed' => Window'
  PROVE  TerminalInv'
<1>1. TypeInv /\ WTerminal /\ (\A u \in DOMAIN term : Running(u))
  BY DEF TerminalInv
<1>2. /\ term' \in [DOMAIN term -> Terminals] /\ DOMAIN term' = DOMAIN term /\ W \in DOMAIN term
      /\ \A u \in DOMAIN term \ {W} : term'[u] = term[u]
  BY TaskFacts DEF CursorGoes
<1>3. /\ term'[W].show = term[W].show /\ term'[W].linebuf = term[W].linebuf
      /\ term'[W].files = term[W].files /\ term'[W].layer = term[W].layer
  BY DEF CursorGoes, Moved
<1>4. TypeInv'
  <2>1. disturbed' \in BOOLEAN
    BY <1>1 DEF TypeInv, Intrudes, AtPrompt, Busy
  <2>2. \A u \in DOMAIN term' : exec'[u].sub \in {0} \cup DOMAIN term'
    BY <1>1, <1>2 DEF TypeInv
  <2> QED BY <1>1, <1>2, <2>1, <2>2 DEF TypeInv
<1>5. WTerminal'
  BY <1>1, <1>2, <1>3 DEF WTerminal
<1>6. Keyboard => Keyboard'
  BY <1>2, KeyboardKept
<1>7. ASSUME NEW u \in DOMAIN term' PROVE Running(u)'
  <2>1. CASE u = t
    BY <2>1
  <2>2. CASE u # t
    <3>1. Running(u) /\ exec'[u] = exec[u]
      BY <1>1, <1>2, <2>2
    <3>2. u # W => term'[u].layer = term[u].layer /\ (u \in DOMAIN queue => u \in DOMAIN queue')
      BY <1>2
    <3>3. u = W => ~(~disturbed' /\ Busy(W, "half"))
      <4>1. SUFFICES ASSUME u = W, Busy(W, "half") PROVE Intrudes(t, W)
        OBVIOUS
      <4>2. At(W).n = W
        BY <1>2, <4>1, NextOp DEF Busy
      <4> QED BY <1>2, <2>2, <4>1, <4>2 DEF Intrudes
    <3>4. u = W => /\ Keyboard => Keyboard'
                   /\ term'[W].files[2] = term[W].files[2] /\ term'[W].linebuf = term[W].linebuf
                   /\ ~disturbed' /\ Busy(W, "half") => ~disturbed /\ column' = column /\ term'[W].x = term[W].x
      BY <1>3, <1>6, <3>3
    <3> QED BY <3>1, <3>2, <3>4, OtherRuns
  <2> QED BY <2>1, <2>2
<1> QED BY <1>4, <1>5, <1>7 DEF TerminalInv

\* The window while a line runs.
LEMMA WindowBusy ==
  ASSUME Window, NEW t \in DOMAIN term, NEW x \in Nat, NEW y, CursorGoes(x, y), exec'[W].ops # <<>>, x <= kColumns,
         BlankFrom(screen', x, y),
         \A u \in DOMAIN term : Busy(u, "half")' => u = t /\ Fits(x, At(t)'.s[1])
  PROVE  Window'
<1>1. /\ DOMAIN term' = DOMAIN term /\ term'[W].x = x /\ term'[W].y = y
      /\ term'[W].linebuf = term[W].linebuf /\ term'[W].history = term[W].history
  BY DEF CursorGoes, Moved
<1>2. \A u \in DOMAIN term' : Busy(u, "half")' =>
        /\ Fits(term'[W].x, At(u)'.s[1]) /\ exec'[W].ops # <<>>
        /\ \A v \in DOMAIN term' : Busy(v, "half")' => v = u
  BY <1>1
<1>3. PromptLineFaithful'
  BY DEF PromptLineFaithful, AtPrompt
<1>4. \A yy \in Rows, xx \in Columns : yy > term'[W].y \/ (yy = term'[W].y /\ xx >= term'[W].x) => screen'[yy][xx] = Blank
  BY <1>1 DEF BlankFrom
<1> QED BY <1>1, <1>2, <1>3, <1>4 DEF Window

\* The text below and right of the cursor is blank after a newline.
LEMMA NewlineIs ==
  ASSUME NEW T \in Terminals, screen \in [Rows -> [Columns -> Symbols]], NEW c, c = Newline(T),
         NEW scr, scr = IF c.scroll THEN Scroll1(screen) ELSE screen
  PROVE  /\ c.x = 0 /\ c.y \in Rows /\ scr \in [Rows -> [Columns -> Symbols]]
         /\ BlankFrom(screen, T.x, T.y) => BlankFrom(scr, 0, c.y)
<1>1. T.y \in Rows /\ T.y \in Nat /\ kRows \in Nat /\ T.y <= kRows - 1 /\ kRows >= 2
  BY TerminalAssumption DEF Terminals, Rows
<1>2. c.x = 0 /\ c.y = (IF T.y < kRows - 1 THEN T.y + 1 ELSE T.y) /\ (c.scroll <=> T.y = kRows - 1)
  BY DEF Newline
<1>3. c.y \in Rows
  BY <1>1, <1>2 DEF Rows
<1>4. CASE T.y = kRows - 1
  <2>1. scr = Scroll1(screen) /\ c.y = kRows - 1
    BY <1>1, <1>2, <1>4
  <2>2. \A y \in Rows : y # kRows - 1 => y + 1 \in Rows
    BY <1>1 DEF Rows
  <2>3. [x \in Columns |-> Blank] \in [Columns -> Symbols]
    BY SymbolsAre
  <2>4. scr \in [Rows -> [Columns -> Symbols]]
    BY <2>1, <2>2, <2>3 DEF Scroll1
  <2>5. BlankFrom(scr, 0, c.y)
    <3>1. ASSUME NEW y \in Rows, NEW x \in Columns, y > c.y \/ y = c.y PROVE scr[y][x] = Blank
      <4>1. y = kRows - 1
        BY <1>1, <2>1, <3>1 DEF Rows
      <4> QED BY <2>1, <4>1 DEF Scroll1
    <3>2. \A y \in Rows, x \in Columns : (y > c.y \/ (y = c.y /\ x >= 0)) => scr[y][x] = Blank
      BY <3>1
    <3> QED BY <3>2, Zenon DEF BlankFrom
  <2> QED BY <1>2, <1>3, <2>4, <2>5
<1>5. CASE T.y # kRows - 1
  <2>1. scr = screen /\ c.y = T.y + 1
    BY <1>1, <1>2, <1>5
  <2>2. BlankFrom(screen, T.x, T.y) => BlankFrom(scr, 0, c.y)
    <3>1. ASSUME BlankFrom(screen, T.x, T.y), NEW y \in Rows, NEW x \in Columns, y > c.y \/ y = c.y
          PROVE  scr[y][x] = Blank
      <4>1. y > T.y
        BY <1>1, <2>1, <3>1 DEF Rows
      <4> QED BY <2>1, <3>1, <4>1 DEF BlankFrom
    <3>2. SUFFICES ASSUME BlankFrom(screen, T.x, T.y) PROVE BlankFrom(scr, 0, c.y)
      OBVIOUS
    <3>3. \A y \in Rows, x \in Columns : (y > c.y \/ (y = c.y /\ x >= 0)) => scr[y][x] = Blank
      BY <3>1, <3>2
    <3> QED BY <3>3, Zenon DEF BlankFrom
  <2> QED BY <1>2, <1>3, <2>1, <2>2
<1> QED BY <1>4, <1>5

\* A character is half printed, the next operations are as before.
LEMMA HalfPushed ==
  ASSUME NEW o \in Seq(Ops), o # <<>>, HalfFirst(o), NEW h \in Ops, NEW z, z = <<h>>, NEW q, q = z \o Tail(o)
  PROVE  q \in Seq(Ops) /\ q # <<>> /\ q[1] = h /\ HalfFirst(q)
<1>1. PICK r \in Seq(Ops) : r = Tail(o)
  BY HeadTailProperties
<1>2. NoHalf(r)
  BY <1>1 DEF HalfFirst
<1>4. z \in Seq(Ops) /\ Len(z) = 1 /\ z[1] = h
  OBVIOUS
<1>5. q = z \o r
  BY <1>1
<1>6. /\ q \in Seq(Ops) /\ Len(q) = 1 + Len(r) /\ Len(r) \in Nat
      /\ \A i \in 1 .. 1 + Len(r) : q[i] = IF i <= 1 THEN z[i] ELSE r[i - 1]
  <2>1. /\ q \in Seq(Ops) /\ Len(q) = Len(z) + Len(r)
        /\ \A i \in 1 .. Len(z) + Len(r) : q[i] = IF i <= Len(z) THEN z[i] ELSE r[i - Len(z)]
    <3>1. z \in Seq(Ops) /\ r \in Seq(Ops)
      BY <1>4
    <3>2. /\ z \o r \in Seq(Ops) /\ Len(z \o r) = Len(z) + Len(r)
          /\ \A i \in 1 .. Len(z) + Len(r) : (z \o r)[i] = IF i <= Len(z) THEN z[i] ELSE r[i - Len(z)]
      BY <3>1, ConcatProperties, Zenon
    <3> QED BY <1>5, <3>2, Zenon
  <2>2. Len(r) \in Nat
    BY LenProperties
  <2> QED BY <1>4, <2>1, <2>2
<1>7. q # <<>> /\ q[1] = h
  <2>1. 1 \in 1 .. 1 + Len(r) /\ Len(q) # 0
    BY <1>6
  <2> QED BY <1>4, <1>6, <2>1
<1>8. NoHalf(Tail(q))
  <2>1. Len(Tail(q)) = Len(q) - 1 /\ \A i \in 1 .. Len(Tail(q)) : Tail(q)[i] = q[i + 1]
    BY <1>6, <1>7, HeadTailProperties
  <2>2. ASSUME NEW i \in 1 .. Len(Tail(q)) PROVE Tail(q)[i].op # "half"
    <3>1. i \in 1 .. Len(r) /\ i + 1 \in 1 .. 1 + Len(r) /\ ~(i + 1 <= 1) /\ (i + 1) - 1 = i
      BY <1>6, <2>1
    <3>2. Tail(q)[i] = r[i]
      BY <1>6, <2>1, <3>1
    <3> QED BY <1>2, <3>1, <3>2 DEF NoHalf
  <2> QED BY <2>2 DEF NoHalf
<1> QED BY <1>6, <1>7, <1>8 DEF HalfFirst


\* The cursor is moved, or stays.
LEMMA MoveIs ==
  ASSUME TerminalInv, W \in DOMAIN term, NEW x \in Nat, NEW y \in Rows
  PROVE  /\ term' = [term EXCEPT ![W].x = x, ![W].y = y] => CursorGoes(x, y)
         /\ term' = term => CursorGoes(term[W].x, term[W].y)
<1>1. term \in [DOMAIN term -> Terminals] /\ term[W] \in Terminals
  BY TaskFacts
<1>2. PICK v : v = [term[W] EXCEPT !.x = x, !.y = y]
  OBVIOUS
<1>3. Moved(term[W], v, x, y)
  BY <1>1, <1>2 DEF Moved, Terminals
<1>4. ASSUME term' = [term EXCEPT ![W].x = x, ![W].y = y] PROVE CursorGoes(x, y)
  <2>1. term' = [term EXCEPT ![W] = v]
    BY <1>1, <1>2, <1>4 DEF Terminals
  <2>2. v \in Terminals
    BY <1>3 DEF Moved
  <2>3. term'[W] = v /\ term' \in [DOMAIN term -> Terminals] /\ \A u \in DOMAIN term \ {W} : term'[u] = term[u]
    BY <1>1, <2>1, <2>2
  <2> QED BY <1>3, <2>3 DEF CursorGoes
<1>5. ASSUME term' = term PROVE CursorGoes(term[W].x, term[W].y)
  BY <1>1, <1>5 DEF CursorGoes, Moved
<1> QED BY <1>4, <1>5

\* A character fits where Print(char32_t) puts it.
LEMMA FitsIs ==
  ASSUME NEW x \in Nat, NEW c, x <= kColumns
  PROVE  Fits(0, c) /\ (~NeedsNewline(x, c) => Fits(x, c))
BY TerminalAssumption DEF Fits, NeedsNewline

\* What Print(char32_t) does up to the test of cursor_.x.
LEMMA PrintBeginIs ==
  ASSUME TerminalInv, NEW t \in DOMAIN term, PrintBegin(t)
  PROVE  \E c \in Symbols, x \in Nat, y \in Rows :
           /\ At(t).s = <<c>> /\ CursorGoes(x, y) /\ screen' \in [Rows -> [Columns -> Symbols]]
           /\ BlankFrom(screen, term[W].x, term[W].y) => BlankFrom(screen', x, y)
           /\ term[W].x <= kColumns => x <= kColumns /\ Fits(x, c)
           /\ exec' = Goes(t, IF c = "\n" THEN <<>> ELSE <<Op("half", W, <<c>>)>>)
           /\ c = ">" /\ t = W => column' = x
           /\ t # W => column' = column
           /\ disturbed' = (disturbed \/ Intrudes(t, W))
<1>1. exec[t].ops # <<>> /\ At(t).op = "chr" /\ W \in DOMAIN term /\ term[W] \in Terminals
  BY TaskFacts DEF PrintBegin, Busy
<1>2. At(t).n = W /\ \E c \in Symbols : At(t).s = <<c>>
  BY <1>1, NextOp
<1>3. PICK c \in Symbols : At(t).s = <<c>>
  BY <1>2
<1>4. c = At(t).s[1]
  BY <1>3
<1>5. PICK m : m = Newline(term[W])
  OBVIOUS
<1>6. PICK scr : scr = IF m.scroll THEN Scroll1(screen) ELSE screen
  OBVIOUS
<1>7. screen \in [Rows -> [Columns -> Symbols]]
  BY DEF TerminalInv, TypeInv
<1>8. /\ m.x = 0 /\ m.y \in Rows /\ scr \in [Rows -> [Columns -> Symbols]]
      /\ BlankFrom(screen, term[W].x, term[W].y) => BlankFrom(scr, 0, m.y)
  BY <1>1, <1>5, <1>6, <1>7, NewlineIs
<1>9. term[W].x \in Nat /\ term[W].y \in Rows /\ kColumns \in Nat
  BY <1>1, TerminalAssumption DEF Terminals
<1>10. MoveTo(W, m) => CursorGoes(0, m.y) /\ screen' = scr
  <2>1. SUFFICES ASSUME MoveTo(W, m) PROVE CursorGoes(0, m.y) /\ screen' = scr
    OBVIOUS
  <2>2. term' = [term EXCEPT ![W].x = m.x, ![W].y = m.y] /\ screen' = scr
    BY <1>6, <2>1, Zenon DEF MoveTo
  <2>3. term' = [term EXCEPT ![W].x = 0, ![W].y = m.y]
    BY <1>8, <2>2, Zenon
  <2>4. 0 \in Nat /\ m.y \in Rows /\ W \in DOMAIN term
    BY <1>1, <1>8
  <2>5. CursorGoes(0, m.y)
    BY <2>3, <2>4, MoveIs, Zenon
  <2> QED BY <2>2, <2>5
<1>11. disturbed' = (disturbed \/ Intrudes(t, W)) /\ (t # W => column' = column)
  BY <1>2 DEF PrintBegin
<1>12. c = "\n" => MoveTo(W, m) /\ exec' = Goes(t, <<>>)
  BY <1>2, <1>4, <1>5 DEF PrintBegin
<1>13. c # "\n" => /\ IF NeedsNewline(term[W].x, c) THEN MoveTo(W, m) ELSE UNCHANGED <<term, screen>>
                   /\ exec' = Goes(t, <<Op("half", W, <<c>>)>>)
  BY <1>2, <1>4, <1>5 DEF PrintBegin
<1>14. c = ">" /\ t = W => column' = IF NeedsNewline(term[W].x, c) THEN 0 ELSE term[W].x
  BY <1>2, <1>4 DEF PrintBegin
<1>15. exec' = Goes(t, IF c = "\n" THEN <<>> ELSE <<Op("half", W, <<c>>)>>)
  BY <1>12, <1>13, Zenon
<1>16. CASE c = "\n" \/ NeedsNewline(term[W].x, c)
  <2>1. MoveTo(W, m)
    BY <1>12, <1>13, <1>16, Zenon
  <2>2. CursorGoes(0, m.y) /\ screen' \in [Rows -> [Columns -> Symbols]]
        /\ (BlankFrom(screen, term[W].x, term[W].y) => BlankFrom(screen', 0, m.y))
    BY <1>8, <1>10, <2>1, Zenon
  <2>3. term[W].x <= kColumns => 0 <= kColumns /\ Fits(0, c)
    BY <1>9, FitsIs
  <2>4. c = ">" /\ t = W => column' = 0
    <3>1. ">" # "\n"
      OBVIOUS
    <3> QED BY <1>14, <1>16, <3>1, Zenon
  <2>5. 0 \in Nat /\ m.y \in Rows
    BY <1>8
  <2> QED BY <1>3, <1>11, <1>15, <2>2, <2>3, <2>4, <2>5, Zenon
<1>17. CASE ~(c = "\n" \/ NeedsNewline(term[W].x, c))
  <2>1. term' = term /\ screen' = screen
    BY <1>13, <1>17
  <2>2. CursorGoes(term[W].x, term[W].y)
    BY <1>1, <1>9, <2>1, MoveIs
  <2>3. term[W].x <= kColumns => term[W].x <= kColumns /\ Fits(term[W].x, c)
    BY <1>9, <1>17, FitsIs
  <2>4. c = ">" /\ t = W => column' = term[W].x
    BY <1>14, <1>17, Zenon
  <2>5. screen' \in [Rows -> [Columns -> Symbols]]
        /\ (BlankFrom(screen, term[W].x, term[W].y) => BlankFrom(screen', term[W].x, term[W].y))
    BY <1>7, <2>1, Zenon
  <2> QED BY <1>3, <1>9, <1>11, <1>15, <2>2, <2>3, <2>4, <2>5, Zenon
<1> QED BY <1>16, <1>17

\* A task that prints runs a command, or W prints its prompt.
LEMMA PrintAt ==
  ASSUME TerminalInv, NEW t \in DOMAIN term, exec[t].ops # <<>>, At(t).op \in {"chr", "half"}
  PROVE  \/ \E s, f, b : Split(t, s, f, b) /\ f # <<>>
         \/ /\ t = W /\ At(t) = Op("chr", W, <<">">>) /\ exec[t].ops = <<Op("chr", W, <<">">>)>>
            /\ Split(t, "fin", <<>>, exec[t].ops)
         \/ /\ t = W /\ At(t) = Op("half", W, <<">">>) /\ exec[t].ops = <<Op("half", W, <<">">>)>>
            /\ Split(t, "prompt", <<>>, exec[t].ops)
<1>1. PICK s, f, b : Split(t, s, f, b)
  BY TaskFacts DEF Running
<1>2. SUFFICES ASSUME f = <<>>
               PROVE  \/ /\ t = W /\ At(t) = Op("chr", W, <<">">>) /\ exec[t].ops = <<Op("chr", W, <<">">>)>>
                         /\ Split(t, "fin", <<>>, exec[t].ops)
                      \/ /\ t = W /\ At(t) = Op("half", W, <<">">>) /\ exec[t].ops = <<Op("half", W, <<">">>)>>
                         /\ Split(t, "prompt", <<>>, exec[t].ops)
  BY <1>1
<1>3. Split(t, s, <<>>, b)
  BY <1>1, <1>2
<1>4. exec[t].ops = b
  BY <1>3, SplitLine
<1>5. \/ s \in {"line", "fork", "route", "command", "close", "wait", "end"} /\ At(t).op = s
      \/ s = "fin" /\ b = <<Fin(t)>> /\ At(t) = Fin(t)
      \/ s = "prompt" /\ t = W /\ At(t) = Op("half", W, <<">">>)
      \/ s = "over" /\ t # W /\ At(t) = Op("done", 0, <<>>)
  BY <1>3, <1>4, SplitLine
<1>6. s \in {"fin", "prompt"}
  BY <1>5, OpFields
<1>7. CASE s = "fin"
  <2>1. b = <<Fin(t)>> /\ At(t) = Fin(t)
    BY <1>5, <1>7
  <2>2. t = W
    <3>1. t # W => Fin(t).op = "exit"
      BY OpFields DEF Fin
    <3> QED BY <2>1, <3>1
  <2>3. Fin(t) = Op("chr", W, <<">">>)
    BY <2>2 DEF Fin
  <2> QED BY <1>3, <1>4, <1>7, <2>1, <2>2, <2>3, Zenon
<1>8. CASE s = "prompt"
  <2>1. t = W /\ At(t) = Op("half", W, <<">">>)
    BY <1>5, <1>8
  <2>2. b = <<Op("half", W, <<">">>)>>
    BY <1>3, <1>8 DEF Split, Stage
  <2> QED BY <1>3, <1>4, <1>8, <2>1, <2>2, Zenon
<1> QED BY <1>6, <1>7, <1>8

\* After a print the command of the task goes on.
LEMMA PrintGoes ==
  ASSUME TerminalInv, NEW t \in DOMAIN term, NEW s, NEW f, NEW b, Split(t, s, f, b), f # <<>>,
         NEW x, NEW y, CursorGoes(x, y), UNCHANGED <<queue, layer_task_map>>,
         NEW g \in Seq(BodyOps), exec'[t].ops = g \o Tail(exec[t].ops), HalfFirst(exec'[t].ops),
         exec'[t].sub = exec[t].sub, exec'[t].stdout = exec[t].stdout
  PROVE  Running(t)' /\ exec'[t].ops # <<>>
<1>1. /\ term' \in [DOMAIN term -> Terminals] /\ DOMAIN term' = DOMAIN term /\ W \in DOMAIN term
      /\ \A u \in DOMAIN term \ {W} : term'[u] = term[u]
      /\ term'[W].files = term[W].files /\ term'[W].linebuf = term[W].linebuf
  BY TaskFacts DEF CursorGoes, Moved
<1>2. Keyboard => Keyboard'
  BY <1>1, KeyboardKept
<1>3. Running(t)'
  BY <1>1, <1>2, BodyRuns
<1>4. exec'[t].ops # <<>>
  <2>1. /\ s \in {"close", "end", "fin"} /\ g \o Tail(f) \in Seq(BodyOps)
        /\ g \o Tail(exec[t].ops) = (g \o Tail(f)) \o b
    <3>1. InBody(t, s, f, b)
      BY SplitBody
    <3> QED BY <3>1 DEF InBody
  <2>2. Stage(t, s, b, exec[t].sub) /\ exec[t].sub \in {0} \cup Tasks
    <3>1. exec[t] \in Execs
      BY TaskFacts
    <3> QED BY <3>1 DEF Split, Execs
  <2>3. b \in Seq(Ops) /\ b # <<>>
    BY <2>1, <2>2, StageOps
  <2>4. PICK h \in Seq(Ops) : h = g \o Tail(f)
    BY <2>1, BodyOpsAre, SeqMonotonic
  <2>5. h \o b # <<>>
    BY <2>3, <2>4, JoinNotEmpty
  <2> QED BY <2>1, <2>4, <2>5
<1> QED BY <1>3, <1>4


\* A task that does not intrude prints alone.
LEMMA PrintsAlone ==
  ASSUME TerminalInv, NEW t \in DOMAIN term, ~Intrudes(t, W)
  PROVE  exec[W].ops # <<>> /\ \A u \in DOMAIN term \ {t} : ~Busy(u, "half")
<1>1. W \in DOMAIN term
  BY TaskFacts
<1>2. exec[W].ops # <<>>
  BY <1>1 DEF Intrudes, AtPrompt
<1>3. ASSUME NEW u \in DOMAIN term \ {t}, Busy(u, "half") PROVE FALSE
  <2>1. At(u).n = W
    BY <1>3, NextOp DEF Busy
  <2> QED BY <1>3, <2>1 DEF Intrudes
<1> QED BY <1>2, <1>3

\* Print(char32_t) up to the test of cursor_.x
LEMMA PrintBeginKeeps ==
  ASSUME TerminalInv, NEW t \in DOMAIN term, PrintBegin(t)
  PROVE  TerminalInv'
<1>1. /\ exec[t].ops # <<>> /\ At(t).op = "chr" /\ W \in DOMAIN term /\ exec[t].ops \in Seq(Ops)
      /\ HalfFirst(exec[t].ops) /\ UNCHANGED <<queue, layer_task_map>>
  BY TaskFacts DEF PrintBegin, Busy, Running
<1>2. PICK c \in Symbols, x \in Nat, y \in Rows :
           /\ At(t).s = <<c>> /\ CursorGoes(x, y) /\ screen' \in [Rows -> [Columns -> Symbols]]
           /\ BlankFrom(screen, term[W].x, term[W].y) => BlankFrom(screen', x, y)
           /\ term[W].x <= kColumns => x <= kColumns /\ Fits(x, c)
           /\ exec' = Goes(t, IF c = "\n" THEN <<>> ELSE <<Op("half", W, <<c>>)>>)
           /\ c = ">" /\ t = W => column' = x
           /\ t # W => column' = column
           /\ disturbed' = (disturbed \/ Intrudes(t, W))
  BY PrintBeginIs
<1>3. PICK h : h = Op("half", W, <<c>>)
  OBVIOUS
<1>4. h \in BodyOps /\ h \in Ops /\ h.s = <<c>>
  BY <1>3, BodyOpsAre, OpFields
<1>5. PICK g : g = IF c = "\n" THEN <<>> ELSE <<h>>
  OBVIOUS
<1>6. g \in Seq(BodyOps) /\ g \in Seq(Ops)
  BY <1>4, <1>5
<1>7. exec' = Goes(t, g)
  BY <1>2, <1>3, <1>5, Zenon
<1>8. /\ exec' \in [DOMAIN term -> Execs] /\ \A u \in DOMAIN term \ {t} : exec'[u] = exec[u]
      /\ exec'[t].ops = g \o Tail(exec[t].ops) /\ exec'[t].sub = exec[t].sub /\ exec'[t].stdout = exec[t].stdout
  BY <1>1, <1>6, <1>7, GoesIs
<1>9. HalfFirst(exec'[t].ops) /\ (Busy(t, "half")' => At(t)'.s[1] = c)
  <2>1. CASE c = "\n"
    <3>1. g = <<>> /\ NoHalf(g)
      BY <1>5, <2>1, NoOps
    <3>2. PICK q : q = g \o Tail(exec[t].ops)
      OBVIOUS
    <3>3. HalfFirst(q) /\ (q # <<>> => q[1].op # "half")
      BY <1>1, <1>6, <3>1, <3>2, Pushed
    <3> QED BY <1>8, <3>2, <3>3 DEF Busy, At
  <2>2. CASE c # "\n"
    <3>1. g = <<h>>
      BY <1>5, <2>2
    <3>2. PICK q : q = g \o Tail(exec[t].ops)
      OBVIOUS
    <3>3. HalfFirst(q) /\ q[1] = h
      <4>1. PICK o \in Seq(Ops) : o = exec[t].ops
        BY <1>1
      <4>2. o # <<>> /\ HalfFirst(o) /\ q = g \o Tail(o)
        BY <1>1, <3>2, <4>1
      <4> QED BY <1>4, <3>1, <4>2, HalfPushed
    <3>4. exec'[t].ops = q
      BY <1>8, <3>2, Zenon
    <3>5. h.s[1] = c
      BY <1>4
    <3> QED BY <3>3, <3>4, <3>5 DEF At
  <2> QED BY <2>1, <2>2
<1>10. Running(t)' /\ exec'[t].ops # <<>>
  <2>1. CASE \E s, f, b : Split(t, s, f, b) /\ f # <<>>
    <3>1. PICK s, f, b : Split(t, s, f, b) /\ f # <<>>
      BY <2>1
    <3> QED BY <1>1, <1>2, <1>6, <1>8, <1>9, <3>1, PrintGoes
  <2>2. CASE /\ t = W /\ At(t) = Op("chr", W, <<">">>) /\ exec[t].ops = <<Op("chr", W, <<">">>)>>
             /\ Split(t, "fin", <<>>, exec[t].ops)
    <3>1. c = ">"
      <4>1. At(t).s = <<">">>
        BY <2>2, OpFields
      <4> QED BY <1>2, <4>1
    <3>2. g = <<h>> /\ h = Op("half", W, <<">">>)
      BY <1>3, <1>5, <3>1
    <3>3. exec'[t].ops = <<h>>
      <4>1. Tail(exec[t].ops) = <<>>
        BY <2>2, Tails
      <4>2. exec'[t].ops = g \o <<>>
        BY <1>8, <4>1
      <4>3. g \o <<>> = g
        BY <1>6, ConcatEmptySeq
      <4> QED BY <3>2, <4>2, <4>3
    <3>4. /\ term'[W].x = x /\ term'[W].files = term[W].files /\ term'[W].linebuf = term[W].linebuf
          /\ DOMAIN term' = DOMAIN term /\ \A u \in DOMAIN term \ {W} : term'[u] = term[u]
      BY <1>2 DEF CursorGoes, Moved
    <3>5. Keyboard => Keyboard'
      BY <1>1, <3>4, KeyboardKept
    <3>6. AtStage("fin")
      BY <2>2 DEF Split
    <3>7. AtStage("prompt")'
      <4>1. column' = x
        BY <1>2, <2>2, <3>1
      <4> QED BY <3>4, <3>5, <3>6, <4>1 DEF AtStage
    <3>8. PICK b : b = <<h>>
      OBVIOUS
    <3>9. b \in Seq(Ops) /\ <<>> \o b = b
      <4>1. b \in Seq(Ops)
        BY <1>4, <3>8
      <4> QED BY <4>1, ConcatEmptySeq
    <3>10. Stage(t, "prompt", b, exec'[t].sub)
      BY <2>2, <3>2, <3>8, Zenon DEF Stage
    <3>11. exec'[t].ops = <<>> \o b
      BY <3>3, <3>8, <3>9
    <3>12. Split(t, "prompt", <<>>, b)'
      BY <2>2, <3>7, <3>9, <3>10, <3>11, NoOps DEF Split, Stages
    <3>13. exec'[t].ops # <<>>
      BY <3>3
    <3> QED BY <1>9, <3>12, <3>13 DEF Running
  <2>3. CASE At(t) = Op("half", W, <<">">>)
    BY <1>1, <2>3, OpFields
  <2> QED BY <1>1, <2>1, <2>2, <2>3, PrintAt
<1>11. ASSUME ~disturbed' PROVE Window'
  <2>1. ~disturbed /\ ~Intrudes(t, W)
    BY <1>2, <1>11
  <2>2. Window
    BY <2>1 DEF TerminalInv
  <2>3. exec[W].ops # <<>> /\ \A u \in DOMAIN term \ {t} : ~Busy(u, "half")
    BY <2>1, PrintsAlone
  <2>4. exec'[W].ops # <<>>
    BY <1>1, <1>8, <1>10, <2>3
  <2>5. term[W].x <= kColumns /\ BlankFrom(screen, term[W].x, term[W].y)
    BY <2>2 DEF Window, BlankFrom
  <2>6. x <= kColumns /\ Fits(x, c) /\ BlankFrom(screen', x, y)
    BY <1>2, <2>5
  <2>7. ASSUME NEW u \in DOMAIN term, Busy(u, "half")' PROVE u = t /\ Fits(x, At(t)'.s[1])
    <3>1. u = t
      BY <1>8, <2>3, <2>7 DEF Busy, At
    <3> QED BY <1>9, <2>6, <2>7, <3>1
  <2> QED BY <1>2, <2>2, <2>4, <2>6, <2>7, WindowBusy
<1> QED BY <1>1, <1>2, <1>8, <1>10, <1>11, PrintStep


\* The character that WriteUnicode puts at the cursor
Width(c) == IF c \in Wide THEN 2 ELSE 1
Drawn(scr, x0, y0, c) ==
  [scr EXCEPT ![y0] = [x \in Columns |-> IF x = x0 THEN c
                                         ELSE IF x = x0 + 1 /\ c \in Wide THEN Blank ELSE @[x]]]

\* What is right of the cursor stays blank, what is left of it stays.
LEMMA DrawnIs ==
  ASSUME NEW scr \in [Rows -> [Columns -> Symbols]], NEW x0 \in Nat, NEW y0 \in Rows, NEW c \in Symbols,
         NEW d, d = Drawn(scr, x0, y0, c)
  PROVE  /\ d \in [Rows -> [Columns -> Symbols]]
         /\ BlankFrom(scr, x0, y0) => BlankFrom(d, x0 + Width(c), y0)
         /\ \A x \in Columns : x = x0 => d[y0][x] = c
<1>1. PICK row : row = [x \in Columns |-> IF x = x0 THEN c ELSE IF x = x0 + 1 /\ c \in Wide THEN Blank ELSE scr[y0][x]]
  OBVIOUS
<1>2. d = [scr EXCEPT ![y0] = row]
  BY <1>1 DEF Drawn
<1>3. row \in [Columns -> Symbols]
  BY <1>1, SymbolsAre
<1>4. d \in [Rows -> [Columns -> Symbols]] /\ d[y0] = row /\ \A y \in Rows \ {y0} : d[y] = scr[y]
  BY <1>2, <1>3
<1>5. \A x \in Columns : x = x0 => d[y0][x] = c
  BY <1>1, <1>4
<1>6. ASSUME BlankFrom(scr, x0, y0), NEW y \in Rows, NEW x \in Columns, y > y0 \/ (y = y0 /\ x >= x0 + Width(c))
      PROVE  d[y][x] = Blank
  <2>1. y0 \in Nat /\ y \in Nat /\ x \in Nat
    BY TerminalAssumption DEF Rows, Columns
  <2>2. CASE y > y0
    <3>1. y # y0
      BY <2>1, <2>2
    <3>2. scr[y][x] = Blank
      BY <1>6, <2>2 DEF BlankFrom
    <3> QED BY <1>4, <3>1, <3>2
  <2>3. CASE y = y0 /\ x >= x0 + Width(c)
    <3>1. x # x0 /\ x >= x0
      BY <2>1, <2>3 DEF Width
    <3>2. scr[y][x] = Blank
      BY <1>6, <2>3, <3>1 DEF BlankFrom
    <3>3. d[y][x] = row[x]
      BY <1>4, <2>3
    <3> QED BY <1>1, <2>3, <3>1, <3>2, <3>3
  <2> QED BY <1>6, <2>2, <2>3
<1>7. BlankFrom(scr, x0, y0) => BlankFrom(d, x0 + Width(c), y0)
  <2>1. SUFFICES ASSUME BlankFrom(scr, x0, y0) PROVE BlankFrom(d, x0 + Width(c), y0)
    OBVIOUS
  <2>2. \A y \in Rows, x \in Columns : (y > y0 \/ (y = y0 /\ x >= x0 + Width(c))) => d[y][x] = Blank
    BY <1>6, <2>1
  <2> QED BY <2>2, Zenon DEF BlankFrom
<1> QED BY <1>4, <1>5, <1>7

\* What Print(char32_t) does after the test of cursor_.x.
LEMMA PrintEndIs ==
  ASSUME TerminalInv, NEW t \in DOMAIN term, PrintEnd(t)
  PROVE  \E c \in Symbols :
           /\ At(t).s = <<c>> /\ CursorGoes(term[W].x + Width(c), term[W].y)
           /\ screen' = Drawn(screen, term[W].x, term[W].y, c)
           /\ exec' = Goes(t, <<>>) /\ column' = column
           /\ disturbed' = (disturbed \/ Intrudes(t, W))
<1>1. /\ exec[t].ops # <<>> /\ At(t).op = "half" /\ W \in DOMAIN term /\ term[W] \in Terminals
      /\ term \in [DOMAIN term -> Terminals]
  BY TaskFacts DEF PrintEnd, Busy
<1>2. At(t).n = W /\ \E c \in Symbols : At(t).s = <<c>>
  BY <1>1, NextOp
<1>3. PICK c \in Symbols : At(t).s = <<c>>
  BY <1>2
<1>4. c = At(t).s[1]
  BY <1>3
<1>5. PICK x \in Nat : x = term[W].x + Width(c)
  BY <1>1 DEF Terminals, Width
<1>6. term' = [term EXCEPT ![W].x = x]
  BY <1>1, <1>2, <1>4, <1>5 DEF PrintEnd, Width
<1>7. screen' = Drawn(screen, term[W].x, term[W].y, c)
  BY <1>2, <1>4, Zenon DEF PrintEnd, Drawn
<1>8. exec' = Goes(t, <<>>) /\ column' = column /\ disturbed' = (disturbed \/ Intrudes(t, W))
  BY <1>2 DEF PrintEnd
<1>9. CursorGoes(x, term[W].y)
  <2>1. PICK v : v = [term[W] EXCEPT !.x = x]
    OBVIOUS
  <2>2. Moved(term[W], v, x, term[W].y)
    BY <1>1, <2>1 DEF Moved, Terminals
  <2>3. term' = [term EXCEPT ![W] = v]
    BY <1>1, <1>6, <2>1 DEF Terminals
  <2>4. v \in Terminals
    BY <2>2 DEF Moved
  <2>5. term'[W] = v /\ term' \in [DOMAIN term -> Terminals] /\ \A u \in DOMAIN term \ {W} : term'[u] = term[u]
    BY <1>1, <2>3, <2>4
  <2> QED BY <2>2, <2>5 DEF CursorGoes
<1> QED BY <1>3, <1>5, <1>7, <1>8, <1>9

\* W has its prompt.
LEMMA WindowPrompt ==
  ASSUME TerminalInv, ~disturbed, W \in DOMAIN term, ~Intrudes(W, W),
         exec[W].ops # <<>>, Split(W, "prompt", <<>>, exec[W].ops), At(W) = Op("half", W, <<">">>), column' = column,
         CursorGoes(term[W].x + 1, term[W].y), screen' = Drawn(screen, term[W].x, term[W].y, ">"),
         \A u \in DOMAIN term \ {W} : exec'[u] = exec[u], exec'[W].ops = <<>>
  PROVE  Window'
<1>1. Window /\ term[W] \in Terminals /\ AtStage("prompt") /\ screen \in [Rows -> [Columns -> Symbols]]
  BY TaskFacts DEF TerminalInv, TypeInv, Split
<1>2. term[W].x \in Nat /\ term[W].y \in Rows /\ kColumns \in Nat /\ kColumns >= 2
  BY <1>1, TerminalAssumption DEF Terminals
<1>3. term[W].linebuf = <<>> /\ column = term[W].x
  BY <1>1 DEF AtStage
<1>4. PICK x \in Nat : x = term[W].x + 1
  BY <1>2
<1>5. /\ DOMAIN term' = DOMAIN term /\ term'[W].x = x /\ term'[W].y = term[W].y
      /\ term'[W].linebuf = <<>> /\ term'[W].history = term[W].history
  BY <1>3, <1>4 DEF CursorGoes, Moved
<1>6. x <= kColumns
  <2>1. Busy(W, "half") /\ At(W).s = <<">">>
    BY OpFields DEF Busy
  <2>2. Fits(term[W].x, At(W).s[1])
    BY <1>1, <2>1 DEF Window
  <2>3. Fits(term[W].x, ">")
    BY <2>1, <2>2
  <2> QED BY <1>2, <1>4, <2>3 DEF Fits, Wide
<1>7. \A u \in DOMAIN term' : ~Busy(u, "half")'
  <2>1. \A u \in DOMAIN term \ {W} : ~Busy(u, "half")
    BY PrintsAlone
  <2> QED BY <1>5, <2>1 DEF Busy, At
<1>8. /\ BlankFrom(screen, term[W].x, term[W].y) => BlankFrom(screen', x, term[W].y)
      /\ screen' \in [Rows -> [Columns -> Symbols]]
      /\ \A z \in Columns : z = term[W].x => screen'[term[W].y][z] = ">"
  <2>1. ">" \in Symbols /\ Width(">") = 1
    BY SymbolsAre DEF Width, Wide
  <2>2. /\ BlankFrom(screen, term[W].x, term[W].y) => BlankFrom(screen', term[W].x + Width(">"), term[W].y)
        /\ screen' \in [Rows -> [Columns -> Symbols]]
        /\ \A z \in Columns : z = term[W].x => screen'[term[W].y][z] = ">"
    BY <1>1, <1>2, <2>1, DrawnIs
  <2> QED BY <1>4, <2>1, <2>2
<1>9. BlankFrom(screen', x, term[W].y)
  <2>1. BlankFrom(screen, term[W].x, term[W].y)
    BY <1>1 DEF Window, BlankFrom
  <2> QED BY <1>8, <2>1
<1>10. PromptLineFaithful'
  <2>1. SUFFICES ASSUME column = 0
                 PROVE  /\ term'[W].x = Len(term'[W].linebuf) + 1
                        /\ screen'[term'[W].y] = [z \in Columns |->
                             IF z = 0 THEN ">" ELSE IF z <= Len(term'[W].linebuf) THEN term'[W].linebuf[z] ELSE Blank]
    BY DEF PromptLineFaithful
  <2>2. term[W].x = 0 /\ x = 1 /\ Len(term'[W].linebuf) = 0
    BY <1>3, <1>4, <1>5, <2>1
  <2>3. ASSUME NEW z \in Columns PROVE screen'[term[W].y][z] = IF z = 0 THEN ">" ELSE Blank
    <3>1. CASE z = 0
      BY <1>8, <2>2, <3>1
    <3>2. CASE z # 0
      <4>1. z >= x
        BY <1>2, <2>2, <3>2 DEF Columns
      <4>2. screen'[term[W].y][z] = Blank
        BY <1>2, <1>9, <4>1 DEF BlankFrom
      <4> QED BY <3>2, <4>2
    <3> QED BY <3>1, <3>2
  <2>4. \A z \in Columns : z # 0 => ~(z <= Len(term'[W].linebuf))
    BY <1>2, <2>2 DEF Columns
  <2>5. screen'[term[W].y] \in [Columns -> Symbols]
    BY <1>2, <1>8
  <2>6. screen'[term'[W].y] = [z \in Columns |->
          IF z = 0 THEN ">" ELSE IF z <= Len(term'[W].linebuf) THEN term'[W].linebuf[z] ELSE Blank]
    <3>1. screen'[term[W].y] = [z \in Columns |-> screen'[term[W].y][z]]
      BY <2>5
    <3> QED BY <1>5, <2>3, <2>4, <3>1
  <2> QED BY <1>5, <2>2, <2>6
<1>11. \A yy \in Rows, xx \in Columns : yy > term'[W].y \/ (yy = term'[W].y /\ xx >= term'[W].x) => screen'[yy][xx] = Blank
  BY <1>5, <1>9 DEF BlankFrom
<1>12. /\ term'[W].x <= kColumns /\ Len(term'[W].linebuf) <= kColumns - 2
       /\ exec'[W].ops = <<>> => Len(term'[W].linebuf) < term'[W].x
       /\ \A i \in 1 .. HistorySize : Len(term'[W].history[i]) <= kColumns - 2
  <2>1. Len(term'[W].linebuf) = 0
    BY <1>5
  <2>2. \A i \in 1 .. HistorySize : Len(term[W].history[i]) <= kColumns - 2
    BY <1>1 DEF Window
  <2> QED BY <1>2, <1>4, <1>5, <1>6, <2>1, <2>2
<1> QED BY <1>7, <1>10, <1>11, <1>12 DEF Window


\* Print(char32_t) from WriteUnicode on
LEMMA PrintEndKeeps ==
  ASSUME TerminalInv, NEW t \in DOMAIN term, PrintEnd(t)
  PROVE  TerminalInv'
<1>1. /\ exec[t].ops # <<>> /\ At(t).op = "half" /\ W \in DOMAIN term /\ exec[t].ops \in Seq(Ops)
      /\ HalfFirst(exec[t].ops) /\ UNCHANGED <<queue, layer_task_map>> /\ term[W] \in Terminals
  BY TaskFacts DEF PrintEnd, Busy, Running
<1>2. PICK c \in Symbols :
           /\ At(t).s = <<c>> /\ CursorGoes(term[W].x + Width(c), term[W].y)
           /\ screen' = Drawn(screen, term[W].x, term[W].y, c)
           /\ exec' = Goes(t, <<>>) /\ column' = column
           /\ disturbed' = (disturbed \/ Intrudes(t, W))
  BY PrintEndIs
<1>3. PICK x \in Nat : x = term[W].x + Width(c)
  BY <1>1 DEF Terminals, Width
<1>4. PICK y \in Rows : y = term[W].y
  BY <1>1 DEF Terminals
<1>5. CursorGoes(x, y)
  BY <1>2, <1>3, <1>4
<1>6. PICK g : g = <<>>
  OBVIOUS
<1>7. g \in Seq(BodyOps) /\ g \in Seq(Ops) /\ NoHalf(g)
  BY <1>6, NoOps
<1>8. /\ exec' \in [DOMAIN term -> Execs] /\ \A u \in DOMAIN term \ {t} : exec'[u] = exec[u]
      /\ exec'[t].ops = g \o Tail(exec[t].ops) /\ exec'[t].sub = exec[t].sub /\ exec'[t].stdout = exec[t].stdout
  <2>1. exec' = Goes(t, g)
    BY <1>2, <1>6
  <2> QED BY <1>1, <1>7, <2>1, GoesIs, SMTT(30)
<1>9. HalfFirst(exec'[t].ops) /\ ~Busy(t, "half")'
  <2>1. PICK q : q = g \o Tail(exec[t].ops)
    OBVIOUS
  <2>2. HalfFirst(q) /\ (q # <<>> => q[1].op # "half")
    BY <1>1, <1>7, <2>1, Pushed
  <2> QED BY <1>8, <2>1, <2>2 DEF Busy, At
<1>10. screen \in [Rows -> [Columns -> Symbols]] /\ term[W].x \in Nat /\ term[W].y \in Rows
  BY <1>1 DEF TerminalInv, TypeInv, Terminals
<1>11. /\ screen' \in [Rows -> [Columns -> Symbols]]
       /\ BlankFrom(screen, term[W].x, term[W].y) => BlankFrom(screen', x, y)
  <2>1. /\ screen' \in [Rows -> [Columns -> Symbols]]
        /\ BlankFrom(screen, term[W].x, term[W].y) => BlankFrom(screen', term[W].x + Width(c), term[W].y)
    BY <1>2, <1>10, DrawnIs
  <2> QED BY <1>3, <1>4, <2>1
<1>12. CASE \E s, f, b : Split(t, s, f, b) /\ f # <<>>
  <2>1. PICK s, f, b : Split(t, s, f, b) /\ f # <<>>
    BY <1>12
  <2>2. Running(t)' /\ exec'[t].ops # <<>>
    BY <1>1, <1>5, <1>7, <1>8, <1>9, <2>1, PrintGoes
  <2>3. ASSUME ~disturbed' PROVE Window'
    <3>1. ~disturbed /\ ~Intrudes(t, W)
      BY <1>2, <2>3
    <3>2. Window
      BY <3>1 DEF TerminalInv
    <3>3. exec[W].ops # <<>> /\ \A u \in DOMAIN term \ {t} : ~Busy(u, "half")
      BY <3>1, PrintsAlone
    <3>4. exec'[W].ops # <<>>
      BY <1>1, <1>8, <2>2, <3>3
    <3>5. BlankFrom(screen, term[W].x, term[W].y)
      BY <3>2 DEF Window, BlankFrom
    <3>6. Fits(term[W].x, c)
      <4>1. Busy(t, "half") /\ At(t).s[1] = c
        BY <1>1, <1>2 DEF Busy
      <4> QED BY <3>2, <4>1 DEF Window
    <3>7. x <= kColumns
      BY <1>3, <1>10, <3>6, TerminalAssumption DEF Fits, Width
    <3>8. \A u \in DOMAIN term : ~Busy(u, "half")'
      BY <1>8, <1>9, <3>3 DEF Busy, At
    <3> QED BY <1>5, <1>11, <3>2, <3>4, <3>5, <3>7, <3>8, WindowBusy
  <2> QED BY <1>1, <1>2, <1>5, <1>8, <1>11, <2>2, <2>3, PrintStep
<1>13. CASE At(t) = Op("chr", W, <<">">>)
  BY <1>1, <1>13, OpFields
<1>14. CASE /\ t = W /\ At(t) = Op("half", W, <<">">>) /\ exec[t].ops = <<Op("half", W, <<">">>)>>
            /\ Split(t, "prompt", <<>>, exec[t].ops)
  <2>1. c = ">"
    <3>1. At(t).s = <<">">>
      BY <1>14, OpFields
    <3> QED BY <1>2, <3>1
  <2>2. exec'[t].ops = <<>>
    <3>1. Tail(exec[t].ops) = <<>>
      BY <1>14, Tails
    <3> QED BY <1>6, <1>8, <3>1
  <2>3. /\ term'[W].files = term[W].files /\ DOMAIN term' = DOMAIN term
        /\ \A u \in DOMAIN term \ {W} : term'[u] = term[u]
    BY <1>5 DEF CursorGoes, Moved
  <2>4. Keyboard => Keyboard'
    BY <1>1, <2>3, KeyboardKept
  <2>5. AtStage("over")'
    <3>1. AtStage("prompt")
      BY <1>14 DEF Split
    <3> QED BY <2>3, <2>4, <3>1 DEF AtStage
  <2>6. Stage(t, "over", <<>>, exec'[t].sub)
    BY <1>14, Zenon DEF Stage
  <2>7. exec'[t].ops = <<>> \o <<>>
    BY <2>2
  <2>8. Split(t, "over", <<>>, <<>>)'
    BY <1>14, <2>5, <2>6, <2>7, NoOps DEF Split, Stages
  <2>9. Running(t)'
    BY <1>9, <2>8 DEF Running
  <2>10. ASSUME ~disturbed' PROVE Window'
    <3>1. ~disturbed /\ ~Intrudes(W, W)
      BY <1>2, <1>14, <2>10
    <3>2. /\ CursorGoes(term[W].x + 1, term[W].y) /\ screen' = Drawn(screen, term[W].x, term[W].y, ">")
      BY <1>2, <2>1 DEF Width, Wide
    <3>3. \A u \in DOMAIN term \ {W} : exec'[u] = exec[u]
      BY <1>8, <1>14
    <3>4. /\ exec[W].ops # <<>> /\ Split(W, "prompt", <<>>, exec[W].ops) /\ At(W) = Op("half", W, <<">">>)
          /\ exec'[W].ops = <<>>
      BY <1>1, <1>14, <2>2
    <3> QED BY <1>1, <1>2, <3>1, <3>2, <3>3, <3>4, WindowPrompt
  <2> QED BY <1>1, <1>2, <1>5, <1>8, <1>11, <2>9, <2>10, PrintStep
<1>15. \/ \E s, f, b : Split(t, s, f, b) /\ f # <<>>
       \/ At(t) = Op("chr", W, <<">">>)
       \/ /\ t = W /\ At(t) = Op("half", W, <<">">>) /\ exec[t].ops = <<Op("half", W, <<">">>)>>
          /\ Split(t, "prompt", <<>>, exec[t].ops)
  BY <1>1, PrintAt
<1> QED BY <1>12, <1>13, <1>14, <1>15


-----------------------------------------------------------------------------
(***************************************************************************)
(* The line editor                                                         *)
(***************************************************************************)

\* The line and its row while it is edited, and what the user sees of it
Line(T, row) ==
  /\ T.x <= kColumns /\ Len(T.linebuf) <= kColumns - 2 /\ Len(T.linebuf) < T.x
  /\ \A i \in 1 .. HistorySize : Len(T.history[i]) <= kColumns - 2
  /\ \A x \in Columns : x >= T.x => row[x] = Blank
Shown(T, row) ==
  /\ T.x = Len(T.linebuf) + 1
  /\ \A x \in Columns : row[x] = IF x = 0 THEN ">" ELSE IF x <= Len(T.linebuf) THEN T.linebuf[x] ELSE Blank
Edited(T, row, v, r) ==
  /\ v \in Terminals /\ r \in [Columns -> Symbols]
  /\ v.show = T.show /\ v.y = T.y /\ v.history = T.history /\ v.files = T.files /\ v.layer = T.layer
  /\ Line(T, row) => Line(v, r) /\ (Shown(T, row) => Shown(v, r))

\* Nothing changes.
LEMMA EditedSame ==
  ASSUME NEW T \in Terminals, NEW row \in [Columns -> Symbols]
  PROVE  Edited(T, row, T, row)
BY DEF Edited

\* Backspace erases the last character.
LEMMA BackspaceIs ==
  ASSUME NEW T \in Terminals, NEW row \in [Columns -> Symbols]
  PROVE  Edited(T, row, Backspace(T, row).t, Backspace(T, row).row)
<1>1. T.x \in Nat /\ kColumns \in Nat /\ T.linebuf \in Texts /\ Len(T.linebuf) \in Nat
  BY TerminalAssumption, LenProperties DEF Terminals, Texts
<1>2. CASE ~(T.x > 1)
  <2>1. Backspace(T, row).t = T /\ Backspace(T, row).row = row
    BY <1>2 DEF Backspace
  <2> QED BY <2>1, EditedSame
<1>3. CASE T.x > 1
  <2>1. PICK l : l = IF T.linebuf # <<>> THEN Front(T.linebuf) ELSE T.linebuf
    OBVIOUS
  <2>2. /\ l \in Texts /\ (T.linebuf = <<>> => l = <<>>)
        /\ T.linebuf # <<>> => Len(l) = Len(T.linebuf) - 1 /\ Len(T.linebuf) > 0 /\ \A i \in 1 .. Len(l) : l[i] = T.linebuf[i]
    <3>1. CASE T.linebuf = <<>>
      BY <1>1, <2>1, <3>1
    <3>2. CASE T.linebuf # <<>>
      <4>1. PICK k \in Int : k = Len(T.linebuf) - 1
        BY <1>1
      <4>2. k >= 0
        BY <1>1, <3>2, <4>1, EmptySeq DEF Texts
      <4>3. \A i \in 1 .. k : T.linebuf[i] \in Symbols
        BY <1>1, <4>1, ElementOfSeq DEF Texts
      <4>4. /\ SubSeq(T.linebuf, 1, k) \in Seq(Symbols)
            /\ Len(SubSeq(T.linebuf, 1, k)) = (IF 1 <= k THEN k - 1 + 1 ELSE 0)
            /\ \A i \in 1 .. k - 1 + 1 : SubSeq(T.linebuf, 1, k)[i] = T.linebuf[1 + i - 1]
        BY <4>3, SubSeqProperties
      <4>5. l = SubSeq(T.linebuf, 1, k)
        BY <2>1, <3>2, <4>1 DEF Front
      <4> QED BY <1>1, <3>2, <4>1, <4>2, <4>4, <4>5 DEF Texts
    <3> QED BY <3>1, <3>2
  <2>3. Len(l) \in Nat
    BY <2>2, LenProperties DEF Texts
  <2>4. PICK v : v = [T EXCEPT !.x = T.x - 1, !.linebuf = l]
    OBVIOUS
  <2>5. PICK r : r = IF T.x - 1 \in Columns THEN [row EXCEPT ![T.x - 1] = Blank] ELSE row
    OBVIOUS
  <2>6. Backspace(T, row).t = v /\ Backspace(T, row).row = r
    <3>1. Backspace(T, row).t = [T EXCEPT !.x = @ - 1, !.linebuf = IF @ # <<>> THEN Front(@) ELSE @]
      BY <1>3 DEF Backspace
    <3>2. Backspace(T, row).row = r
      BY <1>3, <2>5 DEF Backspace
    <3>3. v = [T EXCEPT !.x = @ - 1, !.linebuf = IF @ # <<>> THEN Front(@) ELSE @]
      BY <2>1, <2>4, Zenon
    <3> QED BY <3>1, <3>2, <3>3
  <2>7. /\ v \in Terminals /\ v.x = T.x - 1 /\ v.linebuf = l
        /\ v.show = T.show /\ v.y = T.y /\ v.history = T.history /\ v.files = T.files /\ v.layer = T.layer
    <3>1. T.x - 1 \in Nat
      BY <1>1, <1>3
    <3> QED BY <2>2, <2>4, <3>1 DEF Terminals
  <2>8. r \in [Columns -> Symbols]
    BY <2>5, SymbolsAre
  <2>9. ASSUME Line(T, row) PROVE Line(v, r) /\ (Shown(T, row) => Shown(v, r))
    <3>1. T.x <= kColumns /\ Len(T.linebuf) <= kColumns - 2 /\ Len(T.linebuf) < T.x
      BY <2>9 DEF Line
    <3>2. T.x - 1 \in Columns
      BY <1>1, <1>3, <3>1 DEF Columns
    <3>3. r = [row EXCEPT ![T.x - 1] = Blank]
      BY <2>5, <3>2
    <3>4. Len(l) <= kColumns - 2 /\ Len(l) < T.x - 1
      <4>1. CASE T.linebuf = <<>>
        <5>1. Len(l) = 0 /\ Len(T.linebuf) = 0
          BY <2>2, <4>1
        <5> QED BY <1>1, <1>3, <3>1, <5>1
      <4>2. CASE T.linebuf # <<>>
        BY <1>1, <2>2, <2>3, <3>1, <4>2
      <4> QED BY <4>1, <4>2
    <3>5. ASSUME NEW x \in Columns, x >= v.x PROVE r[x] = Blank
      <4>1. CASE x = T.x - 1
        BY <3>2, <3>3, <4>1
      <4>2. CASE x # T.x - 1
        <5>1. x >= T.x
          BY <1>1, <2>7, <3>5, <4>2 DEF Columns
        <5> QED BY <2>9, <3>3, <4>2, <5>1 DEF Line
      <4> QED BY <4>1, <4>2
    <3>6. Line(v, r)
      BY <1>1, <2>7, <2>9, <3>1, <3>4, <3>5 DEF Line
    <3>7. ASSUME Shown(T, row) PROVE Shown(v, r)
      <4>1. T.x = Len(T.linebuf) + 1 /\ T.linebuf # <<>>
        <5>1. T.x = Len(T.linebuf) + 1
          BY <3>7 DEF Shown
        <5>2. Len(T.linebuf) # 0
          BY <1>1, <1>3, <5>1
        <5> QED BY <5>1, <5>2
      <4>2. Len(l) = Len(T.linebuf) - 1 /\ \A i \in 1 .. Len(l) : l[i] = T.linebuf[i]
        BY <2>2, <4>1
      <4>3. ASSUME NEW x \in Columns PROVE r[x] = IF x = 0 THEN ">" ELSE IF x <= Len(l) THEN l[x] ELSE Blank
        <5>1. row[x] = IF x = 0 THEN ">" ELSE IF x <= Len(T.linebuf) THEN T.linebuf[x] ELSE Blank
          BY <3>7 DEF Shown
        <5>2. x \in Nat
          BY <1>1 DEF Columns
        <5>3. CASE x = Len(T.linebuf)
          <6>1. r[x] = Blank
            BY <1>1, <3>2, <3>3, <4>1, <5>3
          <6>2. x # 0 /\ ~(x <= Len(l))
            BY <1>1, <1>3, <4>1, <4>2, <5>3
          <6> QED BY <6>1, <6>2
        <5>4. CASE x # Len(T.linebuf)
          <6>1. r[x] = row[x]
            BY <1>1, <3>3, <4>1, <5>4
          <6>2. x # 0 => ((x <= Len(l)) <=> (x <= Len(T.linebuf)))
            BY <1>1, <4>2, <5>2, <5>4
          <6>3. x # 0 /\ x <= Len(l) => l[x] = T.linebuf[x]
            BY <2>3, <4>2, <5>2
          <6> QED BY <5>1, <6>1, <6>2, <6>3
        <5> QED BY <5>3, <5>4
      <4>4. v.x = Len(v.linebuf) + 1
        BY <1>1, <2>7, <4>1, <4>2
      <4> QED BY <2>7, <4>3, <4>4 DEF Shown
    <3> QED BY <3>6, <3>7
  <2> QED BY <2>6, <2>7, <2>8, <2>9 DEF Edited
<1> QED BY <1>2, <1>3


\* A character is typed at the end of the line.
LEMMA TypeCharIs ==
  ASSUME NEW T \in Terminals, NEW row \in [Columns -> Symbols], NEW c \in Symbols
  PROVE  Edited(T, row, TypeChar(T, row, c).t, TypeChar(T, row, c).row)
<1>1. T.x \in Nat /\ kColumns \in Nat /\ T.linebuf \in Texts /\ Len(T.linebuf) \in Nat
  BY TerminalAssumption, LenProperties DEF Terminals, Texts
<1>2. CASE ~(T.x < kColumns - 1 /\ Len(T.linebuf) < kLineMax - 1)
  <2>1. TypeChar(T, row, c).t = T /\ TypeChar(T, row, c).row = row
    BY <1>2 DEF TypeChar
  <2> QED BY <2>1, EditedSame
<1>3. CASE T.x < kColumns - 1 /\ Len(T.linebuf) < kLineMax - 1
  <2>1. PICK l : l = Append(T.linebuf, c)
    OBVIOUS
  <2>2. /\ l \in Texts /\ Len(l) = Len(T.linebuf) + 1 /\ l[Len(T.linebuf) + 1] = c
        /\ \A i \in 1 .. Len(T.linebuf) : l[i] = T.linebuf[i]
    BY <1>1, <2>1, AppendProperties DEF Texts
  <2>3. PICK v : v = [T EXCEPT !.x = T.x + 1, !.linebuf = l]
    OBVIOUS
  <2>4. PICK r : r = [row EXCEPT ![T.x] = c]
    OBVIOUS
  <2>5. TypeChar(T, row, c).t = v /\ TypeChar(T, row, c).row = r
    BY <1>3, <2>1, <2>3, <2>4 DEF TypeChar
  <2>6. /\ v \in Terminals /\ v.x = T.x + 1 /\ v.linebuf = l
        /\ v.show = T.show /\ v.y = T.y /\ v.history = T.history /\ v.files = T.files /\ v.layer = T.layer
    <3>1. T.x + 1 \in Nat
      BY <1>1
    <3> QED BY <2>2, <2>3, <3>1 DEF Terminals
  <2>7. r \in [Columns -> Symbols] /\ T.x \in Columns
    BY <1>1, <1>3, <2>4 DEF Columns
  <2>8. ASSUME Line(T, row) PROVE Line(v, r) /\ (Shown(T, row) => Shown(v, r))
    <3>1. T.x <= kColumns /\ Len(T.linebuf) <= kColumns - 2 /\ Len(T.linebuf) < T.x
      BY <2>8 DEF Line
    <3>2. Len(l) <= kColumns - 2 /\ Len(l) < T.x + 1
      BY <1>1, <1>3, <2>2, <3>1
    <3>3. ASSUME NEW x \in Columns, x >= v.x PROVE r[x] = Blank
      <4>1. x >= T.x /\ x # T.x
        BY <1>1, <2>6, <3>3 DEF Columns
      <4> QED BY <2>4, <2>8, <4>1 DEF Line
    <3>4. Line(v, r)
      BY <1>1, <1>3, <2>6, <2>8, <3>2, <3>3 DEF Line
    <3>5. ASSUME Shown(T, row) PROVE Shown(v, r)
      <4>1. T.x = Len(T.linebuf) + 1
        BY <3>5 DEF Shown
      <4>2. ASSUME NEW x \in Columns PROVE r[x] = IF x = 0 THEN ">" ELSE IF x <= Len(l) THEN l[x] ELSE Blank
        <5>1. row[x] = IF x = 0 THEN ">" ELSE IF x <= Len(T.linebuf) THEN T.linebuf[x] ELSE Blank
          BY <3>5 DEF Shown
        <5>2. x \in Nat
          BY <1>1 DEF Columns
        <5>3. CASE x = Len(T.linebuf) + 1
          <6>1. r[x] = c
            BY <2>4, <2>7, <4>1, <5>3
          <6>2. x # 0 /\ x <= Len(l) /\ l[x] = c
            BY <1>1, <2>2, <5>3
          <6> QED BY <6>1, <6>2
        <5>4. CASE x # Len(T.linebuf) + 1
          <6>1. r[x] = row[x]
            BY <2>4, <4>1, <5>4
          <6>2. x # 0 => ((x <= Len(l)) <=> (x <= Len(T.linebuf)))
            BY <1>1, <2>2, <5>2, <5>4
          <6>3. x # 0 /\ x <= Len(T.linebuf) => l[x] = T.linebuf[x]
            BY <1>1, <2>2, <5>2
          <6> QED BY <5>1, <6>1, <6>2, <6>3
        <5> QED BY <5>3, <5>4
      <4>3. v.x = Len(v.linebuf) + 1
        BY <1>1, <2>2, <2>6, <4>1
      <4> QED BY <2>6, <4>2, <4>3 DEF Shown
    <3> QED BY <3>4, <3>5
  <2> QED BY <2>5, <2>6, <2>7, <2>8 DEF Edited
<1> QED BY <1>2, <1>3

\* A line of the history replaces the line.
LEMMA HistoryIs ==
  ASSUME NEW T \in Terminals, NEW row \in [Columns -> Symbols], NEW d
  PROVE  Edited(T, row, HistoryUpDown(T, row, d).t, HistoryUpDown(T, row, d).row)
<1>1. /\ T.x \in Nat /\ kColumns \in Nat /\ T.index \in 0 .. HistorySize /\ HistorySize \in Nat
      /\ T.history \in [1 .. HistorySize -> Texts]
  BY TerminalAssumption DEF Terminals
<1>2. PICK i : i = CASE d = "down" /\ T.index > 0 -> T.index - 1
                     [] d = "up" /\ T.index < HistorySize -> T.index + 1
                     [] OTHER -> T.index
  OBVIOUS
<1>3. i \in 0 .. HistorySize
  <2>1. CASE d = "down" /\ T.index > 0
    <3>1. i = T.index - 1
      BY <1>2, <2>1
    <3> QED BY <1>1, <2>1, <3>1
  <2>2. CASE d = "up" /\ T.index < HistorySize
    <3>1. i = T.index + 1
      BY <1>2, <2>2
    <3> QED BY <1>1, <2>2, <3>1
  <2>3. CASE ~(d = "down" /\ T.index > 0) /\ ~(d = "up" /\ T.index < HistorySize)
    <3>1. i = T.index
      BY <1>2, <2>3
    <3> QED BY <1>1, <3>1
  <2> QED BY <2>1, <2>2, <2>3
<1>4. PICK l : l = IF i > 0 THEN T.history[i] ELSE <<>>
  OBVIOUS
<1>5. l \in Texts /\ Len(l) \in Nat /\ (l = <<>> \/ \E j \in 1 .. HistorySize : l = T.history[j])
  <2>1. CASE i > 0
    <3>1. i \in 1 .. HistorySize /\ l = T.history[i]
      BY <1>1, <1>3, <1>4, <2>1
    <3> QED BY <1>1, <3>1, LenProperties DEF Texts
  <2>2. CASE ~(i > 0)
    <3>1. l = <<>>
      BY <1>4, <2>2
    <3> QED BY <3>1, TextsAre
  <2> QED BY <2>1, <2>2
<1>6. PICK v : v = [T EXCEPT !.index = i, !.linebuf = l, !.x = Len(l) + 1]
  OBVIOUS
<1>7. PICK r : r = [x \in Columns |-> IF x = 0 THEN row[0] ELSE IF x <= Len(l) THEN l[x] ELSE Blank]
  OBVIOUS
<1>8. HistoryUpDown(T, row, d).t = v /\ HistoryUpDown(T, row, d).row = r
  <2>1. HistoryUpDown(T, row, d) = [t |-> v, row |-> r]
    BY <1>2, <1>4, <1>6, <1>7, Zenon DEF HistoryUpDown
  <2> QED BY <2>1
<1>9. /\ v \in Terminals /\ v.x = Len(l) + 1 /\ v.linebuf = l
      /\ v.show = T.show /\ v.y = T.y /\ v.history = T.history /\ v.files = T.files /\ v.layer = T.layer
  <2>1. Len(l) + 1 \in Nat
    BY <1>5
  <2> QED BY <1>3, <1>5, <1>6, <2>1 DEF Terminals
<1>10. r \in [Columns -> Symbols]
  <2>1. 0 \in Columns
    BY TerminalAssumption DEF Columns
  <2>2. \A x \in Columns : x # 0 /\ x <= Len(l) => l[x] \in Symbols
    <3>1. \A j \in 1 .. Len(l) : l[j] \in Symbols
      BY <1>5, ElementOfSeq DEF Texts
    <3>2. \A x \in Columns : x # 0 /\ x <= Len(l) => x \in 1 .. Len(l)
      BY <1>1, <1>5 DEF Columns
    <3> QED BY <3>1, <3>2
  <2> QED BY <1>7, <2>1, <2>2, SymbolsAre
<1>11. ASSUME Line(T, row) PROVE Line(v, r) /\ (Shown(T, row) => Shown(v, r))
  <2>1. Len(l) <= kColumns - 2
    <3>1. CASE l = <<>>
      <4>1. Len(l) = 0
        BY <3>1
      <4> QED BY <4>1, TerminalAssumption
    <3>2. CASE \E j \in 1 .. HistorySize : l = T.history[j]
      BY <1>11, <3>2 DEF Line
    <3> QED BY <1>5, <3>1, <3>2
  <2>2. ASSUME NEW x \in Columns, x >= v.x PROVE r[x] = Blank
    <3>1. x # 0 /\ ~(x <= Len(l))
      BY <1>1, <1>5, <1>9, <2>2 DEF Columns
    <3> QED BY <1>7, <3>1
  <2>3. Line(v, r)
    BY <1>1, <1>5, <1>9, <1>11, <2>1, <2>2 DEF Line
  <2>4. ASSUME Shown(T, row) PROVE Shown(v, r)
    <3>1. 0 \in Columns
      BY TerminalAssumption DEF Columns
    <3>2. row[0] = ">"
      BY <2>4, <3>1 DEF Shown
    <3> QED BY <1>7, <1>9, <3>2 DEF Shown
  <2> QED BY <2>3, <2>4
<1> QED BY <1>8, <1>9, <1>10, <1>11 DEF Edited


\* W with nothing left to do has its prompt.
LEMMA AtOver ==
  ASSUME TerminalInv, W \in DOMAIN term, exec[W].ops = <<>>
  PROVE  Split(W, "over", <<>>, <<>>)
<1>1. PICK t : t = W
  OBVIOUS
<1>2. PICK s, f, b : Split(t, s, f, b)
  BY <1>1, TaskFacts DEF Running
<1>3. f = <<>>
  <2>1. f # <<>> => InBody(t, s, f, b)
    BY <1>2, SplitBody
  <2> QED BY <1>1, <2>1 DEF InBody
<1>4. Split(t, s, <<>>, b)
  BY <1>2, <1>3
<1>5. b = <<>>
  BY <1>1, <1>4, SplitLine
<1>6. s \in Stages /\ Stage(t, s, b, exec[t].sub) /\ exec[t].sub \in {0} \cup Tasks
  <2>1. exec[t] \in Execs
    BY <1>1, TaskFacts
  <2> QED BY <1>4, <2>1 DEF Split, Execs
<1>7. s \notin {"line", "fork", "route", "command", "close", "wait", "end", "fin"}
  BY <1>5, <1>6, StageOps
<1>8. s # "prompt"
  <2>1. s = "prompt" => b = <<Op("half", W, <<">">>)>>
    BY <1>6 DEF Stage
  <2> QED BY <1>5, <2>1, Tails
<1>9. s = "over"
  BY <1>6, <1>7, <1>8 DEF Stages
<1> QED BY <1>1, <1>4, <1>5, <1>9

\* At the prompt no character is half printed.
LEMMA NoHalfAtPrompt ==
  ASSUME TerminalInv, ~disturbed, exec[W].ops = <<>>
  PROVE  \A u \in DOMAIN term : ~Busy(u, "half")
BY DEF TerminalInv, Window

\* The row of the line.
LEMMA LineIs ==
  ASSUME TerminalInv, W \in DOMAIN term, exec[W].ops = <<>>, ~disturbed
  PROVE  /\ Line(term[W], screen[term[W].y])
         /\ column = 0 => Shown(term[W], screen[term[W].y])
<1>1. Window /\ term[W] \in Terminals
  BY TaskFacts DEF TerminalInv
<1>2. term[W].y \in Rows
  BY <1>1 DEF Terminals
<1>3. Line(term[W], screen[term[W].y])
  BY <1>1, <1>2 DEF Line, Window
<1>4. ASSUME column = 0 PROVE Shown(term[W], screen[term[W].y])
  <2>1. /\ term[W].x = Len(term[W].linebuf) + 1
        /\ screen[term[W].y] = [x \in Columns |->
             IF x = 0 THEN ">" ELSE IF x <= Len(term[W].linebuf) THEN term[W].linebuf[x] ELSE Blank]
    BY <1>1, <1>4 DEF Window, PromptLineFaithful, AtPrompt
  <2> QED BY <2>1 DEF Shown
<1> QED BY <1>3, <1>4

\* A step of the line editor.
LEMMA EditStep ==
  ASSUME TerminalInv, W \in DOMAIN term, exec[W].ops = <<>>, exec' = exec,
         NEW v, NEW r, Edited(term[W], screen[term[W].y], v, r),
         term' = [term EXCEPT ![W] = v], screen' = [screen EXCEPT ![term[W].y] = r],
         DOMAIN queue' = DOMAIN queue, queue' \in [DOMAIN queue -> Seq(Messages)],
         UNCHANGED <<layer_task_map, column, disturbed>>
  PROVE  TerminalInv'
<1>1. /\ TypeInv /\ WTerminal /\ (\A u \in DOMAIN term : Running(u)) /\ term[W] \in Terminals
      /\ term \in [DOMAIN term -> Terminals]
  BY TaskFacts DEF TerminalInv
<1>2. /\ v \in Terminals /\ r \in [Columns -> Symbols] /\ v.show = term[W].show /\ v.y = term[W].y
      /\ v.history = term[W].history /\ v.files = term[W].files /\ v.layer = term[W].layer
  BY DEF Edited
<1>3. /\ term' \in [DOMAIN term -> Terminals] /\ DOMAIN term' = DOMAIN term /\ term'[W] = v
      /\ \A u \in DOMAIN term \ {W} : term'[u] = term[u]
  BY <1>1, <1>2
<1>4. screen \in [Rows -> [Columns -> Symbols]] /\ term[W].y \in Rows
  BY <1>1 DEF TypeInv, Terminals
<1>5. /\ screen' \in [Rows -> [Columns -> Symbols]] /\ screen'[term[W].y] = r
      /\ \A y \in Rows \ {term[W].y} : screen'[y] = screen[y]
  BY <1>2, <1>4
<1>6. TypeInv'
  BY <1>1, <1>3, <1>5 DEF TypeInv
<1>7. WTerminal'
  BY <1>1, <1>2, <1>3 DEF WTerminal
<1>8. Keyboard => Keyboard'
  BY <1>3, KeyboardKept
<1>9. ASSUME NEW u \in DOMAIN term' PROVE Running(u)'
  <2>1. CASE u # W
    <3>1. Running(u) /\ exec'[u] = exec[u] /\ term'[u].layer = term[u].layer /\ (u \in DOMAIN queue => u \in DOMAIN queue')
      BY <1>1, <1>3, <2>1
    <3> QED BY <2>1, <3>1, OtherRuns
  <2>2. CASE u = W
    <3>1. Split(W, "over", <<>>, <<>>)
      BY AtOver
    <3>2. AtStage("over")'
      <4>1. AtStage("over")
        BY <3>1 DEF Split
      <4> QED BY <1>2, <1>3, <1>8, <4>1 DEF AtStage
    <3>3. Split(W, "over", <<>>, <<>>)'
      BY <3>1, <3>2 DEF Split
    <3>4. HalfFirst(exec'[W].ops)
      BY DEF HalfFirst
    <3> QED BY <2>2, <3>3, <3>4 DEF Running
  <2> QED BY <2>1, <2>2
<1>10. ASSUME ~disturbed' PROVE Window'
  <2>1. ~disturbed /\ Window
    BY <1>10 DEF TerminalInv
  <2>2. Line(v, r) /\ (column = 0 => Shown(v, r))
    BY <2>1, LineIs DEF Edited
  <2>3. \A u \in DOMAIN term' : ~Busy(u, "half")'
    <3>1. \A u \in DOMAIN term : ~Busy(u, "half")
      BY <2>1, NoHalfAtPrompt
    <3> QED BY <1>3, <3>1 DEF Busy, At
  <2>4. PromptLineFaithful'
    <3>1. SUFFICES ASSUME column = 0
                   PROVE  /\ v.x = Len(v.linebuf) + 1
                          /\ r = [x \in Columns |->
                               IF x = 0 THEN ">" ELSE IF x <= Len(v.linebuf) THEN v.linebuf[x] ELSE Blank]
      BY <1>2, <1>3, <1>5 DEF PromptLineFaithful
    <3>2. Shown(v, r)
      BY <2>2, <3>1
    <3>3. r = [x \in Columns |-> r[x]]
      BY <1>2
    <3> QED BY <3>2, <3>3 DEF Shown
  <2>5. ASSUME NEW y \in Rows, NEW x \in Columns, y > v.y \/ (y = v.y /\ x >= v.x) PROVE screen'[y][x] = Blank
    <3>1. CASE y = v.y
      <4>1. x >= v.x
        BY <1>2, <1>4, <2>5, <3>1 DEF Rows
      <4>2. screen'[y] = r
        BY <1>2, <1>5, <3>1
      <4> QED BY <2>2, <4>1, <4>2 DEF Line
    <3>2. CASE y # v.y
      <4>1. y > term[W].y /\ screen'[y] = screen[y]
        BY <1>2, <1>5, <2>5, <3>2
      <4> QED BY <2>1, <4>1 DEF Window
    <3> QED BY <3>1, <3>2
  <2>6. /\ v.x <= kColumns /\ Len(v.linebuf) <= kColumns - 2 /\ Len(v.linebuf) < v.x
        /\ \A i \in 1 .. HistorySize : Len(v.history[i]) <= kColumns - 2
    BY <2>2 DEF Line
  <2> QED BY <1>3, <2>3, <2>4, <2>5, <2>6 DEF Window
<1> QED BY <1>6, <1>7, <1>9, <1>10 DEF TerminalInv

\* InputKey, of a key other than Enter
LEMMA InputKeyKeeps ==
  ASSUME TerminalInv, InputKey
  PROVE  TerminalInv'
<1>1. /\ W \in DOMAIN term /\ exec[W].ops = <<>> /\ queue[W] # <<>> /\ exec' = exec
      /\ queue' = [queue EXCEPT ![W] = Tail(@)] /\ UNCHANGED <<layer_task_map, column, disturbed>>
  BY DEF InputKey, KeyReceived, AtPrompt
<1>2. term[W] \in Terminals /\ W \in DOMAIN queue
  BY <1>1, TaskFacts
<1>3. PICK c : c = Head(queue[W]).c
  OBVIOUS
<1>4. c \in Symbols /\ queue' \in [DOMAIN queue -> Seq(Messages)]
  BY <1>1, <1>2, <1>3, NextMessage
<1>5. PICK row : row = screen[term[W].y]
  OBVIOUS
<1>6. row \in [Columns -> Symbols]
  BY <1>2, <1>5 DEF TerminalInv, TypeInv, Terminals
<1>7. PICK after : after = CASE c = "BS" -> Backspace(term[W], row)
                             [] c \in {"up", "down"} -> HistoryUpDown(term[W], row, c)
                             [] OTHER -> TypeChar(term[W], row, c)
  OBVIOUS
<1>8. term' = [term EXCEPT ![W] = after.t] /\ screen' = [screen EXCEPT ![term[W].y] = after.row]
  BY <1>3, <1>5, <1>7, Zenon DEF InputKey
<1>9. Edited(term[W], row, after.t, after.row)
  <2>1. CASE c = "BS"
    <3>1. after = Backspace(term[W], row)
      BY <1>7, <2>1
    <3> QED BY <1>2, <1>6, <3>1, BackspaceIs
  <2>2. CASE c \in {"up", "down"}
    <3>1. after = HistoryUpDown(term[W], row, c)
      <4>1. c # "BS"
        BY <2>2
      <4> QED BY <1>7, <2>2, <4>1
    <3> QED BY <1>2, <1>6, <3>1, HistoryIs
  <2>3. CASE c # "BS" /\ c \notin {"up", "down"}
    <3>1. after = TypeChar(term[W], row, c)
      BY <1>7, <2>3
    <3> QED BY <1>2, <1>4, <1>6, <3>1, TypeCharIs
  <2> QED BY <2>1, <2>2, <2>3
<1>10. DOMAIN queue' = DOMAIN queue
  BY <1>4
<1> QED BY <1>1, <1>4, <1>5, <1>8, <1>9, <1>10, EditStep


\* What Enter starts: the line, then the prompt.
LEMMA EnterOps ==
  ASSUME NEW line \in Texts, NEW E, E = [Idle EXCEPT !.ops = <<Op("line", 0, line)>> \o Chars(W, <<">">>)]
  PROVE  /\ E \in Execs /\ E.sub = 0 /\ E.ops = <<Op("line", 0, line), Fin(W)>>
         /\ E.ops # <<>> /\ E.ops[1].op = "line"
<1>1. PICK p, q : p = Op("line", 0, line) /\ q = Op("chr", W, <<">">>)
  OBVIOUS
<1>2. Chars(W, <<">">>) = <<q>>
  BY <1>1 DEF Chars
<1>3. <<p>> \o <<q>> = <<p, q>>
  BY Joins, Zenon
<1>4. PICK o : o = <<p, q>>
  OBVIOUS
<1>5. E = [Idle EXCEPT !.ops = o]
  BY <1>1, <1>2, <1>3, <1>4, Zenon
<1>6. p \in Ops /\ q \in Ops /\ p.op = "line"
  BY <1>1, LineOpsAre, BodyOpsAre, SymbolsAre, OpFields
<1>7. o \in Seq(Ops) /\ o # <<>> /\ o[1] = p
  BY <1>4, <1>6
<1>8. 0 \in Codes /\ File \in Fds /\ <<>> \in Texts
  BY TextsAre DEF Codes, Fds
<1>9. E \in Execs /\ E.sub = 0 /\ E.ops = o
  BY <1>5, <1>7, <1>8 DEF Idle, Execs
<1>10. q = Fin(W)
  BY <1>1 DEF Fin
<1> QED BY <1>1, <1>4, <1>6, <1>7, <1>9, <1>10

\* InputKey, of Enter
LEMMA InputEnterKeeps ==
  ASSUME TerminalInv, InputEnter
  PROVE  TerminalInv'
<1>1. /\ W \in DOMAIN term /\ exec[W].ops = <<>> /\ queue[W] # <<>>
      /\ queue' = [queue EXCEPT ![W] = Tail(@)] /\ UNCHANGED <<layer_task_map, column, disturbed>>
  BY DEF InputEnter, KeyReceived, AtPrompt
<1>2. /\ term[W] \in Terminals /\ W \in DOMAIN queue /\ term \in [DOMAIN term -> Terminals]
      /\ exec \in [DOMAIN term -> Execs] /\ TypeInv /\ WTerminal /\ \A u \in DOMAIN term : Running(u)
  BY <1>1, TaskFacts DEF TerminalInv
<1>3. queue' \in [DOMAIN queue -> Seq(Messages)] /\ DOMAIN queue' = DOMAIN queue
  BY <1>1, <1>2, NextMessage
<1>4. PICK m : m = Newline(term[W])
  OBVIOUS
<1>5. PICK line : line = term[W].linebuf
  OBVIOUS
<1>6. line \in Texts /\ screen \in [Rows -> [Columns -> Symbols]]
  BY <1>2, <1>5 DEF Terminals, TypeInv
<1>7. PICK w : w = Entered(term[W], line)
  OBVIOUS
<1>8. PICK v : v = [w EXCEPT !.x = m.x, !.y = m.y]
  OBVIOUS
<1>9. PICK E : E = [Idle EXCEPT !.ops = <<Op("line", 0, line)>> \o Chars(W, <<">">>)]
  OBVIOUS
<1>10. /\ term' = [term EXCEPT ![W] = v] /\ exec' = [exec EXCEPT ![W] = E]
       /\ screen' = IF m.scroll THEN Scroll1(screen) ELSE screen
  <2>1. /\ term' = [term EXCEPT ![W] = [Entered(@, line) EXCEPT !.x = m.x, !.y = m.y]]
        /\ exec' = [exec EXCEPT ![W] = E] /\ screen' = IF m.scroll THEN Scroll1(screen) ELSE screen
    BY <1>4, <1>5, <1>9, Zenon DEF InputEnter
  <2>2. term' = [term EXCEPT ![W] = v]
    BY <1>7, <1>8, <2>1, Zenon
  <2> QED BY <2>1, <2>2
<1>11. /\ w \in Terminals /\ w.show = term[W].show /\ w.linebuf = <<>>
       /\ w.files = term[W].files /\ w.layer = term[W].layer
       /\ \A i \in 1 .. HistorySize : w.history[i] = line \/ \E j \in 1 .. HistorySize : w.history[i] = term[W].history[j]
  BY <1>2, <1>6, <1>7, EnteredIs
<1>12. /\ m.x = 0 /\ m.y \in Rows /\ screen' \in [Rows -> [Columns -> Symbols]]
       /\ BlankFrom(screen, term[W].x, term[W].y) => BlankFrom(screen', 0, m.y)
  BY <1>2, <1>4, <1>6, <1>10, NewlineIs
<1>13. /\ v \in Terminals /\ v.x = 0 /\ v.y = m.y /\ v.show = term[W].show /\ v.linebuf = <<>>
       /\ v.files = term[W].files /\ v.layer = term[W].layer /\ v.history = w.history
  <2>1. v \in Terminals /\ v.x = m.x
    <3>1. m.x \in Nat /\ m.y \in Rows /\ w \in Terminals
      BY <1>11, <1>12
    <3> QED BY <1>8, <3>1 DEF Terminals
  <2>2. v.y = m.y /\ v.show = w.show /\ v.linebuf = w.linebuf /\ v.files = w.files /\ v.layer = w.layer /\ v.history = w.history
    <3>1. w \in Terminals
      BY <1>11
    <3> QED BY <1>8, <3>1 DEF Terminals
  <2> QED BY <1>11, <1>12, <2>1, <2>2
<1>14. /\ term' \in [DOMAIN term -> Terminals] /\ DOMAIN term' = DOMAIN term /\ term'[W] = v
       /\ \A u \in DOMAIN term \ {W} : term'[u] = term[u]
  BY <1>1, <1>2, <1>10, <1>13
<1>15. /\ E \in Execs /\ E.sub = 0 /\ E.ops = <<Op("line", 0, line), Fin(W)>>
       /\ E.ops # <<>> /\ E.ops[1].op = "line"
  BY <1>6, <1>9, EnterOps
<1>16. /\ exec' \in [DOMAIN term -> Execs] /\ exec'[W] = E /\ \A u \in DOMAIN term \ {W} : exec'[u] = exec[u]
  BY <1>1, <1>2, <1>10, <1>15
<1>17. TypeInv'
  <2>1. \A u \in DOMAIN term' : exec'[u].sub \in {0} \cup DOMAIN term'
    BY <1>2, <1>14, <1>15, <1>16 DEF TypeInv
  <2> QED BY <1>1, <1>2, <1>3, <1>12, <1>14, <1>16, <2>1 DEF TypeInv
<1>18. WTerminal'
  BY <1>2, <1>3, <1>13, <1>14 DEF WTerminal
<1>19. Keyboard => Keyboard'
  BY <1>1, <1>14, KeyboardKept
<1>20. Running(W)' /\ NoHalf(exec'[W].ops)
  <2>1. AtStage("over")
    BY <1>1, AtOver DEF Split
  <2>2. AtStage("line")'
    BY <1>13, <1>14, <1>19, <2>1 DEF AtStage
  <2>3. PICK t : t = W
    OBVIOUS
  <2>4. PICK f, b : f = <<>> /\ b = E.ops
    OBVIOUS
  <2>5. f \in Seq(BodyOps) /\ NoHalf(f) /\ f = <<>>
    BY <2>4, NoOps
  <2>6. Stage(t, "line", b, exec'[t].sub)
    <3>1. b = <<Op("line", 0, line), Fin(t)>>
      BY <1>15, <2>3, <2>4
    <3> QED BY <1>6, <3>1, Zenon DEF Stage
  <2>7. exec'[t].ops = f \o b /\ exec'[t].sub \in {0} \cup Tasks
    <3>1. b \in Seq(Ops)
      BY <1>15, <2>4 DEF Execs
    <3>2. f \o b = b
      BY <2>4, <3>1, ConcatEmptySeq
    <3> QED BY <1>15, <1>16, <2>3, <2>4, <3>2
  <2>8. t = W /\ "line" \in {"line", "fork", "route", "command", "close", "wait", "end", "fin"}
    BY <2>3
  <2>9. Running(t)' /\ NoHalf(exec'[t].ops)
    BY <2>2, <2>5, <2>6, <2>7, <2>8, Arrives
  <2> QED BY <2>3, <2>9
<1>21. ASSUME NEW u \in DOMAIN term' PROVE Running(u)'
  <2>1. CASE u = W
    BY <1>20, <2>1
  <2>2. CASE u # W
    <3>1. Running(u) /\ exec'[u] = exec[u] /\ term'[u].layer = term[u].layer /\ (u \in DOMAIN queue => u \in DOMAIN queue')
      BY <1>2, <1>3, <1>14, <1>16, <2>2
    <3> QED BY <2>2, <3>1, OtherRuns
  <2> QED BY <2>1, <2>2
<1>22. ASSUME ~disturbed' PROVE Window'
  <2>1. ~disturbed /\ Window
    BY <1>1, <1>22 DEF TerminalInv
  <2>2. BlankFrom(screen', 0, m.y)
    BY <1>12, <2>1 DEF Window, BlankFrom
  <2>3. \A u \in DOMAIN term' : ~Busy(u, "half")'
    <3>1. \A u \in DOMAIN term : ~Busy(u, "half")
      BY <1>1, <2>1, NoHalfAtPrompt
    <3>2. ~Busy(W, "half")'
      BY <1>15, <1>16 DEF Busy, At
    <3> QED BY <1>14, <1>16, <3>1, <3>2 DEF Busy, At
  <2>4. exec'[W].ops # <<>>
    BY <1>15, <1>16
  <2>5. PromptLineFaithful'
    BY <2>4 DEF PromptLineFaithful, AtPrompt
  <2>6. \A yy \in Rows, xx \in Columns : yy > term'[W].y \/ (yy = term'[W].y /\ xx >= term'[W].x) => screen'[yy][xx] = Blank
    BY <1>13, <1>14, <2>2 DEF BlankFrom
  <2>7. \A i \in 1 .. HistorySize : Len(term'[W].history[i]) <= kColumns - 2
    BY <1>5, <1>11, <1>13, <1>14, <2>1 DEF Window
  <2>8. term'[W].x <= kColumns /\ Len(term'[W].linebuf) <= kColumns - 2
    <3>1. Len(v.linebuf) = 0
      BY <1>13
    <3> QED BY <1>13, <1>14, <3>1, TerminalAssumption
  <2> QED BY <2>3, <2>4, <2>5, <2>6, <2>7, <2>8 DEF Window
<1> QED BY <1>17, <1>18, <1>21, <1>22 DEF TerminalInv

\* A key is sent to the task of the active layer.
LEMMA KeyPushKeeps ==
  ASSUME TerminalInv, NEW c \in Keys, KeyPush(c)
  PROVE  TerminalInv'
<1>1. /\ TypeInv /\ WTerminal /\ (\A u \in DOMAIN term : Running(u))
      /\ UNCHANGED <<term, exec, screen, layer_task_map, column, disturbed>>
      /\ queue' = Post(layer_task_map[WLayer], Key(c))
  BY DEF TerminalInv, KeyPush
<1>2. queue \in [DOMAIN queue -> Seq(Messages)] /\ W \in DOMAIN term
  BY <1>1 DEF TypeInv, Tasks, W
<1>3. Key(c) \in Messages
  BY SymbolsAre DEF Key, Messages
<1>4. \A q \in Seq(Messages) : Append(q, Key(c)) \in Seq(Messages)
  BY <1>3, AppendProperties
<1>5. queue' \in [DOMAIN queue -> Seq(Messages)]
  BY <1>1, <1>2, <1>4 DEF Post
<1>6. DOMAIN queue' = DOMAIN queue
  BY <1>5
<1>7. TypeInv' /\ WTerminal'
  BY <1>1, <1>5, <1>6 DEF TypeInv, WTerminal
<1>8. Keyboard => Keyboard'
  BY <1>1, KeyboardKept
<1>9. ASSUME NEW u \in DOMAIN term' PROVE Running(u)'
  <2>1. Running(u) /\ exec'[u] = exec[u]
    BY <1>1, <1>9
  <2> QED BY <1>1, <1>6, <1>8, <2>1, OtherRuns
<1>10. Window => Window'
  BY <1>1, <1>2, WindowKept
<1> QED BY <1>1, <1>7, <1>9, <1>10 DEF TerminalInv


-----------------------------------------------------------------------------
(***************************************************************************)
(* The theorems                                                            *)
(***************************************************************************)

\* The first terminal has its prompt.
LEMMA InitHolds == Init => TerminalInv
<1>1. SUFFICES ASSUME Init PROVE TerminalInv
  OBVIOUS
<1>2. PICK fds : fds = [i \in 1 .. 3 |-> Term(W)]
  OBVIOUS
<1>3. PICK T : T = [NewTerminal(TRUE, fds, WLayer) EXCEPT !.x = 1]
  OBVIOUS
<1>4. /\ term = [t \in {W} |-> T] /\ exec = [t \in {W} |-> Idle] /\ queue = [t \in {W} |-> <<>>]
      /\ screen = [y \in Rows |-> [x \in Columns |-> IF x = 0 /\ y = 0 THEN ">" ELSE Blank]]
      /\ column = 0 /\ disturbed = FALSE
      /\ layer_task_map = [l \in {WLayer} \cup GarbageIds |-> IF l = WLayer THEN W ELSE 0]
  BY <1>1, <1>2, <1>3 DEF Init
<1>5. kColumns \in Nat /\ kColumns >= 2 /\ kRows \in Nat /\ kRows >= 2 /\ MaxTasks \in Nat /\ MaxTasks >= 1 /\ HistorySize \in Nat
  BY TerminalAssumption
<1>6. /\ T \in Terminals /\ T.show /\ T.x = 1 /\ T.y = 0 /\ T.linebuf = <<>> /\ T.files = fds /\ T.layer = WLayer
      /\ T.history = [i \in 1 .. HistorySize |-> <<>>]
  <2>1. fds \in [1 .. 3 -> Fds]
    BY <1>2 DEF Fds
  <2>2. 0 \in Rows /\ 0 \in 0 .. HistorySize /\ 0 \in Codes
    BY <1>5 DEF Rows, Codes
  <2>3. [i \in 1 .. HistorySize |-> <<>>] \in [1 .. HistorySize -> Texts]
    BY TextsAre
  <2> QED BY <1>3, <2>1, <2>2, <2>3, TextsAre DEF NewTerminal, Terminals
<1>7. Idle \in Execs /\ Idle.ops = <<>> /\ Idle.sub = 0
  <2>1. 0 \in Codes /\ File \in Fds /\ <<>> \in Texts
    BY TextsAre DEF Codes, Fds
  <2> QED BY <2>1 DEF Idle, Execs
<1>8. DOMAIN term = {W} /\ DOMAIN queue = {W} /\ term[W] = T /\ exec[W] = Idle /\ exec[W].ops = <<>>
  BY <1>4, <1>7
<1>9. screen \in [Rows -> [Columns -> Symbols]]
  <2>1. ">" \in Symbols /\ Blank \in Symbols
    BY SymbolsAre
  <2> QED BY <1>4, <2>1
<1>10. TypeInv
  <2>1. 1 \in Tasks /\ DOMAIN term = 1 .. 1
    BY <1>5, <1>8 DEF Tasks, W
  <2>2. term \in [DOMAIN term -> Terminals] /\ exec \in [DOMAIN term -> Execs]
    BY <1>4, <1>6, <1>7, <1>8
  <2>3. DOMAIN queue \subseteq DOMAIN term /\ queue \in [DOMAIN queue -> Seq(Messages)]
    BY <1>4, <1>8
  <2>4. WLayer \in DOMAIN layer_task_map /\ layer_task_map = [l \in DOMAIN layer_task_map |-> layer_task_map[l]]
    BY <1>4
  <2>5. disturbed \in BOOLEAN /\ \A t \in DOMAIN term : exec[t].sub \in {0} \cup DOMAIN term
    BY <1>4, <1>7, <1>8
  <2> QED BY <1>9, <2>1, <2>2, <2>3, <2>4, <2>5 DEF TypeInv
<1>11. \A i \in 1 .. 3 : term[W].files[i] = Term(W)
  BY <1>2, <1>6, <1>8
<1>12. WTerminal
  BY <1>6, <1>8, <1>11 DEF WTerminal
<1>13. Running(W)
  <2>1. Keyboard
    BY <1>4 DEF Keyboard
  <2>2. AtStage("over")
    BY <1>11, <2>1 DEF AtStage
  <2>3. exec[W].ops = <<>> \o <<>>
    BY <1>8
  <2>4. Stage(W, "over", <<>>, exec[W].sub)
    BY Zenon DEF Stage
  <2>5. Split(W, "over", <<>>, <<>>)
    BY <2>2, <2>3, <2>4, NoOps DEF Split, Stages
  <2>6. HalfFirst(exec[W].ops)
    BY <1>8 DEF HalfFirst
  <2> QED BY <2>5, <2>6 DEF Running
<1>14. Window
  <2>1. \A t \in DOMAIN term : ~Busy(t, "half")
    BY <1>8 DEF Busy
  <2>2. Len(T.linebuf) = 0 /\ \A i \in 1 .. HistorySize : Len(T.history[i]) = 0
    BY <1>6
  <2>3. PromptLineFaithful
    <3>1. 0 \in Rows /\ screen[0] = [x \in Columns |-> IF x = 0 THEN ">" ELSE Blank]
      BY <1>4, <1>5 DEF Rows
    <3>2. \A x \in Columns : x # 0 => ~(x <= 0)
      BY <1>5 DEF Columns
    <3>3. [x \in Columns |-> IF x = 0 THEN ">" ELSE Blank]
            = [x \in Columns |-> IF x = 0 THEN ">" ELSE IF x <= Len(T.linebuf) THEN T.linebuf[x] ELSE Blank]
      BY <2>2, <3>2
    <3>4. T.x = Len(T.linebuf) + 1 /\ term[W].y = 0
      BY <1>6, <1>8, <2>2
    <3> QED BY <1>8, <3>1, <3>3, <3>4 DEF PromptLineFaithful
  <2>4. ASSUME NEW y \in Rows, NEW x \in Columns, y > term[W].y \/ (y = term[W].y /\ x >= term[W].x)
        PROVE  screen[y][x] = Blank
    <3>1. ~(x = 0 /\ y = 0)
      BY <1>5, <1>6, <1>8, <2>4 DEF Rows, Columns
    <3> QED BY <1>4, <3>1
  <2> QED BY <1>5, <1>6, <1>8, <2>1, <2>2, <2>3, <2>4 DEF Window
<1> QED BY <1>8, <1>10, <1>12, <1>13, <1>14 DEF TerminalInv

\* Every step keeps the invariant.
LEMMA NextKeeps ==
  ASSUME TerminalInv, [Next]_vars
  PROVE  TerminalInv'
<1>1. CASE UNCHANGED vars
  <2>1. UNCHANGED <<term, exec, queue, screen, layer_task_map, column, disturbed>>
    BY <1>1 DEF vars
  <2>2. TypeInv /\ WTerminal /\ (\A u \in DOMAIN term : Running(u)) /\ (~disturbed => Window)
    BY DEF TerminalInv
  <2>3. TypeInv' /\ WTerminal'
    BY <2>1, <2>2 DEF TypeInv, WTerminal
  <2>4. Keyboard => Keyboard'
    BY <2>1, KeyboardKept
  <2>5. ASSUME NEW u \in DOMAIN term' PROVE Running(u)'
    BY <2>1, <2>2, <2>4, OtherRuns
  <2>6. Window => Window'
    <3>1. W \in DOMAIN term
      BY <2>2 DEF TypeInv, Tasks, W
    <3> QED BY <2>1, <3>1, WindowKept
  <2> QED BY <2>1, <2>2, <2>3, <2>5, <2>6 DEF TerminalInv
<1>2. ASSUME NEW c \in Keys, KeyPush(c) PROVE TerminalInv'
  BY <1>2, KeyPushKeeps
<1>3. CASE InputKey
  BY <1>3, InputKeyKeeps
<1>4. CASE InputEnter
  BY <1>4, InputEnterKeeps
<1>5. ASSUME NEW t \in DOMAIN term, Step(t) PROVE TerminalInv'
  <2>1. CASE PrintBegin(t)
    BY <2>1, PrintBeginKeeps
  <2>2. CASE PrintEnd(t)
    BY <2>2, PrintEndKeeps
  <2>3. CASE ExecuteLine(t)
    BY <2>3, ExecuteLineKeeps
  <2>4. CASE Fork(t)
    BY <2>4, ForkKeeps
  <2>5. CASE Route(t)
    BY <2>5, RouteKeeps
  <2>6. CASE Command(t)
    BY <2>6, CommandKeeps
  <2>7. CASE Put(t)
    BY <2>7, PutKeeps
  <2>8. CASE ReadKey(t)
    BY <2>8, ReadKeyKeeps
  <2>9. CASE ReadPipe(t)
    BY <2>9, ReadPipeKeeps
  <2>10. CASE FinishPipe(t)
    BY <2>10, FinishPipeKeeps
  <2>11. CASE Exit(t)
    BY <2>11, ExitKeeps
  <2>12. CASE WaitFinish(t)
    BY <2>12, WaitFinishKeeps
  <2>13. CASE End(t)
    BY <2>13, EndKeeps
  <2> QED BY <1>5, <2>1, <2>2, <2>3, <2>4, <2>5, <2>6, <2>7, <2>8, <2>9, <2>10, <2>11, <2>12, <2>13 DEF Step
<1> QED BY <1>1, <1>2, <1>3, <1>4, <1>5 DEF Next

\* The invariant of the terminals: every task is at a stage of ExecuteLine with
\* what that stage needs, and the window is in order as long as no task printed
\* into the output of another.
THEOREM TerminalInvariant == Spec => []TerminalInv
<1>1. Init => TerminalInv
  BY InitHolds
<1>2. TerminalInv /\ [Next]_vars => TerminalInv'
  BY NextKeeps
<1> QED BY <1>1, <1>2, PTL DEF Spec

\* What Enter executes is what the user sees, whatever was typed, erased or
\* recalled and whatever scrolled (InputKey, HistoryUpDown, Scroll1, clear).
THEOREM PromptLineFaithfulTheorem == Spec => []PromptLineFaithful
<1>1. TerminalInv => PromptLineFaithful
  <2>1. disturbed => PromptLineFaithful
    BY DEF PromptLineFaithful
  <2> QED BY <2>1 DEF TerminalInv, Window
<1> QED BY <1>1, TerminalInvariant, PTL

\* Print(char32_t) stays inside the window for any size of it and any output,
\* characters of two columns included.
THEOREM CursorInWindowTheorem == Spec => []CursorInWindow
<1>1. TerminalInv => CursorInWindow
  <2>1. ASSUME TerminalInv PROVE term[W].y \in Rows
    <3>1. W \in DOMAIN term /\ term \in [DOMAIN term -> Terminals]
      BY <2>1 DEF TerminalInv, TypeInv, Tasks, W
    <3>2. term[W] \in Terminals
      BY <3>1
    <3> QED BY <3>2 DEF Terminals
  <2> QED BY <2>1 DEF TerminalInv, Window, CursorInWindow
<1> QED BY <1>1, TerminalInvariant, PTL

\* At its prompt a terminal has the keyboard and its standard output back after
\* any line: pipes, redirections that fail, commands in the background.
THEOREM PromptRestoredTheorem == Spec => []PromptRestored
<1>1. ASSUME TerminalInv PROVE PromptRestored
  <2>1. SUFFICES ASSUME AtPrompt(W), \A t \in DOMAIN term \ {W} : term[t].layer # WLayer
                 PROVE  layer_task_map[WLayer] = W /\ term[W].files = [i \in 1 .. 3 |-> Term(W)]
    BY DEF PromptRestored
  <2>2. W \in DOMAIN term /\ exec[W].ops = <<>>
    BY <2>1 DEF AtPrompt
  <2>3. Split(W, "over", <<>>, <<>>)
    BY <1>1, <2>2, AtOver
  <2>4. AtStage("over")
    BY <2>3 DEF Split
  <2>5. layer_task_map[WLayer] = W
    BY <2>1, <2>4 DEF AtStage, Keyboard
  <2>6. term[W].files[1] = Term(W) /\ term[W].files[2] = Term(W) /\ term[W].files[3] = Term(W)
    BY <1>1, <2>4 DEF TerminalInv, WTerminal, AtStage
  <2>7. term[W].files \in [1 .. 3 -> Fds]
    <3>1. term[W] \in Terminals
      BY <1>1, <2>2, TaskFacts
    <3> QED BY <3>1 DEF Terminals
  <2>8. term[W].files = [i \in 1 .. 3 |-> Term(W)]
    BY <2>6, <2>7
  <2> QED BY <2>5, <2>8
<1> QED BY <1>1, TerminalInvariant, PTL

-----------------------------------------------------------------------------
(***************************************************************************)
(* The bytes of a pipe (Pipe), for every message size, every length of the *)
(* reads and writes and any number of other messages: a pipe implements    *)
(* ByteChannel.                                                            *)
(***************************************************************************)

USE PipeAssumption

\* A concatenation, element by element.
LEMMA ConcatParts ==
  ASSUME NEW S, NEW a \in Seq(S), NEW b \in Seq(S)
  PROVE  /\ a \o b \in Seq(S) /\ Len(a) \in Nat /\ Len(b) \in Nat /\ Len(a \o b) = Len(a) + Len(b)
         /\ \A i \in 1 .. Len(a) + Len(b) : (a \o b)[i] = IF i <= Len(a) THEN a[i] ELSE b[i - Len(a)]
<1>1. Len(a) \in Nat /\ Len(b) \in Nat
  BY LenProperties
<1>2. /\ a \o b \in Seq(S) /\ Len(a \o b) = Len(a) + Len(b)
      /\ \A i \in 1 .. Len(a) + Len(b) : (a \o b)[i] = IF i <= Len(a) THEN a[i] ELSE b[i - Len(a)]
  BY ConcatProperties
<1> QED BY <1>1, <1>2

-----------------------------------------------------------------------------
(* The inductive invariant. *)

\* Bytes the reader has taken from its queue.
got == Len(delivered) + Len(data_)

\* The queue holds the stream from byte got to byte next, without a gap or
\* an overlap, and an empty kPipe message only at its end.
MessageOK(m, sent, done) ==
  /\ m.at + Len(m.data) <= sent
  /\ \A k \in 1 .. Len(m.data) : m.data[k] = m.at + k
  /\ m.type = "other" => m.data = <<>>
  /\ m.type = "kPipe" /\ m.data = <<>> => done /\ m.at = sent

QueueInv ==
  /\ \A i \in 1 .. Len(msgs_) : MessageOK(msgs_[i], next, finished)
  /\ \A i \in 1 .. Len(msgs_) - 1 : msgs_[i + 1].at = msgs_[i].at + Len(msgs_[i].data)
  /\ Len(msgs_) = 0 => got = next
  /\ Len(msgs_) > 0 => /\ msgs_[1].at = got
                       /\ msgs_[Len(msgs_)].at + Len(msgs_[Len(msgs_)].data) = next

\* The reader has the bytes up to got, in order.
ReaderInv ==
  /\ \A k \in 1 .. Len(delivered) : delivered[k] = k
  /\ \A k \in 1 .. Len(data_) : data_[k] = Len(delivered) + k
  /\ got <= next
  /\ closed_ => finished /\ got = next
  /\ eof => closed_
  /\ finished => todo = 0
  /\ reading > 0 => data_ = <<>> /\ ~closed_

PipeInv == PipeTypeOK /\ QueueInv /\ ReaderInv

-----------------------------------------------------------------------------
(* Copying. *)

\* Copy hands over the next bytes and keeps the ones after them.
LEMMA CopyAdvances ==
  ASSUME delivered \in Seq(Nat), \A k \in 1 .. Len(delivered) : delivered[k] = k,
         NEW bytes \in Seq(Nat), bytes # <<>>,
         \A k \in 1 .. Len(bytes) : bytes[k] = Len(delivered) + k,
         NEW len \in Nat, len > 0,
         Copy(bytes, len)
  PROVE  /\ delivered' \in Seq(Nat) /\ data_' \in Seq(Nat)
         /\ Len(delivered') > Len(delivered)
         /\ Len(delivered') + Len(data_') = Len(delivered) + Len(bytes)
         /\ \A k \in 1 .. Len(delivered') : delivered'[k] = k
         /\ \A k \in 1 .. Len(data_') : data_'[k] = Len(delivered') + k
         /\ delivered' = [k \in 1 .. Len(delivered') |-> k]
<1> DEFINE n == Smaller(len, Len(bytes))
           a == SubSeq(bytes, 1, n)
           b == SubSeq(bytes, n + 1, Len(bytes))
<1>1. Len(bytes) \in Nat /\ Len(bytes) > 0 /\ Len(delivered) \in Nat
  BY EmptySeq, LenProperties
<1>2. n \in 1 .. Len(bytes)
  BY <1>1 DEF Smaller
<1> HIDE DEF n
<1>3. /\ a \in Seq(Nat) /\ Len(a) = n
      /\ \A k \in 1 .. n : a[k] = bytes[k]
  BY <1>1, <1>2
<1>4. /\ b \in Seq(Nat) /\ Len(b) = Len(bytes) - n
      /\ \A k \in 1 .. Len(bytes) - n : b[k] = bytes[n + k]
  BY <1>1, <1>2
<1>5. delivered' = delivered \o a /\ data_' = b
  BY DEF Copy, n
<1> HIDE DEF a, b
<1>6. /\ delivered \o a \in Seq(Nat)
      /\ Len(delivered \o a) = Len(delivered) + Len(a)
      /\ \A k \in 1 .. Len(delivered) + Len(a) :
           (delivered \o a)[k] = IF k <= Len(delivered) THEN delivered[k]
                                                        ELSE a[k - Len(delivered)]
  BY <1>3, ConcatParts
<1>7. delivered' \in Seq(Nat) /\ Len(delivered') = Len(delivered) + n
  BY <1>3, <1>5, <1>6
<1>8. \A k \in 1 .. Len(delivered') : delivered'[k] = k
  <2> SUFFICES ASSUME NEW k \in 1 .. Len(delivered) + n PROVE delivered'[k] = k
    BY <1>7
  <2>1. delivered'[k] = IF k <= Len(delivered) THEN delivered[k] ELSE a[k - Len(delivered)]
    BY <1>3, <1>5, <1>6
  <2>2. CASE k <= Len(delivered)
    BY <1>1, <2>1, <2>2
  <2>3. CASE ~(k <= Len(delivered))
    <3> DEFINE j == k - Len(delivered)
    <3>1. j \in 1 .. n /\ j \in 1 .. Len(bytes) /\ Len(delivered) + j = k
      BY <1>1, <1>2, <2>3
    <3>2. delivered'[k] = a[j]
      BY <2>1, <2>3
    <3> HIDE DEF j
    <3>3. a[j] = bytes[j] /\ bytes[j] = Len(delivered) + j
      BY <1>3, <3>1
    <3> QED BY <3>1, <3>2, <3>3
  <2> QED BY <2>2, <2>3
<1>9. \A k \in 1 .. Len(data_') : data_'[k] = Len(delivered') + k
  <2> SUFFICES ASSUME NEW k \in 1 .. Len(bytes) - n PROVE b[k] = Len(delivered) + n + k
    BY <1>4, <1>5, <1>7
  <2>1. n + k \in 1 .. Len(bytes)
    BY <1>1, <1>2
  <2>2. b[k] = bytes[n + k] /\ bytes[n + k] = Len(delivered) + (n + k)
    BY <1>4, <2>1
  <2> QED BY <1>1, <1>2, <2>2
<1>10. delivered' = [k \in 1 .. Len(delivered') |-> k]
  BY <1>7, <1>8
<1>11. /\ Len(delivered') > Len(delivered)
       /\ Len(delivered') + Len(data_') = Len(delivered) + Len(bytes)
  <2>1. Len(data_') = Len(bytes) - n
    BY <1>4, <1>5
  <2>2. Len(delivered') = Len(delivered) + n
    BY <1>7
  <2> QED BY <1>1, <1>2, <2>1, <2>2
<1>12. data_' \in Seq(Nat)
  BY <1>4, <1>5
<1> QED BY <1>7, <1>8, <1>9, <1>10, <1>11, <1>12

-----------------------------------------------------------------------------
(* Steps. *)

LEMMA PipeInitInv == PipeInit => PipeInv
<1> SUFFICES ASSUME PipeInit PROVE PipeInv
  OBVIOUS
<1>1. PipeTypeOK
  <2>1. <<>> \in Seq(PipeMessages) /\ <<>> \in Seq(Nat)
    OBVIOUS
  <2>2. todo \in Nat /\ next \in Nat /\ next + todo <= MaxBytes /\ reading \in ReadSizes \cup {0}
    BY DEF PipeInit
  <2>3. finished \in BOOLEAN /\ asleep \in BOOLEAN /\ closed_ \in BOOLEAN /\ eof \in BOOLEAN
    BY DEF PipeInit
  <2> QED BY <2>1, <2>2, <2>3 DEF PipeInit, PipeTypeOK
<1>2. QueueInv /\ ReaderInv
  BY DEF PipeInit, QueueInv, ReaderInv, got
<1> QED BY <1>1, <1>2 DEF PipeInv

\* Appending the message that comes next in the stream keeps the queue a
\* piece of the stream.
LEMMA SendKeepsQueue ==
  ASSUME PipeInv, NEW type \in {"kPipe", "other"}, NEW data \in Seq(Nat),
         SendMessage(type, data),
         next' \in Nat, next' = next + Len(data),
         \A k \in 1 .. Len(data) : data[k] = next + k,
         type = "other" => data = <<>>,
         type = "kPipe" /\ data = <<>> => finished',
         finished => finished' /\ data = <<>>,
         finished' \in BOOLEAN,
         UNCHANGED <<data_, delivered>>
  PROVE  msgs_' \in Seq(PipeMessages) /\ QueueInv' /\ asleep' \in BOOLEAN
<1> DEFINE m == [type |-> type, data |-> data, at |-> next]
<1>0. /\ next \in Nat /\ msgs_ \in Seq(PipeMessages) /\ Len(msgs_) \in Nat /\ Len(data) \in Nat
      /\ got' = got
  BY LenProperties DEF PipeInv, PipeTypeOK, got
<1>1. m \in PipeMessages /\ m.type = type /\ m.data = data /\ m.at = next
  BY <1>0 DEF PipeMessages
<1> HIDE DEF m
<1>2. msgs_' = Append(msgs_, m) /\ asleep' = FALSE
  BY DEF SendMessage, m
<1>3. /\ msgs_' \in Seq(PipeMessages) /\ Len(msgs_') = Len(msgs_) + 1
      /\ \A i \in 1 .. Len(msgs_) : msgs_'[i] = msgs_[i]
      /\ msgs_'[Len(msgs_) + 1] = m
  BY <1>0, <1>1, <1>2, AppendProperties
<1>4. ASSUME NEW i \in 1 .. Len(msgs_) PROVE MessageOK(msgs_'[i], next', finished')
  <2>1. MessageOK(msgs_[i], next, finished) /\ msgs_[i] \in PipeMessages
    BY <1>0 DEF PipeInv, QueueInv
  <2>2. Len(msgs_[i].data) \in Nat /\ msgs_[i].at \in Nat
    BY <2>1, LenProperties DEF PipeMessages
  <2>3. msgs_'[i] = msgs_[i]
    BY <1>3
  <2>4. finished => next' = next
    BY <1>0, EmptySeq
  <2> QED BY <1>0, <2>1, <2>2, <2>3, <2>4 DEF MessageOK
<1>5. MessageOK(msgs_'[Len(msgs_) + 1], next', finished')
  <2>1. type = "kPipe" /\ data = <<>> => finished' /\ next = next'
    BY <1>0, EmptySeq
  <2> QED BY <1>0, <1>1, <1>3, <2>1 DEF MessageOK
<1>6. \A i \in 1 .. Len(msgs_') : MessageOK(msgs_'[i], next', finished')
  BY <1>0, <1>3, <1>4, <1>5
<1>7. ASSUME NEW i \in 1 .. Len(msgs_') - 1
      PROVE  msgs_'[i + 1].at = msgs_'[i].at + Len(msgs_'[i].data)
  <2>1. CASE i < Len(msgs_)
    BY <1>0, <1>3, <2>1, SMTT(30) DEF PipeInv, QueueInv
  <2>2. CASE i = Len(msgs_)
    BY <1>0, <1>1, <1>3, <2>2 DEF PipeInv, QueueInv
  <2> QED BY <1>0, <1>3, <2>1, <2>2
<1>8. msgs_'[1].at = got'
  <2>1. CASE Len(msgs_) = 0
    BY <1>0, <1>1, <1>3, <2>1 DEF PipeInv, QueueInv
  <2>2. CASE Len(msgs_) > 0
    <3>1. msgs_'[1] = msgs_[1]
      BY <1>0, <1>3, <2>2
    <3>2. msgs_[1].at = got
      BY <2>2 DEF PipeInv, QueueInv
    <3> QED BY <1>0, <3>1, <3>2
  <2> QED BY <1>0, <2>1, <2>2
<1>9. msgs_'[Len(msgs_')].at + Len(msgs_'[Len(msgs_')].data) = next'
  BY <1>0, <1>1, <1>3
<1>10. QueueInv'
  BY <1>0, <1>3, <1>6, <1>7, <1>8, <1>9 DEF QueueInv
<1> QED BY <1>2, <1>3, <1>10

\* Taking the first message: what is left continues where it ends.
LEMMA ReceiveKeepsQueue ==
  ASSUME PipeInv, msgs_ # <<>>, msgs_' = Tail(msgs_),
         UNCHANGED <<next, finished>>,
         got' = got + Len(msgs_[1].data)
  PROVE  msgs_' \in Seq(PipeMessages) /\ QueueInv'
<1>0. /\ msgs_ \in Seq(PipeMessages) /\ Len(msgs_) \in Nat /\ Len(msgs_) > 0
      /\ next \in Nat
  BY LenProperties, EmptySeq DEF PipeInv, PipeTypeOK
<1>1. /\ Tail(msgs_) \in Seq(PipeMessages) /\ Len(Tail(msgs_)) = Len(msgs_) - 1
      /\ \A i \in 1 .. Len(msgs_) - 1 : Tail(msgs_)[i] = msgs_[i + 1]
  BY <1>0, HeadTailProperties
<1>2. /\ msgs_' \in Seq(PipeMessages) /\ Len(msgs_') = Len(msgs_) - 1
      /\ \A i \in 1 .. Len(msgs_) - 1 : msgs_'[i] = msgs_[i + 1]
  BY <1>1
<1>3. /\ \A i \in 1 .. Len(msgs_) : MessageOK(msgs_[i], next, finished)
      /\ \A i \in 1 .. Len(msgs_) - 1 : msgs_[i + 1].at = msgs_[i].at + Len(msgs_[i].data)
      /\ msgs_[1].at = got
      /\ msgs_[Len(msgs_)].at + Len(msgs_[Len(msgs_)].data) = next
  BY <1>0 DEF PipeInv, QueueInv
<1>4. \A i \in 1 .. Len(msgs_') : MessageOK(msgs_'[i], next', finished')
  <2> SUFFICES ASSUME NEW i \in 1 .. Len(msgs_) - 1
               PROVE  MessageOK(msgs_'[i], next', finished')
    BY <1>2
  <2>1. MessageOK(msgs_[i + 1], next, finished)
    BY <1>0, <1>3
  <2>2. msgs_'[i] = msgs_[i + 1]
    BY <1>2
  <2> QED BY <2>1, <2>2
<1>5. \A i \in 1 .. Len(msgs_') - 1 : msgs_'[i + 1].at = msgs_'[i].at + Len(msgs_'[i].data)
  <2> SUFFICES ASSUME NEW i \in 1 .. Len(msgs_) - 2
               PROVE  msgs_'[i + 1].at = msgs_'[i].at + Len(msgs_'[i].data)
    BY <1>0, <1>2
  <2>1. msgs_'[i] = msgs_[i + 1] /\ msgs_'[i + 1] = msgs_[i + 1 + 1]
    BY <1>0, <1>2
  <2>2. msgs_[i + 1 + 1].at = msgs_[i + 1].at + Len(msgs_[i + 1].data)
    BY <1>0, <1>3
  <2> QED BY <2>1, <2>2
<1>6. CASE Len(msgs_) = 1
  <2>1. got' = next'
    BY <1>3, <1>6
  <2> QED BY <1>2, <1>4, <1>5, <1>6, <2>1 DEF QueueInv
<1>7. CASE Len(msgs_) > 1
  <2>1. msgs_'[1] = msgs_[1 + 1] /\ msgs_[1 + 1].at = msgs_[1].at + Len(msgs_[1].data)
    BY <1>0, <1>2, <1>3, <1>7
  <2>2. msgs_'[1].at = got'
    BY <1>3, <2>1
  <2>3. msgs_'[Len(msgs_')] = msgs_[Len(msgs_)]
    <3>1. Len(msgs_) - 1 \in 1 .. Len(msgs_) - 1 /\ Len(msgs_) - 1 + 1 = Len(msgs_)
      BY <1>0, <1>7
    <3> QED BY <1>2, <3>1
  <2>4. msgs_'[Len(msgs_')].at + Len(msgs_'[Len(msgs_')].data) = next'
    BY <1>3, <2>3
  <2>5. Len(msgs_') > 0 /\ Len(msgs_') # 0
    BY <1>0, <1>2, <1>7
  <2>6. QueueInv'
    <3> HIDE DEF got
    <3> QED BY <1>4, <1>5, <2>2, <2>4, <2>5 DEF QueueInv
  <2> QED BY <1>2, <2>6
<1> QED BY <1>0, <1>2, <1>6, <1>7

\* Handing bytes to the caller keeps the reader's side of the invariant.
LEMMA CopyKeepsReader ==
  ASSUME PipeInv,
         NEW bytes \in Seq(Nat), bytes # <<>>,
         \A k \in 1 .. Len(bytes) : bytes[k] = Len(delivered) + k,
         Len(delivered) + Len(bytes) <= next,
         closed_ => Len(delivered) + Len(bytes) = next,
         NEW len \in Nat, len > 0, Copy(bytes, len),
         UNCHANGED <<todo, next, finished, closed_, eof>>, reading' = 0
  PROVE  /\ delivered' \in Seq(Nat) /\ data_' \in Seq(Nat)
         /\ got' = Len(delivered) + Len(bytes)
         /\ ReaderInv'
         /\ Channel!Deliver
<1>1. /\ delivered \in Seq(Nat) /\ Len(delivered) \in Nat /\ next \in Nat
      /\ \A k \in 1 .. Len(delivered) : delivered[k] = k
  BY LenProperties DEF PipeInv, PipeTypeOK, ReaderInv
<1>2. /\ delivered' \in Seq(Nat) /\ data_' \in Seq(Nat)
      /\ Len(delivered') > Len(delivered)
      /\ Len(delivered') + Len(data_') = Len(delivered) + Len(bytes)
      /\ \A k \in 1 .. Len(delivered') : delivered'[k] = k
      /\ \A k \in 1 .. Len(data_') : data_'[k] = Len(delivered') + k
      /\ delivered' = [k \in 1 .. Len(delivered') |-> k]
  BY <1>1, CopyAdvances
<1>3. got' = Len(delivered) + Len(bytes)
  BY <1>2 DEF got
<1>4. ReaderInv'
  <2>1. /\ got' <= next'
        /\ (closed_ => finished /\ got = next)' /\ (eof => closed_)' /\ (finished => todo = 0)'
    BY <1>3 DEF PipeInv, ReaderInv
  <2>2. ~(reading > 0)'
    OBVIOUS
  <2> QED BY <1>2, <2>1, <2>2 DEF ReaderInv
<1>5. Channel!Deliver
  <2>1. Len(delivered') \in Nat /\ Len(data_') \in Nat
    BY <1>2, LenProperties
  <2>2. Len(delivered') \in 1 .. next
    <3>1. Len(delivered') + Len(data_') <= next
      BY <1>2
    <3> QED BY <1>1, <1>2, <2>1, <3>1
  <2> QED BY <1>2, <2>2 DEF Channel!Deliver
<1> QED BY <1>2, <1>3, <1>4, <1>5

\* A step that leaves the stream alone leaves both parts alone.
LEMMA StreamUnchanged ==
  ASSUME PipeInv, UNCHANGED <<next, finished, msgs_, data_, delivered>>
  PROVE  QueueInv' /\ got' = got
<1>1. got' = got
  BY DEF got
<1> QED BY <1>1 DEF PipeInv, QueueInv

LEMMA WriteStep ==
  ASSUME PipeInv, NEW len \in WriteSizes, Write(len)
  PROVE  PipeInv' /\ UNCHANGED Channel!vars
<1> USE DEF Write
<1>1. PipeTypeOK'
  BY DEF PipeInv, PipeTypeOK
<1>2. QueueInv' /\ got' = got
  BY StreamUnchanged
<1>3. ReaderInv'
  BY <1>2 DEF PipeInv, ReaderInv
<1>4. UNCHANGED Channel!vars
  BY DEF Channel!vars
<1> QED BY <1>1, <1>2, <1>3, <1>4 DEF PipeInv

LEMMA WriteChunkStep ==
  ASSUME PipeInv, WriteChunk
  PROVE  PipeInv' /\ Channel!Put
<1> DEFINE n == Smaller(todo, kChunk)
           data == [i \in 1 .. n |-> next + i]
<1>1. todo \in Nat /\ next \in Nat /\ next + todo <= MaxBytes /\ todo > 0 /\ ~finished
  BY DEF PipeInv, PipeTypeOK, ReaderInv, WriteChunk
<1>2. n \in Nat /\ n > 0 /\ n <= todo
  BY <1>1 DEF Smaller
<1>3. /\ SendMessage("kPipe", data) /\ todo' = todo - n /\ next' = next + n
      /\ UNCHANGED <<finished, data_, closed_, reading, delivered, eof>>
  BY DEF WriteChunk
<1> HIDE DEF n
<1>4. /\ data \in Seq(Nat) /\ Len(data) = n
      /\ \A k \in 1 .. Len(data) : data[k] = next + k
  BY <1>1, <1>2
<1> HIDE DEF data
<1>5. data # <<>>
  BY <1>2, <1>4, EmptySeq
<1>6. finished' \in BOOLEAN /\ next' \in Nat /\ next' = next + Len(data)
  BY <1>1, <1>2, <1>3, <1>4 DEF PipeInv, PipeTypeOK
<1>7. msgs_' \in Seq(PipeMessages) /\ QueueInv' /\ asleep' \in BOOLEAN
  BY <1>1, <1>3, <1>4, <1>5, <1>6, SendKeepsQueue
<1>8. PipeTypeOK'
  <2>1. todo' \in Nat /\ next' + todo' <= MaxBytes
    BY <1>1, <1>2, <1>3
  <2> QED BY <1>3, <1>6, <1>7, <2>1 DEF PipeInv, PipeTypeOK
<1>9. ReaderInv'
  <2>1. got' = got /\ got <= next /\ ~closed_
    BY <1>1, <1>3 DEF PipeInv, ReaderInv, got
  <2>2. got \in Nat
    BY LenProperties DEF PipeInv, PipeTypeOK, got
  <2>3. got' <= next'
    BY <1>1, <1>2, <1>3, <2>1, <2>2
  <2> QED BY <1>1, <1>3, <2>1, <2>3 DEF PipeInv, ReaderInv
<1>10. Channel!Put
  BY <1>1, <1>2, <1>3, <1>6 DEF Channel!Put
<1> QED BY <1>7, <1>8, <1>9, <1>10 DEF PipeInv

LEMMA FinishWriteStep ==
  ASSUME PipeInv, FinishWrite
  PROVE  PipeInv' /\ Channel!Close
<1>1. /\ SendMessage("kPipe", <<>>) /\ finished' = TRUE /\ ~finished /\ todo = 0
      /\ UNCHANGED <<todo, next, data_, closed_, reading, delivered, eof>>
  BY DEF FinishWrite
<1> DEFINE data == <<>>
<1>2. /\ data \in Seq(Nat) /\ data = <<>> /\ SendMessage("kPipe", data)
      /\ next' \in Nat /\ next' = next + Len(data)
      /\ \A k \in 1 .. Len(data) : data[k] = next + k
  BY <1>1 DEF PipeInv, PipeTypeOK
<1> HIDE DEF data
<1>3. msgs_' \in Seq(PipeMessages) /\ QueueInv' /\ asleep' \in BOOLEAN
  BY <1>1, <1>2, SendKeepsQueue
<1>4. PipeTypeOK'
  <2>1. finished' \in BOOLEAN
    BY <1>1 DEF PipeInv, PipeTypeOK
  <2> QED BY <1>1, <1>3, <2>1 DEF PipeInv, PipeTypeOK
<1>5. ReaderInv'
  <2>1. got' = got
    BY <1>1 DEF got
  <2> QED BY <1>1, <2>1 DEF PipeInv, ReaderInv
<1>6. Channel!Close
  BY <1>1 DEF Channel!Close
<1> QED BY <1>3, <1>4, <1>5, <1>6 DEF PipeInv

LEMMA OtherMessageStep ==
  ASSUME PipeInv, OtherMessage
  PROVE  PipeInv' /\ UNCHANGED Channel!vars
<1>1. /\ SendMessage("other", <<>>)
      /\ UNCHANGED <<todo, next, finished, data_, closed_, reading, delivered, eof>>
  BY DEF OtherMessage
<1> DEFINE data == <<>>
<1>2. /\ data \in Seq(Nat) /\ data = <<>> /\ SendMessage("other", data)
      /\ next' \in Nat /\ next' = next + Len(data)
      /\ \A k \in 1 .. Len(data) : data[k] = next + k
      /\ finished' \in BOOLEAN
  BY <1>1 DEF PipeInv, PipeTypeOK
<1> HIDE DEF data
<1>3. msgs_' \in Seq(PipeMessages) /\ QueueInv' /\ asleep' \in BOOLEAN
  BY <1>1, <1>2, SendKeepsQueue
<1>4. PipeTypeOK'
  <2>1. finished' \in BOOLEAN
    BY <1>1 DEF PipeInv, PipeTypeOK
  <2> QED BY <1>1, <1>3, <2>1 DEF PipeInv, PipeTypeOK
<1>5. ReaderInv'
  <2>1. got' = got
    BY <1>1 DEF got
  <2> QED BY <1>1, <2>1 DEF PipeInv, ReaderInv
<1>6. UNCHANGED Channel!vars
  BY <1>1 DEF Channel!vars
<1> QED BY <1>3, <1>4, <1>5, <1>6 DEF PipeInv

LEMMA ReadSleepStep ==
  ASSUME PipeInv, ReadSleep
  PROVE  PipeInv' /\ UNCHANGED Channel!vars
<1> USE DEF ReadSleep
<1>1. PipeTypeOK'
  BY DEF PipeInv, PipeTypeOK
<1>2. QueueInv' /\ got' = got
  BY StreamUnchanged
<1>3. ReaderInv'
  BY <1>2 DEF PipeInv, ReaderInv
<1>4. UNCHANGED Channel!vars
  BY DEF Channel!vars
<1> QED BY <1>1, <1>2, <1>3, <1>4 DEF PipeInv

LEMMA ReadStep ==
  ASSUME PipeInv, NEW len \in ReadSizes, Read(len)
  PROVE  PipeInv' /\ [Channel!Next]_(Channel!vars)
<1>1. reading = 0 /\ UNCHANGED <<todo, next, finished, msgs_, asleep, closed_>>
  BY DEF Read
<1>2. CASE data_ # <<>>
  <2>1. Copy(data_, len) /\ UNCHANGED <<reading, eof>>
    BY <1>2 DEF Read
  <2>2. /\ data_ \in Seq(Nat) /\ len \in Nat /\ len > 0
        /\ \A k \in 1 .. Len(data_) : data_[k] = Len(delivered) + k
        /\ Len(delivered) + Len(data_) <= next
        /\ closed_ => Len(delivered) + Len(data_) = next
    BY DEF PipeInv, PipeTypeOK, ReaderInv, got
  <2>3. /\ delivered' \in Seq(Nat) /\ data_' \in Seq(Nat)
        /\ got' = Len(delivered) + Len(data_)
        /\ ReaderInv'
        /\ Channel!Deliver
    BY <1>1, <1>2, <2>1, <2>2, CopyKeepsReader
  <2>4. PipeTypeOK'
    BY <1>1, <2>1, <2>3 DEF PipeInv, PipeTypeOK
  <2>5. QueueInv'
    <3>1. got' = got
      BY <2>3 DEF got
    <3> QED BY <1>1, <3>1 DEF PipeInv, QueueInv
  <2> QED BY <2>3, <2>4, <2>5 DEF PipeInv, Channel!Next
<1>3. CASE data_ = <<>> /\ closed_
  <2>1. eof' = TRUE /\ UNCHANGED <<data_, delivered, reading>>
    BY <1>3 DEF Read
  <2>2. PipeTypeOK'
    BY <1>1, <2>1 DEF PipeInv, PipeTypeOK
  <2>3. QueueInv' /\ got' = got
    BY <1>1, <2>1, StreamUnchanged
  <2>4. ReaderInv'
    BY <1>1, <1>3, <2>1, <2>3 DEF PipeInv, ReaderInv
  <2>5. finished /\ Len(delivered) = next
    BY <1>3, LenProperties DEF PipeInv, PipeTypeOK, ReaderInv, got
  <2>6. Channel!End
    BY <1>1, <2>1, <2>5 DEF Channel!End
  <2> QED BY <2>2, <2>3, <2>4, <2>6 DEF PipeInv, Channel!Next
<1>4. CASE data_ = <<>> /\ ~closed_
  <2>1. reading' = len /\ UNCHANGED <<data_, delivered, eof>>
    BY <1>4 DEF Read
  <2>2. PipeTypeOK'
    BY <1>1, <2>1 DEF PipeInv, PipeTypeOK
  <2>3. QueueInv' /\ got' = got
    BY <1>1, <2>1, StreamUnchanged
  <2>4. ReaderInv'
    BY <1>1, <1>4, <2>1, <2>3 DEF PipeInv, ReaderInv
  <2>5. UNCHANGED Channel!vars
    BY <1>1, <2>1 DEF Channel!vars
  <2> QED BY <2>2, <2>3, <2>4, <2>5 DEF PipeInv
<1> QED BY <1>2, <1>3, <1>4

LEMMA ReadMessageStep ==
  ASSUME PipeInv, ReadMessage
  PROVE  PipeInv' /\ [Channel!Next]_(Channel!vars)
<1> DEFINE msg == Head(msgs_)
<1>1. /\ reading > 0 /\ msgs_ # <<>> /\ msgs_' = Tail(msgs_)
      /\ UNCHANGED <<todo, next, finished, asleep>>
      /\ \/ /\ msg.type # "kPipe"
            /\ UNCHANGED <<data_, closed_, reading, delivered, eof>>
         \/ /\ msg.type = "kPipe" /\ msg.data = <<>>
            /\ closed_' = TRUE /\ eof' = TRUE /\ reading' = 0
            /\ UNCHANGED <<data_, delivered>>
         \/ /\ msg.type = "kPipe" /\ msg.data # <<>>
            /\ Copy(msg.data, reading) /\ reading' = 0
            /\ UNCHANGED <<closed_, eof>>
  BY DEF ReadMessage
<1>2. /\ Len(msgs_) \in Nat /\ Len(msgs_) > 0 /\ msg = msgs_[1] /\ msgs_[1] \in PipeMessages
  BY <1>1, LenProperties, EmptySeq DEF PipeInv, PipeTypeOK
<1> HIDE DEF msg
<1>3. /\ msg.type \in {"kPipe", "other"} /\ msg.data \in Seq(Nat) /\ msg.at \in Nat
      /\ Len(msg.data) \in Nat
  BY <1>2, LenProperties DEF PipeMessages
<1>4. MessageOK(msg, next, finished) /\ msg.at = got
  BY <1>2 DEF PipeInv, QueueInv
<1>5. data_ = <<>> /\ ~closed_ /\ Len(delivered) \in Nat /\ got = Len(delivered)
  BY <1>1, LenProperties DEF PipeInv, PipeTypeOK, ReaderInv, got
<1>6. CASE msg.type # "kPipe"
  <2>1. UNCHANGED <<data_, closed_, reading, delivered, eof>>
    BY <1>1, <1>6
  <2>2. Len(msg.data) = 0
    BY <1>3, <1>4, <1>6 DEF MessageOK
  <2>3. got' = got /\ got' = got + Len(msgs_[1].data)
    BY <1>2, <1>5, <2>1, <2>2 DEF got
  <2>4. msgs_' \in Seq(PipeMessages) /\ QueueInv'
    BY <1>1, <2>3, ReceiveKeepsQueue
  <2>5. PipeTypeOK'
    BY <1>1, <2>1, <2>4 DEF PipeInv, PipeTypeOK
  <2>6. ReaderInv'
    BY <1>1, <2>1, <2>3 DEF PipeInv, ReaderInv
  <2>7. UNCHANGED Channel!vars
    BY <1>1, <2>1 DEF Channel!vars
  <2> QED BY <2>4, <2>5, <2>6, <2>7 DEF PipeInv
<1>7. CASE msg.type = "kPipe" /\ msg.data = <<>>
  <2>1. /\ closed_' = TRUE /\ eof' = TRUE /\ reading' = 0
        /\ UNCHANGED <<data_, delivered>>
    BY <1>1, <1>7
  <2>2. finished /\ Len(delivered) = next /\ got = next
    BY <1>4, <1>5, <1>7 DEF MessageOK
  <2>3. got' = got /\ got' = got + Len(msgs_[1].data)
    BY <1>2, <1>5, <1>7, <2>1 DEF got
  <2>4. msgs_' \in Seq(PipeMessages) /\ QueueInv'
    BY <1>1, <2>3, ReceiveKeepsQueue
  <2>5. PipeTypeOK'
    BY <1>1, <2>1, <2>4 DEF PipeInv, PipeTypeOK
  <2>6. ReaderInv'
    BY <1>1, <2>1, <2>2, <2>3 DEF PipeInv, ReaderInv
  <2>7. Channel!End
    BY <1>1, <2>1, <2>2 DEF Channel!End
  <2> QED BY <2>4, <2>5, <2>6, <2>7 DEF PipeInv, Channel!Next
<1>8. CASE msg.type = "kPipe" /\ msg.data # <<>>
  <2>1. Copy(msg.data, reading) /\ reading' = 0 /\ UNCHANGED <<closed_, eof>>
    BY <1>1, <1>8
  <2>2. /\ reading \in Nat
        /\ \A k \in 1 .. Len(msg.data) : msg.data[k] = Len(delivered) + k
        /\ Len(delivered) + Len(msg.data) <= next
    <3>1. reading \in Nat
      BY DEF PipeInv, PipeTypeOK
    <3>2. /\ \A k \in 1 .. Len(msg.data) : msg.data[k] = msg.at + k
          /\ msg.at + Len(msg.data) <= next
          /\ msg.at = Len(delivered)
      BY <1>4, <1>5 DEF MessageOK
    <3> QED BY <3>1, <3>2
  <2>3. /\ delivered' \in Seq(Nat) /\ data_' \in Seq(Nat)
        /\ got' = Len(delivered) + Len(msg.data)
        /\ ReaderInv'
        /\ Channel!Deliver
    BY <1>1, <1>3, <1>5, <1>8, <2>1, <2>2, CopyKeepsReader
  <2>4. got' = got + Len(msgs_[1].data)
    BY <1>2, <1>5, <2>3
  <2>5. msgs_' \in Seq(PipeMessages) /\ QueueInv'
    BY <1>1, <2>4, ReceiveKeepsQueue
  <2>6. PipeTypeOK'
    BY <1>1, <2>1, <2>3, <2>5 DEF PipeInv, PipeTypeOK
  <2> QED BY <2>3, <2>5, <2>6 DEF PipeInv, Channel!Next
<1> QED BY <1>6, <1>7, <1>8

-----------------------------------------------------------------------------
(* The theorems. *)

LEMMA PipeNextStep ==
  ASSUME PipeInv, [PipeNext]_pipeVars
  PROVE  PipeInv' /\ [Channel!Next]_(Channel!vars)
<1>1. CASE Writes
  <2>1. ASSUME NEW len \in WriteSizes, Write(len)
        PROVE  PipeInv' /\ UNCHANGED Channel!vars
    BY <2>1, WriteStep
  <2> QED BY <1>1, <2>1, WriteChunkStep, FinishWriteStep DEF Writes, Channel!Next
<1>2. CASE Reads
  BY <1>2, ReadStep, ReadSleepStep, ReadMessageStep DEF Reads
<1>3. CASE OtherMessage
  BY <1>3, OtherMessageStep
<1>4. CASE UNCHANGED pipeVars
  <2>1. PipeTypeOK'
    BY <1>4 DEF pipeVars, PipeInv, PipeTypeOK
  <2>2. QueueInv' /\ got' = got
    BY <1>4, StreamUnchanged DEF pipeVars
  <2>3. ReaderInv'
    BY <1>4, <2>2 DEF pipeVars, PipeInv, ReaderInv
  <2>4. UNCHANGED Channel!vars
    BY <1>4 DEF pipeVars, Channel!vars
  <2> QED BY <2>1, <2>2, <2>3, <2>4 DEF PipeInv
<1> QED BY <1>1, <1>2, <1>3, <1>4 DEF PipeNext

\* Type correctness of the two descriptors and the queue between them.
THEOREM PipeTypeCorrect == PipeSpec => []PipeTypeOK
<1>1. PipeInv => PipeTypeOK
  BY DEF PipeInv
<1>2. PipeInv /\ [PipeNext]_pipeVars => PipeInv'
  BY PipeNextStep
<1> QED BY <1>1, <1>2, PipeInitInv, PTL DEF PipeSpec

\* A pipe between two commands implements ByteChannel: every byte written is
\* read once and in order, and the end of input comes after the last one,
\* for all lengths of reads, writes and messages and whatever else arrives in
\* the reader's queue.
THEOREM PipeImplementsChannel == PipeSpec => PipeIsChannel
<1>1. PipeInit => Channel!Init
  BY DEF PipeInit, Channel!Init
<1>2. PipeInv /\ [PipeNext]_pipeVars => PipeInv' /\ [Channel!Next]_(Channel!vars)
  BY PipeNextStep
<1> QED BY <1>1, <1>2, PipeInitInv, PTL DEF PipeSpec, PipeIsChannel, Channel!Spec
=============================================================================
