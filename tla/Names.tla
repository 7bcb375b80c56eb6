------------------------------- MODULE Names -------------------------------
(***************************************************************************)
(* Names: the 8.3 names of directory entries, the lookup of a path and the *)
(* creation of a file by its path (fat.cpp), the search for a command and  *)
(* its argument vector (terminal.cpp).                                     *)
(*                                                                         *)
(* A string is a sequence of characters.  A directory is the sequence of   *)
(* its entries up to the first 0x00; where an entry is stored is the       *)
(* subject of Fat.  made, the paths that exist, is bookkeeping, and so is  *)
(* loose, the entries made by paths that are not WellFormed.               *)
(***************************************************************************)
EXTENDS Integers, Sequences, FiniteSets, SequencesExt

CONSTANTS
  BaseLen, ExtLen,       \* 8 and 3 in the source
  Volumes,               \* volumes at the start: directory -> entries
  Paths,                 \* paths that are opened, created and executed
  Commands,              \* names typed as a command
  ArgLists,              \* words typed behind a command
  argv_len, argbuf_len,
  MaxFiles               \* bound: entries of a volume

VARIABLES volume, made, loose

Root == 1
NotFound == <<0, 0>>
Length83 == BaseLen + ExtLen
Blank83 == [i \in 1 .. Length83 |-> " "]
LargestOf(S) == CHOOSE x \in S : \A y \in S : x >= y
SmallestOf(S) == CHOOSE x \in S : \A y \in S : x <= y
Positions(c, s) == {i \in DOMAIN s : s[i] = c}

toupper(c) == CASE c = "a" -> "A" [] c = "b" -> "B" [] c = "p" -> "P" [] OTHER -> c

-----------------------------------------------------------------------------
(* Names in entries.                                                        *)

\* The base up to the last dot, the extension behind it.
SetFileName(name) ==
  LET dot == LargestOf(IF Positions(".", name) = {} THEN {Len(name) + 1} ELSE Positions(".", name))
  IN  [i \in 1 .. Length83 |->
         IF i <= BaseLen
         THEN IF i < dot THEN toupper(name[i]) ELSE " "
         ELSE IF dot + i - BaseLen <= Len(name) THEN toupper(name[dot + i - BaseLen]) ELSE " "]

\* Mutant of NameIsEqual: the extension is one character too far right.
NameIsEqualShifted(entry, name) ==
  LET put(s, c) ==
        IF s.at = Length83 THEN s
        ELSE IF c = "." THEN [s EXCEPT !.at = BaseLen + 1]
        ELSE [at |-> s.at + 1, name83 |-> [s.name83 EXCEPT ![s.at + 1] = toupper(c)]]
  IN  FoldLeft(put, [at |-> 0, name83 |-> Blank83], name).name83 = entry.name

\* Every dot leads to the extension; the comparison ends with it.
NameIsEqual(entry, name) ==
  LET put(s, c) ==
        IF s.at = Length83 THEN s
        ELSE IF c = "." THEN [s EXCEPT !.at = BaseLen]
        ELSE [at |-> s.at + 1, name83 |-> [s.name83 EXCEPT ![s.at + 1] = toupper(c)]]
  IN  FoldLeft(put, [at |-> 0, name83 |-> Blank83], name).name83 = entry.name

WithoutPadding(s) == SubSeq(s, 1, LargestOf({0} \cup {i \in DOMAIN s : s[i] # " "}))
ReadName(entry) ==
  [base |-> WithoutPadding(SubSeq(entry.name, 1, BaseLen)),
   ext  |-> WithoutPadding(SubSeq(entry.name, BaseLen + 1, Length83))]

FormatName(entry) ==
  LET n == ReadName(entry) IN n.base \o (IF n.ext = <<>> THEN <<>> ELSE <<".">> \o n.ext)

-----------------------------------------------------------------------------
(* Paths.                                                                   *)

NextPathElement(path) ==
  IF Positions("/", path) = {} THEN [elem |-> path, next |-> <<>>, post_slash |-> FALSE]
  ELSE LET slash == SmallestOf(Positions("/", path))
       IN  [elem |-> SubSeq(path, 1, slash - 1), next |-> SubSeq(path, slash + 1, Len(path)),
            post_slash |-> TRUE]

\* The entry, as its directory and its number, and whether a slash follows its
\* name.  A file in the middle of the path ends the search.
RECURSIVE FindFile(_, _)
FindFile(path, directory) ==
  LET absolute == path # <<>> /\ path[1] = "/"
      d == IF absolute \/ directory = 0 THEN Root ELSE directory
      e == NextPathElement(IF absolute THEN Tail(path) ELSE path)
      hits == {i \in DOMAIN volume[d] : NameIsEqual(volume[d][i], e.elem)}
  IN  IF hits = {} THEN [entry |-> NotFound, post_slash |-> e.post_slash]
      ELSE LET i == SmallestOf(hits)
           IN  IF volume[d][i].isdir /\ e.next # <<>> THEN FindFile(e.next, volume[d][i].cluster)
               ELSE [entry |-> <<d, i>>, post_slash |-> e.post_slash]

EntryOf(r) == volume[r.entry[1]][r.entry[2]]

\* CreateFile: the parent's directory, or 0 with an error; and the file's name.
CreateFileIn(path) ==
  IF Positions("/", path) = {} THEN [parent |-> Root, name |-> path]
  ELSE LET slash == LargestOf(Positions("/", path))
           dir == SubSeq(path, 1, slash - 1)
           r == FindFile(dir, 0)
       IN  [parent |-> IF slash = Len(path) THEN 0               \* kIsDirectory, EISDIR
                       ELSE IF dir = <<>> THEN Root
                       ELSE IF r.entry = NotFound THEN 0         \* kNoSuchEntry, ENOENT
                       ELSE EntryOf(r).cluster,
            name |-> SubSeq(path, slash + 1, Len(path))]

\* A command is a file, in the directory searched or else in /apps.
AppsDir == <<"p">>
IsCommand(r) == r.entry # NotFound /\ ~EntryOf(r).isdir /\ ~r.post_slash
FindCommand(command) ==
  LET r == FindFile(command, 0)
      apps == FindFile(AppsDir, 0)
  IN  IF r.entry # NotFound THEN IF IsCommand(r) THEN r.entry ELSE NotFound
      ELSE IF Positions("/", command) # {} \/ apps.entry = NotFound THEN NotFound
      ELSE IF ~EntryOf(apps).isdir THEN NotFound
      ELSE LET s == FindFile(command, EntryOf(apps).cluster)
           IN  IF s.entry # NotFound /\ IsCommand(s) THEN s.entry ELSE NotFound

-----------------------------------------------------------------------------
(* The argument vector: offsets in argbuf, and what is written there.       *)

push_to_argv(v, s) ==
  IF v.full THEN v
  ELSE IF Len(v.argv) >= argv_len \/ Len(v.argbuf) >= argbuf_len THEN [v EXCEPT !.full = TRUE]
  ELSE [v EXCEPT !.argv = Append(@, Len(v.argbuf) + 1), !.argbuf = @ \o s \o <<"nul">>]

\* The words of first_arg end at each space; what a last space leaves is none.
MakeArgVector(command, first_arg) ==
  LET step(v, c) ==
        IF c = " " THEN [push_to_argv(v, v.word) EXCEPT !.word = <<>>]
        ELSE [v EXCEPT !.word = Append(@, c)]
      begin == push_to_argv([argv |-> <<>>, argbuf |-> <<>>, full |-> FALSE, word |-> <<>>], command)
      v == FoldLeft(step, begin, first_arg)
  IN  IF v.word = <<>> THEN v ELSE push_to_argv(v, v.word)

-----------------------------------------------------------------------------
(* OpenFile with O_CREAT, or a redirection, by path.                        *)

NamesInit ==
  /\ \E v \in Volumes : volume = v.dirs /\ made = v.made
  /\ loose = {}

\* The parts of a path, in capitals: what it means.
Parts(path) ==
  LET next(ps, c) == IF c = "/" THEN Append(ps, <<>>)
                     ELSE [ps EXCEPT ![Len(ps)] = Append(@, toupper(c))]
  IN  SelectSeq(FoldLeft(next, << <<>> >>, path), LAMBDA p : p # <<>>)

\* A path without empty elements, whose elements are 8.3 names: at most one dot,
\* and neither the base nor the extension too long.
WellFormed(path) ==
  /\ \A i \in 1 .. Len(path) - 1 : path[i] # "/" \/ path[i + 1] # "/"
  /\ \A n \in 1 .. Len(Parts(path)) :
       LET part == Parts(path)[n]
           dots == Positions(".", part)
           dot == LargestOf(dots \cup {0})
       IN  /\ Cardinality(dots) <= 1
           /\ IF dots = {} THEN Len(part) <= BaseLen ELSE dot <= BaseLen + 1 /\ Len(part) - dot \in 1 .. ExtLen

\* What is made is the name as it is stored.
CreateByPath(path) ==
  LET f == CreateFileIn(path)
      entry == [name |-> SetFileName(f.name), isdir |-> FALSE, cluster |-> 0]
  IN  /\ FindFile(path, 0).entry = NotFound /\ f.parent # 0
      /\ FoldLeft(LAMBDA n, d : n + Len(d), 0, volume) < MaxFiles
      /\ volume' = [volume EXCEPT ![f.parent] = Append(@, entry)]
      /\ made' = made \cup {[parts |-> Append(Front(Parts(path)), FormatName(entry)), isdir |-> FALSE]}
      /\ loose' = IF WellFormed(path) THEN loose ELSE loose \cup {<<f.parent, entry.name>>}

NamesNext == \E path \in Paths : CreateByPath(path)

-----------------------------------------------------------------------------
(* Properties.                                                              *)

Exists(parts, isdir) == [parts |-> parts, isdir |-> isdir] \in made
StringAt(buf, i) == SubSeq(buf, i, SmallestOf({j \in Positions("nul", buf) : j >= i}) - 1)

\* What is created under a well-formed path is what the path finds from then on,
\* and nothing else is found, whatever else has been created: FindFile,
\* SetFileName and NameIsEqual agree on every 8.3 name, a file in the middle of
\* a path is told by post_slash, and a path is refused only where its directory
\* does not exist.  FormatName shows every such name as it was given, and none
\* is twice in a directory.  Other paths are looked up as something else than
\* they are created as (two dots, long names, an empty element, behind which
\* FindFile starts again in the root): a name with two dots is never found, and
\* one that is twice in a directory has been created by such a path.  A command
\* is the file in the root or else the one in /apps, and an application finds
\* each word typed behind its name in argv.
NamesExact ==
  made # {} =>
  /\ \A path \in Paths :
       LET r == FindFile(path, 0)
           parts == Parts(path)
           found == r.entry # NotFound /\ (EntryOf(r).isdir \/ ~r.post_slash)
           parent == Front(parts)
           last == path[Len(path)]
       IN  IF WellFormed(path)
           THEN /\ found <=> Exists(parts, TRUE) \/ (Exists(parts, FALSE) /\ last # "/")
                /\ found => FormatName(EntryOf(r)) = parts[Len(parts)]
                /\ r.entry = NotFound =>
                     (CreateFileIn(path).parent # 0 <=> last # "/" /\ (parent = <<>> \/ Exists(parent, TRUE)))
           ELSE found /\ Cardinality(Positions(".", parts[Len(parts)])) > 1 =>
                  FormatName(EntryOf(r)) # parts[Len(parts)]
  /\ \A d \in DOMAIN volume : \A i, j \in DOMAIN volume[d] :
       volume[d][i].name = volume[d][j].name => i = j \/ <<d, volume[d][i].name>> \in loose
  /\ \A c \in Commands :
       LET e == FindCommand(c)
       IN  IF Exists(Parts(c), FALSE) THEN e # NotFound /\ (Len(Parts(c)) = 1 => e[1] = Root)
           ELSE (e # NotFound) <=> (Exists(Parts(AppsDir \o <<"/">> \o c), FALSE) /\ ~Exists(Parts(c), TRUE))
  /\ \A words \in ArgLists :
       LET first_arg == FoldLeft(LAMBDA s, w : IF s = <<>> THEN w ELSE s \o <<" ">> \o w, <<>>, words)
           v == MakeArgVector(<<"a">>, first_arg)
       IN  /\ v.full <=> Len(words) + 1 > argv_len
           /\ Len(v.argbuf) <= argbuf_len
           /\ ~v.full => [i \in DOMAIN v.argv |-> StringAt(v.argbuf, v.argv[i])] = << <<"a">> >> \o words
=============================================================================
