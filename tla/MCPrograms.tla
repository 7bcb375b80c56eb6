----------------------------- MODULE MCPrograms -----------------------------
(***************************************************************************)
(* The console and the drawing calls, one application, or the names of a    *)
(* volume: they share no state, so one of them moves and the rest are idle. *)
(***************************************************************************)
EXTENDS Apps, Names

Off == [prog |-> "none"]
ConsoleOff == [InitializeConsole EXCEPT !.window = TRUE]

NamesOff == volume = << <<>> >> /\ made = {} /\ loose = {}     \* no volume: no path exists

Init ==
  \/ ScreenInit /\ app = Off /\ NamesOff
  \/ AppsInit /\ console = ConsoleOff /\ call = NoCall /\ NamesOff
  \/ NamesInit /\ console = ConsoleOff /\ call = NoCall /\ app = Off

Next ==
  \/ made = {} /\ app.prog = "none" /\ ScreenNext /\ UNCHANGED <<app, volume, made, loose>>
  \/ app.prog # "none" /\ AppsNext /\ UNCHANGED <<console, call, volume, made, loose>>
  \/ made # {} /\ NamesNext /\ UNCHANGED <<console, call, app>>

Spec == Init /\ [][Next]_<<console, call, app, volume, made, loose>>

\* Volumes with and without /apps ("p"), with a directory "b" in the root.
File(name) == [name |-> SetFileName(name), isdir |-> FALSE, cluster |-> 0]
Dir(name, c) == [name |-> SetFileName(name), isdir |-> TRUE, cluster |-> c]
Made(parts, isdir) == [parts |-> parts, isdir |-> isdir]
MCVolumes ==
  {[dirs |-> << <<Dir(<<"p">>, 2), File(<<"a">>), Dir(<<"b">>, 3)>>, <<File(<<"a", "b">>), File(<<"a">>)>>, <<>> >>,
    made |-> {Made(<< <<"P">> >>, TRUE), Made(<< <<"A">> >>, FALSE), Made(<< <<"B">> >>, TRUE),
              Made(<< <<"P">>, <<"A", "B">> >>, FALSE), Made(<< <<"P">>, <<"A">> >>, FALSE)}],
   [dirs |-> << <<File(<<"p">>), Dir(<<"b">>, 2)>>, <<Dir(<<"b", ".", "a">>, 3)>>, <<>> >>,
    made |-> {Made(<< <<"P">> >>, FALSE), Made(<< <<"B">> >>, TRUE), Made(<< <<"B">>, <<"B", ".", "A">> >>, TRUE)}],
   [dirs |-> << <<Dir(<<"p">>, 2), File(<<"b", "a", "b">>), File(<<"a", ".", "a">>)>>, <<>> >>,
    made |-> {Made(<< <<"P">> >>, TRUE), Made(<< <<"B", "A", "B">> >>, FALSE), Made(<< <<"A", ".", "A">> >>, FALSE)}]}

\* The last three lines: two dots (a name that is looked up as a.a, or as a.bb),
\* a base that is too long, an empty element.
MCPaths ==
  {<<"a">>, <<"a", "b">>, <<"a", ".", "a">>, <<"a", ".", "b", "b">>, <<"a", "b", "b", ".", "a", "b">>, <<"/", "b", "b">>, <<"/", "a", ".", "a">>,
   <<"b", "/">>, <<"a", "/">>, <<"b", "/", "a">>, <<"b", "/", "a", "b", ".", "b">>, <<"/", "p", "/", "b">>,
   <<"a", "/", "b">>, <<"b", "/", "b", ".", "a", "/", "a">>, <<"a", "a", "/", "a">>,
   <<"a", ".", "b", ".", "a">>, <<"a", ".", "b", "b", ".", "a">>, <<"b", "/", "a", ".", "b", ".", "a">>,
   <<"a", "b", "a", "b">>, <<"b", "a", "b", ".", "a">>, <<"b", "a", "b", "a">>,
   <<"b", "/", "/", "a">>, <<"/", "/", "a">>}
MCCommands == {<<"a">>, <<"b">>, <<"a", "b">>, <<"p">>, <<"a", ".", "b">>, <<"p", "/", "a">>}
MCArgLists ==
  LET words == {<<"a">>, <<"b", "a">>}
  IN  {<<>>} \cup {<<w>> : w \in words} \cup {<<w, x>> : w \in words, x \in words} \cup
      {<<w, x, <<"b">> >> : w \in words, x \in words}

MCStrings ==
  LET CodePoints == {65, 127, 128, 2047, 2048, 44032, 65535, 65536, 1114111}
  IN  {<<>>} \cup {<<a, b>> : a \in CodePoints, b \in {66, 44032}}

MCTexts ==
  {<<>>, <<"\n">>, <<"a", "b">>, <<"b", "\n", "a", "\n">>, <<"a", "b", "\n", "a", "\n", "\n">>,
   <<"b", "\n", "a", "b", "\n", "a", "\n", "W", "a", "\n">>,
   <<"W", "\n", "b", "a", "\n", "b", "\n", "b", "\n", "\n", "a">>,
   <<"a", "b", "W", "a", "b", "\n", "b", "\n">>,
   <<"a", "\t", "b", "\n", "\t", "\t", "a", "\n", "b", "\t", "\n">>,
   <<"a", "a", "a", "a", "b", "W", "\n", "a", "\n">>}

MCExpressions ==
  LET leaf == {<<1>>, <<2>>, <<5>>}
      one == {<<o, l, r>> : o \in {"+", "-"}, l \in leaf, r \in leaf}
  IN  leaf \cup one \cup {<<"-", l, r>> : l \in one, r \in one} \cup {<<"-", l, r>> : l \in leaf, r \in one}
=============================================================================
