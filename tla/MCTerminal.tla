----------------------------- MODULE MCTerminal -----------------------------
(* A terminal on which the user types lines that reach every command: pipes *)
(* of two and three commands, redirections, a command in the background.    *)
EXTENDS Terminal

MCLines == {
  <<"app", "|", "cat">>, <<"cat", "|", "cat">>, <<"echo", "|", "cat", "|", "cat">>,
  <<"noterm", " ", "app">>,
  <<"ls", ">", "dir">>, <<"app", ">", "new">>,
  <<"cat", " ", "file">>, <<"ls", " ", "none">>, <<"echo", " ", "$?">>,
  <<"clear">>, <<"memstat">>, <<"bad">> }
MCDirs == {<<"dir">>}
MCApps == {<<"app">>}
MCFileText == <<"wide", "wide", "wide", "wide">>
=============================================================================
