------------------------------ MODULE MCConsole ------------------------------
(* Two groups of commands as in command_tables.cpp, and sessions that go    *)
(* down, up and down again, run each kind of command and ask for the close, *)
(* with arguments, empty lines and words nobody knows.                      *)
EXTENDS Console

MCTables ==
  [root   |-> (<<"s">> :> [does |-> "table", next |-> "system"] @@
               <<"r">> :> [does |-> "table", next |-> "rec"]),
   system |-> (<<"c">> :> [does |-> "close"] @@ <<"e">> :> [does |-> "print"]),
   rec    |-> (<<"r">> :> [does |-> "sync"]  @@ <<"e">> :> [does |-> "async"])]

MCScripts ==
  {<<"r", CR, LF, CR, LF, "r", SP, SP, "s", CR, LF, "e">>,
   <<"s", CR, LF, "c", CR, LF, "e", CR, LF, ".", ".", CR, LF>>,
   <<"r", SP, "e", CR, LF, "r", CR, LF, "e", CR, LF>>}
=============================================================================
