------------------------------ MODULE Console ------------------------------
(***************************************************************************)
(* command_server's thread: it takes one client at a time, cuts what the   *)
(* client sends into lines and obeys them through a tree of tables of      *)
(* commands, and looks at what else it is asked for (to close, to end)     *)
(* only when a second has passed with nothing to read.  A command calls    *)
(* modules through the mailbox of ExtMailbox and the thread waits in it.   *)
(* main waits for the shutdown flag, then for the HTTP server's workers,   *)
(* and stops every module.                                                 *)
(*                                                                         *)
(* Bytes are symbols; names of commands are sequences of symbols.  No      *)
(* client sends a zero byte.  The console is the only thread in the        *)
(* mailbox: what an HTTP worker's call does to it is ExtMailbox_many, here *)
(* such a request is only one that is still served.                        *)
(***************************************************************************)
EXTENDS ExtMailbox, FiniteSets, SequencesExt

CONSTANTS
  console,      \* command_server's thread
  Root,         \* g_root_command_table
  Tables,       \* [table -> [name -> entry]]: entry.does is "table" (entry.next
                \* is the table below), "sync", "async", "close" or "print"
  Scripts,      \* what a client may send in a session
  BuffSize,     \* sizeof (sz_buff)
  StackDepth,   \* STACK_DEPTH
  MaxSessions   \* bound: how many clients connect

CR == "CR"  LF == "LF"  SP == "SP"

(* What a client can send, and so what the thread can read.                 *)
Symbols == {CR, LF} \cup UNION {Range(s) : s \in Scripts}

ASSUME ConsoleAssumption ==
  /\ Callers = {console}
  /\ Scripts \subseteq Seq(Symbols)
  /\ Root \in DOMAIN Tables
  /\ BuffSize \in Nat \ {0}

VARIABLES
  at,          \* where the thread is: "accept", "recv", "parse", "find", "call" or "ended"
  unsent,      \* what the client has still to send
  socket,      \* what has come and is not read
  gone,        \* the client has closed its end
  buf,         \* sz_buff up to its first zero
  carried,     \* is_parse_remain
  got,         \* r_size_total > 0
  save,        \* what strtok_r_impl has still to cut
  fresh,       \* it has cut nothing yet (n = 0)
  words,       \* p_command and argv of the line that was cut
  table,       \* gp_current_command_table
  stack,       \* stack_: the tables above it
  is_connection_close_,
  shutdown,    \* s_shutdown_requested
  pressing,    \* since then clients have left no second without data, or a client
  main,        \* "waiting", "joining" (the HTTP server), "stopping" (in teardown)
               \* or "down"
  serving,     \* HTTP workers have requests to finish
  stopped,     \* the threads of the modules a command may call have ended
  streaming,   \* that of a tune_thread has not: it is in its loop
  sessions,    \* clients so far
  read,        \* what was read of this session
  obeyed,      \* the commands that were run in it: table, name, arguments
  spoiled      \* this session's bytes did not all reach the parser in order

client  == <<unsent, socket, gone, sessions>>
parser  == <<buf, carried, got, save, fresh, words>>
menu    == <<table, stack>>
ending  == <<shutdown, pressing, main, serving, stopped, streaming>>
session == <<read, obeyed, spoiled>>
allVars == <<mailbox, at, client, parser, menu, is_connection_close_, ending, session>>

ConsoleInit ==
  /\ MailboxInit
  /\ at = "accept"
  /\ unsent = <<>> /\ socket = <<>> /\ gone = FALSE /\ sessions = 0
  /\ buf = <<>> /\ carried = FALSE /\ got = FALSE /\ save = <<>> /\ fresh = TRUE
  /\ words = <<>>
  /\ table = Root /\ stack = <<>>
  /\ is_connection_close_ = FALSE
  /\ shutdown = FALSE /\ pressing = FALSE /\ main = "waiting"
  /\ serving = FALSE /\ stopped = FALSE /\ streaming = FALSE
  /\ read = <<>> /\ obeyed = <<>> /\ spoiled = FALSE

-----------------------------------------------------------------------------
(* strstr with "\r\n": where the first delimiter is, 0 if there is none.    *)
Delims(s) == {i \in 1..(Len(s) - 1) : s[i] = CR /\ s[i + 1] = LF}
Delim(s)  == IF Delims(s) = {} THEN 0 ELSE CHOOSE i \in Delims(s) : \A j \in Delims(s) : i <= j

(* The n-th element of a set of positions.                                  *)
Nth(S, n) == CHOOSE i \in S : Cardinality({j \in S : j <= i}) = n

(* delete_head_sp and delete_tail_sp.                                       *)
Letters(s) == {i \in DOMAIN s : s[i] # SP}

WithoutHeadSp(s) ==
  IF Letters(s) = {} THEN <<>>
  ELSE SubSeq(s, CHOOSE i \in Letters(s) : \A j \in Letters(s) : i <= j, Len(s))

WithoutTailSp(s) ==
  IF Letters(s) = {} THEN <<>>
  ELSE SubSeq(s, 1, CHOOSE i \in Letters(s) : \A j \in Letters(s) : j <= i)

(* parse_command: the words of a line, what is between spaces.              *)
Words(line) ==
  LET first == {i \in Letters(line) : i > 1 => line[i - 1] = SP}
      word(i) == {j \in i..Len(line) : \A k \in i..j : line[k] # SP}
  IN  [n \in 1..Cardinality(first) |->
         LET i == Nth(first, n) IN SubSeq(line, i, i + Cardinality(word(i)) - 1)]

(* stack's push and pop.                                                    *)
Pushed(st, t) == IF Len(st) = StackDepth THEN st ELSE Append(st, t)
Popped(m)     == [table |-> Last(m.stack), stack |-> Front(m.stack)]

(* find_command, on the position in the tables: "..", ".", a table below,   *)
(* which takes no arguments, or a command.  A table pushed on a full stack  *)
(* is not pushed, but entered.                                              *)
Entry(t, w) == Tables[t][w[1]]

Runs(t, w) ==
  /\ w # <<>>
  /\ w[1] \notin {<<".", ".">>, <<".">>}
  /\ w[1] \in DOMAIN Tables[t]
  /\ Entry(t, w).does # "table"

Moved(m, w) ==
  IF Len(w) # 1 THEN m
  ELSE IF w[1] = <<".", ".">>
       THEN IF m.stack = <<>> THEN m ELSE Popped(m)
  ELSE IF w[1] \in DOMAIN Tables[m.table] /\ Entry(m.table, w).does = "table"
       THEN [table |-> Entry(m.table, w).next, stack |-> Pushed(m.stack, m.table)]
  ELSE m

-----------------------------------------------------------------------------
(* A client connects, sends, as much as it likes before it is read, and     *)
(* leaves.  on_command_wait_begin puts the session at the root.  What comes *)
(* while the thread is not at recv might as well come when it is there.     *)
Connect ==
  /\ at = "accept" /\ sessions < MaxSessions
  /\ \E s \in Scripts : unsent' = s
  /\ sessions' = sessions + 1
  /\ at' = "recv"
  /\ table' = Root
  /\ UNCHANGED <<mailbox, socket, gone, parser, stack, is_connection_close_, ending, session>>

Send ==
  /\ at = "recv" /\ ~gone /\ unsent # <<>>
  /\ socket' = Append(socket, Head(unsent))
  /\ unsent' = Tail(unsent)
  /\ UNCHANGED <<mailbox, at, gone, sessions, parser, menu, is_connection_close_, ending, session>>

Leave ==
  /\ at = "recv" /\ ~gone
  /\ gone' = TRUE
  /\ UNCHANGED <<mailbox, at, unsent, socket, sessions, parser, menu,
                 is_connection_close_, ending, session>>

(* A client that does not stop sending: an empty line each time, of which    *)
(* read keeps no record; or, if it has begun one, the end of its line.      *)
Lingers == at = "recv" /\ pressing /\ ~gone /\ socket = <<>> /\ unsent = <<>>

Chatter ==
  /\ Lingers /\ ~carried
  /\ got' = TRUE
  /\ UNCHANGED <<mailbox, at, client, buf, carried, save, fresh, words, menu, is_connection_close_,
                 ending, session>>

Finishes ==
  /\ Lingers /\ carried
  /\ unsent' = <<CR, LF>>
  /\ UNCHANGED <<mailbox, at, socket, gone, sessions, parser, menu, is_connection_close_, ending,
                 session>>

(* Clients that do not stop coming: one that leaves at once.                *)
Calls ==
  /\ at = "accept" /\ pressing
  /\ table' = Root
  /\ UNCHANGED <<mailbox, at, client, parser, stack, is_connection_close_, ending, session>>

Relents ==
  /\ pressing /\ pressing' = FALSE
  /\ UNCHANGED <<mailbox, at, client, parser, menu, is_connection_close_, shutdown, main, serving,
                 stopped, streaming, session>>

-----------------------------------------------------------------------------
(* on_command_wait_end and close: nothing of the session is left but the    *)
(* current table, and is_connection_close_.                                 *)
EndSession ==
  /\ at' = "accept"
  /\ unsent' = <<>> /\ socket' = <<>> /\ gone' = FALSE
  /\ buf' = <<>> /\ carried' = FALSE /\ got' = FALSE
  /\ stack' = <<>>
  /\ read' = <<>> /\ obeyed' = <<>> /\ spoiled' = FALSE
  /\ UNCHANGED <<sessions, save, fresh, words, table>>

(* recv_parse_delimiter with something to read.  recv_data reads until      *)
(* nothing is left; when the room is used up before that, or there is none, *)
(* the connection is closed.  What just fits leaves no zero at the end: the *)
(* string runs on into what lies beyond the buffer.                         *)
Offset == IF carried THEN Len(buf) ELSE 0
RoomLeft == BuffSize - Offset

RecvFails ==
  /\ at = "recv" /\ socket # <<>>
  /\ Len(socket) > RoomLeft \/ (Len(socket) = RoomLeft /\ gone)
  /\ EndSession
  /\ UNCHANGED <<mailbox, is_connection_close_, ending>>

Beyond == {<<>>, <<"garbage">>}

Recv ==
  /\ at = "recv" /\ socket # <<>>
  /\ Len(socket) < RoomLeft \/ (Len(socket) = RoomLeft /\ ~gone)
  /\ \E g \in IF Len(socket) = RoomLeft THEN Beyond ELSE {<<>>} :
       buf' = SubSeq(buf, 1, Offset) \o socket \o g
  /\ save' = buf'
  /\ fresh' = TRUE /\ got' = TRUE
  /\ at' = "parse"
  /\ read' = read \o socket
  /\ spoiled' = (spoiled \/ Len(socket) = RoomLeft)
  /\ socket' = <<>>
  /\ UNCHANGED <<mailbox, unsent, gone, sessions, carried, words, menu, is_connection_close_,
                 ending, obeyed>>

RecvEnd ==
  /\ at = "recv" /\ socket = <<>> /\ gone
  /\ EndSession
  /\ UNCHANGED <<mailbox, is_connection_close_, ending>>

(* Mutant: how much has been read is not forgotten with the buffer.         *)
IdleForEver ==
  /\ at = "recv" /\ socket = <<>> /\ ~gone /\ ~pressing
  /\ is_connection_close_ \/ shutdown
  /\ IF is_connection_close_ \/ ~got
     THEN EndSession
     ELSE /\ buf' = <<>> /\ carried' = FALSE
          /\ spoiled' = TRUE
          /\ UNCHANGED <<at, client, menu, got, save, fresh, words, read, obeyed>>
  /\ is_connection_close_' = FALSE
  /\ UNCHANGED <<mailbox, ending>>

(* A second with nothing to read.  At the end of the process the call       *)
(* returns how much it has read: if that is anything, server_loop makes the *)
(* call again, with an empty buffer.                                        *)
Idle ==
  /\ at = "recv" /\ socket = <<>> /\ ~gone /\ ~pressing
  /\ is_connection_close_ \/ shutdown
  /\ IF is_connection_close_ \/ ~got
     THEN EndSession
     ELSE /\ buf' = <<>> /\ carried' = FALSE /\ got' = FALSE
          /\ spoiled' = TRUE
          /\ UNCHANGED <<at, client, menu, save, fresh, words, read, obeyed>>
  /\ is_connection_close_' = FALSE
  /\ UNCHANGED <<mailbox, ending>>

(* server_loop, a second without a client.                                  *)
IdleAccept ==
  /\ at = "accept" /\ shutdown /\ ~pressing
  /\ at' = "ended"
  /\ UNCHANGED <<mailbox, client, parser, menu, is_connection_close_, ending, session>>

-----------------------------------------------------------------------------
(* parse_delimiter, one token of strtok_r_impl at a time.  The first call   *)
(* finds no delimiter: all is carried over.  A later one finds nothing: the *)
(* end.                                                                     *)
Carries(rest) ==
  /\ buf' = rest /\ carried' = (rest # <<>>)
  /\ save' = <<>> /\ fresh' = TRUE /\ words' = <<>>
  /\ at' = "recv"
  /\ UNCHANGED <<mailbox, client, got, menu, is_connection_close_, ending, session>>

NoToken ==
  /\ at = "parse"
  /\ IF fresh THEN Delim(save) = 0 ELSE save = <<>>
  /\ Carries(IF fresh THEN buf ELSE <<>>)

(* Mutant: what is after the last delimiter is dropped.                     *)
CarryOverLost ==
  /\ at = "parse" /\ ~fresh /\ save # <<>> /\ Delim(save) = 0
  /\ Carries(<<>>)

(* The last token, and no delimiter after it: moved to the front of the     *)
(* buffer (strncpy) and carried over.                                       *)
CarryOver ==
  /\ at = "parse" /\ ~fresh /\ save # <<>> /\ Delim(save) = 0
  /\ Carries(SubSeq(save, 1, IF Len(save) < BuffSize THEN Len(save) ELSE BuffSize))

(* A token with a delimiter: its line, then parse_command makes words of it. *)
Cut ==
  /\ at = "parse"
  /\ \E d \in {Delim(save)} :
       /\ d # 0
       /\ \E line \in {WithoutHeadSp(SubSeq(save, 1, d - 1))} : words' = Words(WithoutTailSp(line))
       /\ save' = SubSeq(save, d + 2, Len(save))
  /\ fresh' = FALSE
  /\ at' = "find"
  /\ UNCHANGED <<mailbox, client, buf, carried, got, menu, is_connection_close_, ending, session>>

(* find_command: an empty line, a move in the tables, or something it       *)
(* refuses.                                                                 *)
Move ==
  /\ at = "find"
  /\ ~Runs(table, words)
  /\ \E m \in {Moved([table |-> table, stack |-> stack], words)} :
       table' = m.table /\ stack' = m.stack
  /\ at' = "parse"
  /\ UNCHANGED <<mailbox, client, parser, is_connection_close_, ending, session>>

Command(t, w) == <<t, w>>

(* _close of command_tables.cpp.                                            *)
AskClose == is_connection_close_' = TRUE

(* A command is run: it prints, asks for the close, posts a request, or     *)
(* waits for the reply to one.                                              *)
Run ==
  /\ at = "find"
  /\ Runs(table, words)
  /\ obeyed' = Append(obeyed, Command(table, words))
  /\ \/ /\ Entry(table, words).does = "sync"
        /\ RequestSync(console)
        /\ at' = "call"
        /\ UNCHANGED is_connection_close_
     \/ /\ Entry(table, words).does = "async"
        /\ ExtRequestAsync
        /\ at' = "parse"
        /\ UNCHANGED is_connection_close_
     \/ /\ Entry(table, words).does = "close"
        /\ AskClose
        /\ at' = "parse"
        /\ UNCHANGED mailbox
     \/ /\ Entry(table, words).does = "print"
        /\ at' = "parse"
        /\ UNCHANGED <<mailbox, is_connection_close_>>
  /\ UNCHANGED <<client, parser, menu, ending, read, spoiled>>

(* The reply is there: the command ends.                                    *)
CallReturned ==
  /\ at = "call"
  /\ Returns(console)
  /\ at' = "parse"
  /\ UNCHANGED <<client, parser, menu, is_connection_close_, ending, session>>

(* The other steps of the mailbox.  A module whose thread has ended answers *)
(* nothing.                                                                 *)
Besides == UNCHANGED <<at, client, parser, menu, is_connection_close_, ending, session>>

Deliver ==
  /\ ~stopped
  /\ \E r \in ReqId : ExtDeliver(r)
  /\ Besides

Spurious == SpuriousWakeup(console) /\ Besides
Again    == WaitAgain(console) /\ Besides

-----------------------------------------------------------------------------
(* SIGINT, SIGTERM: on_shutdown_signal.                                     *)
OfShutdown == UNCHANGED <<mailbox, at, client, parser, menu, is_connection_close_, session>>

Signal ==
  /\ ~shutdown /\ main = "waiting"
  /\ shutdown' = TRUE
  /\ pressing' \in BOOLEAN
  /\ OfShutdown /\ UNCHANGED <<main, serving, stopped, streaming>>

(* main's loop of 200 ms sees the flag and takes down the HTTP server,      *)
(* whose workers may have requests that they finish.                        *)
HttpDown ==
  /\ main = "waiting" /\ shutdown
  /\ main' = "joining"
  /\ serving' \in BOOLEAN
  /\ OfShutdown /\ UNCHANGED <<shutdown, pressing, stopped, streaming>>

Served ==
  /\ serving /\ serving' = FALSE
  /\ OfShutdown /\ UNCHANGED <<shutdown, pressing, main, stopped, streaming>>

(* Its thread is joined, then comes teardown.                               *)
MainStops ==
  /\ main = "joining" /\ ~serving
  /\ main' = "stopping"
  /\ OfShutdown /\ UNCHANGED <<shutdown, pressing, serving, stopped, streaming>>

(* stop_modules: the modules' threads end, at whatever point of the         *)
(* console's work, with what is in their inboxes unanswered; but for a      *)
(* tune_thread in its loop, which does not look at the flag.                *)
ModulesStop ==
  /\ main = "stopping" /\ ~stopped
  /\ stopped' = TRUE
  /\ streaming' \in BOOLEAN
  /\ OfShutdown /\ UNCHANGED <<shutdown, pressing, main, serving>>

(* The tuner's process has ended by itself, or there was a request to stop. *)
StreamEnds ==
  /\ streaming /\ streaming' = FALSE
  /\ OfShutdown /\ UNCHANGED <<shutdown, pressing, main, serving, stopped>>

(* All threads are joined, that of command_server and of tune_thread too.   *)
MainEnds ==
  /\ main = "stopping" /\ stopped /\ ~streaming /\ at = "ended"
  /\ main' = "down"
  /\ OfShutdown /\ UNCHANGED <<shutdown, pressing, serving, stopped, streaming>>

-----------------------------------------------------------------------------
Server == RecvFails \/ Recv \/ RecvEnd \/ NoToken \/ CarryOver \/ Cut \/ Move \/ Run
            \/ CallReturned \/ Idle \/ IdleAccept

ConsoleNext ==
  \/ Connect \/ Send \/ Leave \/ Chatter \/ Finishes \/ Calls \/ Relents
  \/ RecvFails \/ Recv \/ RecvEnd \/ NoToken \/ CarryOver \/ Cut \/ Move \/ Run \/ CallReturned
  \/ Idle \/ IdleAccept
  \/ Deliver \/ Spurious \/ Again
  \/ Signal \/ HttpDown \/ Served \/ MainStops \/ ModulesStop \/ StreamEnds \/ MainEnds

ConsoleSpec == ConsoleInit /\ [][ConsoleNext]_allVars

(* Threads run: the server's, main's, the modules' until they are stopped,  *)
(* and so the HTTP workers' until they are joined; a second with nothing to *)
(* read passes if clients leave one.  Clients, signals and streams owe      *)
(* nothing.                                                                 *)
ConsoleFairSpec ==
  /\ ConsoleSpec
  /\ WF_allVars(Server) /\ WF_allVars(Deliver) /\ WF_allVars(Again)
  /\ WF_allVars(HttpDown) /\ WF_allVars(Served)
  /\ WF_allVars(MainStops) /\ WF_allVars(ModulesStop) /\ WF_allVars(MainEnds)

-----------------------------------------------------------------------------
(* What a whole text asks for: its lines, from the root.                    *)
LineOf(s, k) ==
  SubSeq(s, IF k = 1 THEN 1 ELSE Nth(Delims(s), k - 1) + 2, Nth(Delims(s), k) - 1)

Obey(m, w) ==
  IF Runs(m.table, w)
  THEN [m EXCEPT !.obeyed = Append(@, Command(m.table, w))]
  ELSE LET n == Moved([table |-> m.table, stack |-> m.stack], w)
       IN  [m EXCEPT !.table = n.table, !.stack = n.stack]

Start == [table |-> Root, stack |-> <<>>, obeyed |-> <<>>]

Obeyed(s) ==
  LET after[k \in 0..Cardinality(Delims(s))] ==
        IF k = 0 THEN Start ELSE Obey(after[k - 1], Words(LineOf(s, k)))
  IN  after

Asked(s) == Obeyed(s)[Cardinality(Delims(s))]

AfterLast(s) ==
  IF Delims(s) = {} THEN s
  ELSE SubSeq(s, 2 + CHOOSE i \in Delims(s) : \A j \in Delims(s) : j <= i, Len(s))

(* However a client's bytes are cut on their way, what a session has run,   *)
(* where it stands in the tables and what it keeps for the next read are    *)
(* those of the whole text so far, read at once: recv_parse_delimiter and   *)
(* parse_delimiter carry over neither too much nor too little.  Given up    *)
(* only by a read that fills the buffer, or when the process is ending.     *)
LinesAreObeyed ==
  (at = "recv" /\ ~spoiled) =>
    \E whole \in {Asked(read)} :
        /\ obeyed = whole.obeyed
        /\ table = whole.table /\ stack = whole.stack
        /\ (IF carried THEN buf ELSE <<>>) = AfterLast(read)

(* The console's call waits for a module that has stopped.                  *)
Stranded == stopped /\ at = "call" /\ rid[console] \in unanswered

(* What a shutdown needs of others: the server loop and the session look at *)
(* the flag only after a second with nothing to read, and a tune_thread     *)
(* that streams does not look at it at all.                                 *)
LeftAlone == ~pressing /\ ~(stopped /\ streaming)

(* Every call of the console returns, and a shutdown ends with the console  *)
(* and main gone, if clients and streams give way in the end, unless        *)
(* teardown has stopped the module the console waits for: _request_sync has *)
(* no timeout, and stop_modules joins its thread.                           *)
ConsoleComesBack ==
  /\ at = "call" ~> (at # "call" \/ Stranded)
  /\ <>[]LeftAlone => (shutdown ~> (main = "down" \/ Stranded))
=============================================================================
