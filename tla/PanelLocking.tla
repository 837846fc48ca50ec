---------------------------- MODULE PanelLocking ----------------------------
(***************************************************************************)
(* The two threads of scim-panel-gtk and their locks: the GDK lock, which  *)
(* the socket thread holds for a transaction (slot_transaction_start) and  *)
(* the GUI thread for a callback of gtk_main (), and _panel_agent_lock     *)
(* (slot_lock), which guards the agent's tables and m_send_trans.  Neither *)
(* is recursive.                                                           *)
(*                                                                         *)
(* A handler is the sequence of what it does to locks and shared data; a   *)
(* step of a thread is the first operation of what it has to do.  What is  *)
(* in the tables and in the messages is PanelAgent's matter.               *)
(***************************************************************************)
EXTENDS Sequences

CONSTANTS
  Kinds,      \* the kinds of client that connect, one client of each
  Resident,   \* m_should_resident
  Signals     \* SIGTERM (or another handled signal) may come, once

ASSUME PanelLockingAssumption ==
  /\ Kinds \subseteq {"FrontEnd", "Helper", "PanelController"}
  /\ Resident \in BOOLEAN /\ Signals \in BOOLEAN

VARIABLES
  todo,       \* per thread, the operations left of what it is doing
  gdk,        \* holder of the GDK lock
  agent,      \* holder of _panel_agent_lock
  filling,    \* threads between m_send_trans.clear () and write_to_socket ()
  clients,    \* kinds of client in m_client_repository
  peer,       \* the client the socket thread is serving
  awaited,    \* the controller's awaitedTransCommand is set
  shouldExit, \* m_should_exit
  wake,       \* stop () has connected and is not accepted yet
  server,     \* the socket thread: in run (), returned from it, or at its end
  main,       \* gtk_main (): not called yet, running, asked to quit, returned
  signalled,  \* the signal has come
  accidents   \* what has happened that the code does not survive

vars == <<todo, gdk, agent, filling, clients, peer, awaited, shouldExit, wake,
          server, main, signalled, accidents>>

Threads == {"gui", "sock"}
Nobody  == "nobody"

-----------------------------------------------------------------------------
(* The handlers.                                                           *)

Tables  == <<"lock", "unlock">>                     \* only tables, in the lock
Message == <<"lock", "clear", "write", "unlock">>   \* one message, in the lock

\* (Mutant: stop () does not wake the server.)
StopUnconnected == <<"lock", "exit", "unlock">>

\* stop (), also the signal handler, and exit ().
stop == <<"lock", "exit", "unlock", "connect">>
exit == Message \o stop

\* Callbacks of widgets and timers, which gtk_main () runs with the GDK lock:
\* a request to the agent, start_helper, exit, or drawing only.
Callbacks == {Message, Tables, exit, <<"draw">>}

\* main () after run_panel_agent: start_auto_start_helpers, then gtk_main ().
main_function == Tables \o <<"enter", "main", "leave">>

socket_accept_callback == <<"lock", "check", "unlock">>
socket_open_connection == <<"lock", "add", "unlock">>

\* (Mutant: the panel is told before the agent's lock is released.)
CloseInLock(kind, current, last) ==
  <<"lock", "erase", "enter", "draw", "leave", "unlock">>

\* A closed front end may be the current focus, the last one, both or neither;
\* the panel is told of a lost focus and of a lost helper.
socket_close_connection(kind, current, last) ==
  <<"lock", "erase", "unlock">> \o
  CASE kind = "FrontEnd" -> (IF current THEN Tables \o <<"enter", "draw", "leave">> ELSE <<>>)
                            \o (IF last THEN Tables ELSE <<>>)
    [] kind = "Helper"   -> Tables \o <<"enter", "draw", "leave">>
    [] OTHER             -> <<>>

\* (Mutant: the transaction_start signal is not connected.)
ReceiveUnguarded == <<"commands">>

socket_receive_callback == <<"enter", "commands", "leave">>

\* Commands of a front end: registration of a context; focus_in; focus_out; a
\* signal to the panel, for which a slot may call update_lookup_table_page_size;
\* a message to one or all helpers; and an answer to a waiting controller, which
\* is built without the agent's lock.
FrontEndCommands ==
  {<<>>, Tables, Tables \o <<"draw">>, <<"draw">>, <<"draw">> \o Message, Message} \cup
  (IF awaited THEN {<<"draw", "clear", "write", "answer">>, <<"clear", "write", "answer">>}
              ELSE {})

\* Commands of a helper: a message to a front end, a registration or a reload
\* (message, then signal), properties.
HelperCommands == {Message, Message \o <<"draw">>, <<"draw">>}

\* Commands of a controller: a request, passed on to the focused front end if
\* there is one, or a query, answered at once without the agent's lock.
ControllerRequests == {<<"await">> \o Message, <<"await">> \o Tables}
ControllerCommands == ControllerRequests \cup {<<"clear", "write">>}

Commands(kind) ==
  CASE kind = "FrontEnd" -> FrontEndCommands
    [] kind = "Helper"   -> HelperCommands
    [] OTHER             -> ControllerCommands

-----------------------------------------------------------------------------
(* The operations.                                                         *)

\* Thread t carries out the operation at the head of what it has to do.
Do(t, op) ==
  /\ todo[t] # <<>> /\ Head(todo[t]) = op
  /\ todo' = [todo EXCEPT ![t] = Tail(@)]

locks  == <<gdk, agent>>
agents == <<clients, peer, awaited, shouldExit, wake, server>>
panel  == <<main, signalled, accidents>>

gdk_threads_enter(t) ==
  /\ gdk = Nobody /\ Do(t, "enter") /\ gdk' = t
  /\ UNCHANGED <<agent, filling, agents, panel>>

gdk_threads_leave(t) ==
  /\ Do(t, "leave") /\ gdk' = Nobody
  /\ UNCHANGED <<agent, filling, agents, panel>>

slot_lock(t) ==
  /\ agent = Nobody /\ Do(t, "lock") /\ agent' = t
  /\ UNCHANGED <<gdk, filling, agents, panel>>

slot_unlock(t) ==
  /\ Do(t, "unlock") /\ agent' = Nobody
  /\ UNCHANGED <<gdk, filling, agents, panel>>

\* m_send_trans is cleared and filled, then written.
Fill(t) ==
  /\ Do(t, "clear") /\ filling' = filling \cup {t}
  /\ UNCHANGED <<locks, agents, panel>>
Write(t) ==
  /\ Do(t, "write") /\ filling' = filling \ {t}
  /\ UNCHANGED <<locks, agents, panel>>

Draw(t) == Do(t, "draw") /\ UNCHANGED <<locks, filling, agents, panel>>

\* stop (): m_should_exit, and after the lock a connection to the own server,
\* which fails when that has been shut down.
SetExit(t) ==
  /\ Do(t, "exit") /\ shouldExit' = TRUE
  /\ UNCHANGED <<locks, filling, clients, peer, awaited, wake, server, panel>>
Connect(t) ==
  /\ Do(t, "connect") /\ wake' = (wake \/ server = "run")
  /\ UNCHANGED <<locks, filling, clients, peer, awaited, shouldExit, server, panel>>

Shared(t) ==
  \/ gdk_threads_enter(t) \/ gdk_threads_leave(t) \/ slot_lock(t) \/ slot_unlock(t)
  \/ Fill(t) \/ Write(t) \/ Draw(t) \/ SetExit(t) \/ Connect(t)

-----------------------------------------------------------------------------
(* The socket thread.                                                      *)

Sock(op) == Do("sock", op) /\ UNCHANGED <<locks, filling, panel>>

CheckExit ==
  /\ Sock("check")
  /\ server' = IF shouldExit THEN "returned" ELSE server
  /\ UNCHANGED <<clients, peer, awaited, shouldExit, wake>>

Add ==
  /\ Sock("add") /\ clients' = clients \cup {peer}
  /\ UNCHANGED <<peer, awaited, shouldExit, wake, server>>

\* The server is shut down with the last client of a panel that is not resident.
Erase ==
  /\ Sock("erase") /\ clients' = clients \ {peer}
  /\ awaited' = (awaited /\ peer # "PanelController")
  /\ server' = IF clients = {peer} /\ ~Resident THEN "returned" ELSE server
  /\ UNCHANGED <<peer, shouldExit, wake>>

Await ==
  /\ Sock("await") /\ awaited' = TRUE
  /\ UNCHANGED <<clients, peer, shouldExit, wake, server>>
Answer ==
  /\ Sock("answer") /\ awaited' = FALSE
  /\ UNCHANGED <<clients, peer, shouldExit, wake, server>>

\* The loop over the commands of a transaction.  A controller that awaits an
\* answer has its command ignored by a return, past socket_transaction_end ().
Command ==
  /\ todo["sock"] # <<>> /\ Head(todo["sock"]) = "commands"
  /\ ~(peer = "PanelController" /\ awaited)
  /\ \E ops \in Commands(peer) : todo' = [todo EXCEPT !["sock"] = ops \o @]
  /\ UNCHANGED <<locks, filling, agents, panel>>
IgnoreCommand ==
  /\ todo["sock"] # <<>> /\ Head(todo["sock"]) = "commands"
  /\ peer = "PanelController" /\ awaited
  /\ todo' = [todo EXCEPT !["sock"] = <<>>]
  /\ accidents' = accidents \cup {"abandoned"}
  /\ UNCHANGED <<locks, filling, agents, main, signalled>>
EndCommands == Sock("commands") /\ UNCHANGED agents

\* SocketServer::run (): the next callback.
Ready == server = "run" /\ todo["sock"] = <<>>
Serve(ops) ==
  /\ Ready /\ todo' = [todo EXCEPT !["sock"] = ops]
  /\ UNCHANGED <<locks, filling, clients, awaited, shouldExit, server, panel>>

Accept == Serve(socket_accept_callback) /\ UNCHANGED <<peer, wake>>
AcceptWake ==
  /\ wake /\ Serve(socket_accept_callback)
  /\ wake' = FALSE /\ UNCHANGED peer
Open(k) ==
  /\ k \notin clients /\ Serve(socket_open_connection)
  /\ peer' = k /\ UNCHANGED wake
Receive(k) ==
  /\ k \in clients /\ Serve(socket_receive_callback)
  /\ peer' = k /\ UNCHANGED wake
Close(k) ==
  /\ k \in clients
  /\ \E current, last \in BOOLEAN : Serve(socket_close_connection(k, current, last))
  /\ peer' = k /\ UNCHANGED wake

\* panel_agent_thread_func: run () has returned, gtk_main () is asked to quit,
\* which has no effect before gtk_main () is called.
RunReturned ==
  /\ server = "returned" /\ todo["sock"] = <<>>
  /\ todo' = [todo EXCEPT !["sock"] = <<"enter", "quit", "leave">>]
  /\ server' = "end" /\ wake' = FALSE
  /\ UNCHANGED <<locks, filling, clients, peer, awaited, shouldExit, panel>>
gtk_main_quit ==
  /\ Do("sock", "quit")
  /\ main' = IF main = "running" THEN "quit" ELSE main
  /\ accidents' = IF main = "running" THEN accidents ELSE accidents \cup {"early"}
  /\ UNCHANGED <<locks, filling, agents, signalled>>

SocketThread ==
  \/ CheckExit \/ Add \/ Erase \/ Await \/ Answer
  \/ Command \/ IgnoreCommand \/ EndCommands
  \/ Accept \/ AcceptWake \/ \E k \in Kinds : Open(k) \/ Receive(k) \/ Close(k)
  \/ RunReturned \/ gtk_main_quit

-----------------------------------------------------------------------------
(* The GUI thread, and signals.                                            *)

gtk_main ==
  /\ Do("gui", "main") /\ main' = "running"
  /\ UNCHANGED <<locks, filling, agents, signalled, accidents>>

\* gtk_main () polls without the GDK lock and takes it for a callback.
Callback ==
  /\ main = "running" /\ todo["gui"] = <<>>
  /\ \E ops \in Callbacks : todo' = [todo EXCEPT !["gui"] = <<"enter">> \o ops \o <<"leave">>]
  /\ UNCHANGED <<locks, filling, agents, panel>>

\* It returns with the lock; main () releases it and joins the other thread.
MainReturns ==
  /\ main = "quit" /\ todo["gui"] = <<>>
  /\ todo' = [todo EXCEPT !["gui"] = <<"enter", "leave", "join">>]
  /\ main' = "returned"
  /\ UNCHANGED <<locks, filling, agents, signalled, accidents>>

SockGone == server = "end" /\ todo["sock"] = <<>>
g_thread_join ==
  /\ SockGone /\ Do("gui", "join")
  /\ UNCHANGED <<locks, filling, agents, panel>>

GuiThread == gtk_main \/ Callback \/ MainReturns \/ g_thread_join

Exited == SockGone /\ main = "returned" /\ todo["gui"] = <<>>

\* signalhandler runs stop () on top of whatever a thread is doing.  It waits
\* for itself if that holds the agent's lock.
signalhandler(t) ==
  /\ Signals /\ ~signalled /\ ~Exited /\ (t = "sock" => ~SockGone)
  /\ signalled' = TRUE
  /\ todo' = [todo EXCEPT ![t] = stop \o @]
  /\ accidents' = IF agent = t THEN accidents \cup {"interrupted"} ELSE accidents
  /\ UNCHANGED <<locks, filling, agents, main>>

-----------------------------------------------------------------------------
Init ==
  /\ todo = [t \in Threads |-> IF t = "gui" THEN main_function ELSE <<>>]
  /\ gdk = Nobody /\ agent = Nobody /\ filling = {}
  /\ clients = {} /\ peer = "FrontEnd" /\ awaited = FALSE
  /\ shouldExit = FALSE /\ wake = FALSE /\ server = "run"
  /\ main = "before" /\ signalled = FALSE /\ accidents = {}

Next ==
  \/ \E t \in Threads : Shared(t) \/ signalhandler(t)
  \/ SocketThread \/ GuiThread

Spec == Init /\ [][Next]_vars

\* A thread that waits for a lock released again and again gets it; run ()
\* serves every ready descriptor in a round; a transaction has finitely many
\* commands; and the rest of a thread's way out waits for nobody.
FairSpec ==
  /\ Spec
  /\ \A t \in Threads : SF_vars(Shared(t))
  /\ SF_vars(AcceptWake) /\ SF_vars(EndCommands)
  /\ WF_vars(CheckExit \/ Add \/ Erase \/ Await \/ Answer \/ IgnoreCommand)
  /\ WF_vars(RunReturned) /\ WF_vars(gtk_main_quit)
  /\ WF_vars(gtk_main) /\ WF_vars(MainReturns) /\ WF_vars(g_thread_join)

-----------------------------------------------------------------------------
(* Properties.                                                             *)

\* What a thread does next, and whether it has to wait for that.
Doing(t, op) == todo[t] # <<>> /\ Head(todo[t]) = op
Blocked(t) ==
  \/ Doing(t, "enter") /\ gdk # Nobody
  \/ Doing(t, "lock") /\ agent # Nobody
  \/ Doing(t, "join") /\ ~SockGone

\* One thread at a time builds a message in m_send_trans, though the answers to
\* controllers are built without the agent's lock, and every slot that touches
\* widgets runs with the GDK lock.
SharedSafe ==
  /\ filling # Threads
  /\ \A t \in Threads : Doing(t, "draw") => gdk = t

\* The threads never wait for each other: the GDK lock is never asked for with
\* the agent's lock held.  Only an abandoned transaction, a signal in a section
\* and a quit that comes too early break this.
NoDeadlock == accidents = {} => \E t \in Threads : ~Blocked(t)

\* A requested exit ends both threads, whoever asked and whatever they were
\* doing, apart from these accidents.
ExitCompletes == shouldExit ~> (Exited \/ accidents # {})

\* A controller's command that is ignored does not keep the panel from working.
IgnoredHarmless == "abandoned" \in accidents ~> gdk # "sock"

=============================================================================
