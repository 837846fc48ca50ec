---------------------------- MODULE SocketServer ----------------------------
(***************************************************************************)
(* SocketServer (src/scim_socket.cpp): the select () loop under the panel  *)
(* agent, the socket front end and the helper manager.  The bytes on a     *)
(* connection are abstracted to whether it is readable, has an exceptional *)
(* condition or was hung up by its peer.                                   *)
(*                                                                         *)
(* The callbacks are those of the three programs: a receive callback reads *)
(* the data or closes its own client, and closes it whenever the peer is   *)
(* gone; an exception callback closes its own client; any of them may shut *)
(* the server down.                                                        *)
(***************************************************************************)
EXTENDS Integers, FiniteSets

CONSTANTS
  Fds,                            \* descriptors of the process
  External,                       \* those the program opened itself
  Limits,                         \* values given to set_max_clients
  SCIM_SOCKET_SERVER_MAX_CLIENTS, \* 256 in the code
  MaxBacklog,                     \* bound on connections not yet accepted
  Signals                         \* a signal handler calls shutdown ()

ASSUME SocketServerAssumption ==
  /\ External \subseteq Fds /\ IsFiniteSet(Fds)
  /\ SCIM_SOCKET_SERVER_MAX_CLIENTS \in Nat /\ MaxBacklog \in Nat
  /\ Signals \in BOOLEAN

ASSUME SocketFdsAssumption == \A f \in Fds : f \in Nat /\ f > 0

ASSUME LimitsAssumption == \A m \in Limits : m \in Int

VARIABLES
  listener,   \* Socket::m_id of the server; -1 when it is closed
  created, running,
  active,     \* active_fds
  maxFd,      \* max_fd
  num,        \* num_clients
  limit,      \* max_clients
  ext,        \* ext_fds
  pc,         \* where run () is: idle, top of the loop, sets, select, scan
  readFds, excFds, \* read_fds and exception_fds from the scan index on
  nfds,       \* the highest descriptor select () was told to watch
  signal,     \* the signal emitted by the last step
  held,       \* kernel: open descriptors the server made
  extOpen,    \* kernel: open descriptors of the program
  backlog, ready, urgent, gone \* kernel: what select () and read () would see

server == <<listener, created, running, active, maxFd, num, ext>>
loop   == <<pc, readFds, excFds, nfds>>
kernel == <<backlog, ready, urgent, gone>>
vars   == <<server, limit, loop, signal, held, extOpen, kernel>>

Quiet == [kind |-> "none", client |-> -1]
Emit(kind, f) == signal' = [kind |-> kind, client |-> f]

Clients == active \ {listener}

\* SocketServerImpl
Init ==
  /\ listener = -1 /\ created = FALSE /\ running = FALSE
  /\ active = {} /\ maxFd = 0 /\ num = 0 /\ ext = {}
  /\ limit \in {IF m < SCIM_SOCKET_SERVER_MAX_CLIENTS THEN m
                ELSE SCIM_SOCKET_SERVER_MAX_CLIENTS : m \in Limits}
  /\ pc = "idle" /\ readFds = {} /\ excFds = {} /\ nfds = 0
  /\ signal = Quiet
  /\ held = {} /\ extOpen = External
  /\ backlog = 0 /\ ready = {} /\ urgent = {} /\ gone = {}

create(f) ==
  /\ pc = "idle" /\ ~created /\ f \notin held \cup extOpen
  /\ created' = TRUE /\ listener' = f /\ maxFd' = f
  /\ active' = {f} /\ held' = held \cup {f}
  /\ signal' = Quiet
  /\ UNCHANGED <<running, num, ext, limit, loop, extOpen, kernel>>

-----------------------------------------------------------------------------
(* Calls on the server.                                                    *)

\* The kernel forgets what it knew of closed descriptors.
Closed(S) ==
  /\ ready' = ready \ S /\ urgent' = urgent \ S /\ gone' = gone \ S

\* The body of shutdown (): external sockets are dropped, not closed.
ShutDownServer ==
  /\ created' = FALSE /\ running' = FALSE /\ listener' = -1
  /\ active' = {} /\ maxFd' = 0 /\ num' = 0 /\ ext' = {}
  /\ held' = held \ (active \ ext)
  /\ Closed(active \ ext) /\ backlog' = 0
  /\ UNCHANGED <<limit, extOpen>>

\* close_connection, called from a callback: the server runs.
close_connection(f) ==
  /\ IF f \in active
       THEN /\ num' = num - 1 /\ active' = active \ {f} /\ ext' = ext \ {f}
            /\ held' = held \ {f} /\ extOpen' = extOpen \ {f}
            /\ Closed({f})
       ELSE UNCHANGED <<num, active, ext, held, extOpen, ready, urgent, gone>>
  /\ UNCHANGED <<listener, created, running, maxFd, limit, backlog>>

set_max_clients(m) ==
  /\ pc \in {"idle", "scan"} /\ m < SCIM_SOCKET_SERVER_MAX_CLIENTS
  /\ limit' = m /\ signal' = Quiet
  /\ UNCHANGED <<server, loop, held, extOpen, kernel>>

insert_external_socket(f) ==
  /\ pc = "idle" /\ created /\ f \in extOpen /\ num < limit /\ f \notin active
  /\ ext' = ext \cup {f} /\ active' = active \cup {f}
  /\ maxFd' = IF maxFd < f THEN f ELSE maxFd
  /\ num' = num + 1
  /\ signal' = Quiet
  /\ UNCHANGED <<listener, created, running, limit, loop, held, extOpen, kernel>>

remove_external_socket(f) ==
  /\ pc = "idle" /\ created /\ f \in ext
  /\ active' = active \ {f} /\ ext' = ext \ {f} /\ num' = num - 1
  /\ signal' = Quiet
  /\ UNCHANGED <<listener, created, running, maxFd, limit, loop, held, extOpen, kernel>>

-----------------------------------------------------------------------------
(* run ()                                                                  *)

run ==
  /\ pc = "idle" /\ created /\ ~running
  /\ running' = TRUE /\ pc' = "top" /\ signal' = Quiet
  /\ UNCHANGED <<listener, created, active, maxFd, num, ext, limit, readFds, excFds,
                 nfds, held, extOpen, kernel>>

\* The sets to watch are copied from active_fds.
CopySets ==
  /\ pc = "top" /\ pc' = "sets"
  /\ readFds' = active /\ excFds' = active /\ signal' = Quiet
  /\ UNCHANGED <<server, nfds, limit, held, extOpen, kernel>>

\* Only then is max_fd read, and select () entered.
EnterSelect ==
  /\ pc = "sets" /\ pc' = "select"
  /\ nfds' = maxFd /\ signal' = Quiet
  /\ UNCHANGED <<server, readFds, excFds, limit, held, extOpen, kernel>>

Readable == {f \in readFds : f <= nfds /\ (f \in ready \/ (f = listener /\ backlog > 0))}
Urgent   == {f \in excFds : f <= nfds /\ f \in urgent}

\* (Mutant: the scan goes over the watched sets, not over what is ready.)
SelectUnfiltered ==
  /\ pc = "select" /\ running /\ Readable \cup Urgent # {}
  /\ pc' = "scan" /\ nfds' = 0 /\ signal' = Quiet
  /\ UNCHANGED <<server, limit, readFds, excFds, held, extOpen, kernel>>

\* select () returns when something it watches is ready, and blocks till then.
Select ==
  /\ pc = "select" /\ running /\ Readable \cup Urgent # {}
  /\ readFds' = Readable /\ excFds' = Urgent
  /\ pc' = "scan" /\ nfds' = 0 /\ signal' = Quiet
  /\ UNCHANGED <<server, limit, held, extOpen, kernel>>

\* run () returns from where it is: the sets on its stack are gone.
Leave == pc' = "idle" /\ readFds' = {} /\ excFds' = {} /\ nfds' = 0

\* select () fails: interrupted, or watching a descriptor that was closed.
SelectFails ==
  /\ pc = "select"
  /\ running' = FALSE /\ Leave /\ signal' = Quiet
  /\ UNCHANGED <<listener, created, active, maxFd, num, ext, limit, held, extOpen, kernel>>

\* Below the number given to select () is a descriptor that has been closed:
\* then it fails, if the signal did not interrupt it already.
WatchesClosed == \E f \in readFds : f <= nfds /\ f \notin held \cup extOpen

\* The fd whose turn it is: the scan goes up to max_fd.
Turn(f) ==
  /\ pc = "scan" /\ running
  /\ f \in readFds \cup excFds /\ f <= maxFd
  /\ \A g \in readFds \cup excFds : f <= g

\* The scan is ended by a shutdown, but the turns of S go on to their end.
EndAfter(S) ==
  /\ readFds' = readFds \cap S /\ excFds' = excFds \cap S
  /\ UNCHANGED <<pc, nfds>>

\* shutdown () between two runs (the program tears the server down), or in
\* a signal handler while run () is anywhere in its loop, in a turn too.
shutdown ==
  /\ created /\ (pc = "idle" \/ Signals)
  /\ ShutDownServer
  /\ \/ pc # "scan" /\ UNCHANGED loop
     \/ pc = "scan" /\ EndAfter({})
     \/ \E f \in Fds : Turn(f) /\ EndAfter({f})
  /\ signal' = Quiet

ReadTurn(f) == Turn(f) /\ f \in readFds
ExcTurn(f)  == Turn(f) /\ f \notin readFds

ReadDone(f) == readFds' = readFds \ {f} /\ UNCHANGED <<pc, excFds, nfds>>
ReadEnds(f) == readFds' = {} /\ excFds' = excFds \cap {f} /\ UNCHANGED <<pc, nfds>>
ExcDone(f)  == excFds' = excFds \ {f} /\ UNCHANGED <<pc, readFds, nfds>>

AcceptFails(f) ==
  /\ ReadTurn(f) /\ f = listener
  /\ running' = FALSE /\ Leave /\ signal' = Quiet
  /\ UNCHANGED <<listener, created, active, maxFd, num, ext, limit, held, extOpen, kernel>>

\* (Mutant: off by one.)
FullLate == limit > 0 /\ num > limit

Full == limit > 0 /\ num >= limit

\* (Mutant: the connection that is one too many is not closed.)
RefuseOpen(f) ==
  /\ ReadTurn(f) /\ f = listener /\ backlog > 0 /\ Full
  /\ \E c \in Fds \ (held \cup extOpen) : held' = held \cup {c}
  /\ backlog' = backlog - 1 /\ signal' = Quiet
  /\ ReadDone(f)
  /\ UNCHANGED <<server, limit, extOpen, ready, urgent, gone>>

\* Too many clients: the connection is accepted and closed at once.
Refuse(f) ==
  /\ ReadTurn(f) /\ f = listener /\ backlog > 0 /\ Full
  /\ backlog' = backlog - 1 /\ signal' = Quiet
  /\ ReadDone(f)
  /\ UNCHANGED <<server, limit, held, extOpen, ready, urgent, gone>>

\* (Mutant: a new client is stored without raising max_fd.)
AcceptUncovered(f, c) ==
  /\ ReadTurn(f) /\ f = listener /\ backlog > 0 /\ ~Full /\ c \notin held \cup extOpen
  /\ num' = num + 1 /\ active' = active \cup {c} /\ held' = held \cup {c}
  /\ backlog' = backlog - 1
  /\ Emit("accept", c) /\ ReadDone(f)
  /\ UNCHANGED <<listener, created, running, maxFd, ext, limit, extOpen, ready, urgent, gone>>

\* A new client is stored and signalled.
Accept(f, c) ==
  /\ ReadTurn(f) /\ f = listener /\ backlog > 0 /\ ~Full /\ c \notin held \cup extOpen
  /\ num' = num + 1 /\ active' = active \cup {c} /\ held' = held \cup {c}
  /\ maxFd' = IF maxFd < c THEN c ELSE maxFd
  /\ backlog' = backlog - 1
  /\ Emit("accept", c) /\ ReadDone(f)
  /\ UNCHANGED <<listener, created, running, ext, limit, extOpen, ready, urgent, gone>>

\* A new client whose accept callback shuts the server down.
AcceptShutdown(f, c) ==
  /\ ReadTurn(f) /\ f = listener /\ backlog > 0 /\ ~Full /\ c \notin held \cup extOpen
  /\ ShutDownServer
  /\ Emit("accept", c) /\ ReadEnds(f)

\* Receive signal; the callback reads the data of a live peer.
ReceiveData(f) ==
  /\ ReadTurn(f) /\ f # listener /\ f \notin gone
  /\ ready' = ready \ {f}
  /\ Emit("receive", f) /\ ReadDone(f)
  /\ UNCHANGED <<server, limit, held, extOpen, backlog, urgent, gone>>

\* Receive signal; the callback closes the client, and may then shut the
\* server down because it was the last one.
ReceiveClose(f) ==
  /\ ReadTurn(f) /\ f # listener
  /\ \/ close_connection(f) /\ ReadDone(f)
     \/ ShutDownServer /\ ReadEnds(f)
  /\ Emit("receive", f)

\* Exception signal; the callback closes the client.
Exception(f) ==
  /\ ExcTurn(f) /\ f # listener
  /\ \/ close_connection(f) /\ ExcDone(f)
     \/ ShutDownServer /\ EndAfter({})
  /\ Emit("exception", f)

\* The rest of a turn in which the server was shut down: its signals are still
\* emitted, for a descriptor that is closed by now.
Late(f) ==
  /\ pc = "scan" /\ ~running
  /\ \/ f \in readFds /\ Emit("receive", f) /\ ReadDone(f)
     \/ f \in excFds \ readFds /\ Emit("exception", f) /\ ExcDone(f)
  /\ UNCHANGED <<server, limit, held, extOpen, kernel>>

\* Nothing is left to be done in this round.
ScanOver ==
  /\ pc = "scan" /\ ~ \E f \in Fds : Turn(f)
  /\ running \/ readFds \cup excFds = {}

\* (Mutant: the end of the scan does not leave the loop after a shutdown.)
EndScanStays ==
  /\ ScanOver
  /\ readFds' = {} /\ excFds' = {} /\ signal' = Quiet
  /\ pc' = IF running THEN "top" ELSE "scan"
  /\ UNCHANGED <<server, nfds, limit, held, extOpen, kernel>>

\* The scan is over, or was ended by a shutdown.
EndScan ==
  /\ ScanOver
  /\ readFds' = {} /\ excFds' = {} /\ signal' = Quiet
  /\ pc' = IF running THEN "top" ELSE "idle"
  /\ UNCHANGED <<server, nfds, limit, held, extOpen, kernel>>

\* The server socket itself has an exceptional condition.
ListenerException(f) ==
  /\ ExcTurn(f) /\ f = listener
  /\ ShutDownServer
  /\ Leave /\ signal' = Quiet

-----------------------------------------------------------------------------
(* The peers.                                                              *)

Peer ==
  /\ \/ /\ created /\ backlog < MaxBacklog /\ backlog' = backlog + 1
        /\ UNCHANGED <<ready, urgent, gone>>
     \/ \E f \in (held \cup extOpen) \ {listener} :
          /\ ready' = ready \cup {f} /\ gone' \in {gone, gone \cup {f}}
          /\ UNCHANGED <<backlog, urgent>>
     \/ \E f \in held \cup extOpen :
          /\ urgent' = urgent \cup {f}
          /\ UNCHANGED <<backlog, ready, gone>>
  /\ signal' = Quiet
  /\ UNCHANGED <<server, limit, loop, held, extOpen>>

Calls ==
  \/ \E f \in Fds : create(f) \/ insert_external_socket(f) \/ remove_external_socket(f)
  \/ \E m \in Limits : set_max_clients(m)
  \/ shutdown

Handle(f) ==
  \/ AcceptFails(f) \/ Refuse(f)
  \/ \E c \in Fds : Accept(f, c) \/ AcceptShutdown(f, c)
  \/ ReceiveData(f) \/ ReceiveClose(f) \/ Exception(f) \/ ListenerException(f)
  \/ Late(f)

Loop ==
  \/ CopySets \/ EnterSelect \/ Select \/ EndScan
  \/ \E f \in Fds : Handle(f)

Next == Calls \/ run \/ Loop \/ SelectFails \/ Peer

Spec == Init /\ [][Next]_vars

\* The thread in run () keeps executing, and a select () on descriptors that
\* a shutdown has closed does return: its signal interrupts it, or it fails.
FairSpec ==
  /\ Spec /\ WF_vars(Loop)
  /\ WF_vars(WatchesClosed /\ SelectFails)

-----------------------------------------------------------------------------
(* Properties.                                                             *)

ServerType ==
  /\ listener \in Fds \cup {-1} /\ created \in BOOLEAN /\ running \in BOOLEAN
  /\ active \in SUBSET Fds /\ maxFd \in Nat /\ num \in Int /\ limit \in Int
  /\ ext \in SUBSET Fds
LoopType ==
  /\ pc \in {"idle", "top", "sets", "select", "scan"} /\ nfds \in Nat
  /\ readFds \in SUBSET Fds /\ excFds \in SUBSET Fds
KernelType ==
  /\ held \in SUBSET Fds /\ extOpen \in SUBSET Fds
  /\ backlog \in 0..MaxBacklog
  /\ ready \in SUBSET Fds /\ urgent \in SUBSET Fds /\ gone \in SUBSET Fds

\* Every variable of the server, of run () and of the kernel has its type.
TypeOK == ServerType /\ LoopType /\ KernelType

\* num_clients, which decides whether a connection is refused, is the number
\* of connections that are watched, although a client may be closed twice in
\* one round: by its receive and by its exception callback.
CountOK == num = Cardinality(Clients)

\* No descriptor is lost or used after it was closed: the open descriptors
\* the server made are exactly the ones it watches for itself, its listening
\* socket among them, and none is left after a shutdown.  (accept () and the
\* FD_SET of the new client are one step here; a signal handler that shuts the
\* server down between them leaves that one client open.)
NoLeak ==
  /\ held = active \ ext /\ ext \subseteq active \cap extOpen
  /\ IF created THEN listener \in held ELSE active = {} /\ listener = -1

\* max_fd reaches every watched descriptor: select () and the scan stop there.
MaxFdCovers == \A f \in active : f <= maxFd

\* The server runs only while it is created and run () is being executed, and
\* select () is given watched descriptors only.
LoopOK ==
  /\ running => created
  /\ pc = "idle" => ~running
  /\ pc \in {"sets", "select"} /\ running => readFds \subseteq active

\* During a scan, the descriptors whose receive signal is still to come are
\* watched and have data: none was closed, or closed and reused for a new
\* client, since select () returned, so that no callback reads stale readiness.
ReceiveFresh ==
  pc = "scan" /\ running =>
    \A f \in readFds : f \in active /\ (f # listener => f \in ready)

\* run () returns once the server has been shut down by a callback, or by a
\* signal handler during the scan or once max_fd has been read for select ().
\* Left out is a handler that runs earlier in the round: after its shutdown
\* select () is told to watch nothing, has no timeout, and does not return.
ShutdownReturns ==
  (~created /\ (pc = "scan" \/ (pc = "select" /\ nfds > 0))) ~> (pc = "idle")

\* A client whose peer hung up is closed, as long as the server runs: the
\* scan starves no descriptor.
HungUpIsClosed ==
  \A f \in Fds : (running /\ f \in active \cap gone) ~> (~running \/ f \notin active)

\* The server keeps the promises of ConnectionService.
Service == INSTANCE ConnectionService WITH
  Sockets <- Fds, clients <- Clients, serving <- running, bound <- limit
Promises == Service!SSpec
=============================================================================
