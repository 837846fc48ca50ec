------------------------- MODULE SocketProofs -------------------------
(***************************************************************************)
(* Proofs about the sockets of scim_socket.cpp.  SocketServer, for any set *)
(* of descriptors, limits and signals: the books it keeps of its           *)
(* connections are right, readiness is never stale, and it implements      *)
(* ConnectionService.  SocketIO, for every timeout, size and number of     *)
(* interrupts: a call with a timeout never takes longer than that; one     *)
(* that gives up has waited as long, unless it was interrupted; a write    *)
(* that succeeds has sent everything.                                      *)
(***************************************************************************)
EXTENDS SocketServer, SocketIO, FiniteSetTheorems, TLAPS

\* Descriptors are positive; this is used in most steps.
USE SocketFdsAssumption

\* The initial state has the types.
LEMMA InitType == Init => TypeOK
<1> SUFFICES ASSUME Init PROVE TypeOK
  OBVIOUS
<1>0. SCIM_SOCKET_SERVER_MAX_CLIENTS \in Int
  BY SocketServerAssumption
<1>a. PICK m \in Limits : limit = IF m < SCIM_SOCKET_SERVER_MAX_CLIENTS THEN m
                                 ELSE SCIM_SOCKET_SERVER_MAX_CLIENTS
  BY DEF Init
<1>b. limit \in Int
  BY <1>0, <1>a, LimitsAssumption
<1>1. ServerType
  <2>1. listener \in Fds \cup {-1} /\ active \in SUBSET Fds /\ ext \in SUBSET Fds
    BY DEF Init
  <2>2. created \in BOOLEAN /\ running \in BOOLEAN
    BY DEF Init
  <2>3. maxFd \in Nat /\ num \in Int
    BY DEF Init
  <2> QED
    BY <1>b, <2>1, <2>2, <2>3 DEF ServerType
<1>2. LoopType /\ KernelType
  BY SocketServerAssumption DEF Init, LoopType, KernelType
<1> QED
  BY <1>1, <1>2 DEF TypeOK

\* The body of shutdown () keeps the types, whatever run () does.
LEMMA ShutDownType ==
  ASSUME TypeOK, ShutDownServer
  PROVE  ServerType' /\ KernelType'
<1>1. 0 \in 0..MaxBacklog
  BY SocketServerAssumption
<1>2. ServerType'
  <2>1. listener' \in Fds \cup {-1} /\ active' \in SUBSET Fds /\ ext' \in SUBSET Fds
    BY DEF ShutDownServer
  <2>2. created' \in BOOLEAN /\ running' \in BOOLEAN
    BY DEF ShutDownServer
  <2>3. maxFd' \in Nat /\ num' \in Int /\ limit' \in Int
    BY DEF TypeOK, ServerType, ShutDownServer
  <2> QED
    BY <2>1, <2>2, <2>3 DEF ServerType
<1>3. KernelType'
  BY <1>1 DEF TypeOK, KernelType, ShutDownServer, Closed
<1> QED
  BY <1>2, <1>3

\* close_connection () keeps the types.
LEMMA CloseType ==
  ASSUME TypeOK, NEW f \in Fds, close_connection(f)
  PROVE  ServerType' /\ KernelType'
BY DEF TypeOK, ServerType, KernelType, close_connection, Closed

\* Every step keeps the types.
LEMMA TypeStep == TypeOK /\ [Next]_vars => TypeOK'
<1> SUFFICES ASSUME TypeOK, [Next]_vars PROVE TypeOK'
  OBVIOUS
<1> USE DEF TypeOK
<1>1. CASE Calls
  <2>1. ASSUME NEW f \in Fds, create(f) PROVE TypeOK'
    BY <2>1 DEF create, ServerType, LoopType, KernelType, loop, kernel
  <2>2. ASSUME NEW f \in Fds, insert_external_socket(f) PROVE TypeOK'
    BY <2>2 DEF insert_external_socket, ServerType, LoopType, KernelType, loop, kernel
  <2>3. ASSUME NEW f \in Fds, remove_external_socket(f) PROVE TypeOK'
    BY <2>3 DEF remove_external_socket, ServerType, LoopType, KernelType, loop, kernel
  <2>4. ASSUME NEW m \in Limits, set_max_clients(m) PROVE TypeOK'
    BY <2>4, LimitsAssumption
    DEF set_max_clients, ServerType, LoopType, KernelType, server, loop, kernel
  <2>5. CASE shutdown
    BY <2>5, ShutDownType DEF shutdown, EndAfter, LoopType, loop
  <2> QED
    BY <1>1, <2>1, <2>2, <2>3, <2>4, <2>5 DEF Calls
<1>2. CASE run
  BY <1>2 DEF run, ServerType, LoopType, KernelType, kernel
<1>3. CASE CopySets
  BY <1>3 DEF CopySets, ServerType, LoopType, KernelType, server, kernel
<1>3a. CASE EnterSelect
  BY <1>3a DEF EnterSelect, ServerType, LoopType, KernelType, server, kernel
<1>4. CASE Select
  BY <1>4 DEF Select, Readable, Urgent, ServerType, LoopType, KernelType, server, kernel
<1>5. CASE EndScan
  BY <1>5 DEF EndScan, ServerType, LoopType, KernelType, server, kernel
<1>6. ASSUME NEW f \in Fds, Handle(f) PROVE TypeOK'
  <2>1. CASE AcceptFails(f)
    BY <2>1 DEF AcceptFails, Leave, ServerType, LoopType, KernelType, kernel
  <2>2. CASE Refuse(f)
    BY <2>2, SocketServerAssumption
    DEF Refuse, ReadDone, ServerType, LoopType, KernelType, server
  <2>3. ASSUME NEW c \in Fds, Accept(f, c) PROVE TypeOK'
    BY <2>3, SocketServerAssumption
    DEF Accept, ReadDone, ServerType, LoopType, KernelType
  <2>4. ASSUME NEW c \in Fds, AcceptShutdown(f, c) PROVE TypeOK'
    BY <2>4, ShutDownType DEF AcceptShutdown, ReadEnds, LoopType
  <2>5. CASE ReceiveData(f)
    BY <2>5 DEF ReceiveData, ReadDone, ServerType, LoopType, KernelType, server
  <2>6. CASE ReceiveClose(f)
    BY <2>6, ShutDownType, CloseType DEF ReceiveClose, ReadDone, ReadEnds, LoopType
  <2>7. CASE Exception(f)
    BY <2>7, ShutDownType, CloseType DEF Exception, ExcDone, EndAfter, LoopType
  <2>8. CASE ListenerException(f)
    BY <2>8, ShutDownType DEF ListenerException, Leave, LoopType
  <2>9. CASE Late(f)
    BY <2>9 DEF Late, ReadDone, ExcDone, ServerType, LoopType, KernelType, server, kernel
  <2> QED
    BY <1>6, <2>1, <2>2, <2>3, <2>4, <2>5, <2>6, <2>7, <2>8, <2>9 DEF Handle
<1>7. CASE SelectFails
  BY <1>7 DEF SelectFails, Leave, ServerType, LoopType, KernelType, kernel
<1>8. CASE Peer
  BY <1>8, SocketServerAssumption
  DEF Peer, ServerType, LoopType, KernelType, server, loop
<1>9. CASE UNCHANGED vars
  BY <1>9 DEF vars, ServerType, LoopType, KernelType, server, loop, kernel
<1> QED
  BY <1>1, <1>2, <1>3, <1>3a, <1>4, <1>5, <1>6, <1>7, <1>8, <1>9 DEF Next, Loop

\* Type correctness of SocketServer.
THEOREM ServerTypeCorrect == Spec => []TypeOK
<1>1. Init => TypeOK
  BY InitType
<1> QED
  BY <1>1, TypeStep, PTL DEF Spec

-----------------------------------------------------------------------------
(* The books: which descriptors are watched, how far max_fd reaches, and   *)
(* how many clients there are.                                             *)

\* What is inductive: CountOK needs to know that the listening socket is
\* watched, ReceiveFresh that select () was given watched descriptors.
Books == TypeOK /\ LoopOK /\ NoLeak /\ MaxFdCovers /\ ReceiveFresh

\* A shutdown leaves no descriptor behind.
LEMMA ShutDownBooks ==
  ASSUME Books, ShutDownServer
  PROVE  /\ NoLeak' /\ MaxFdCovers' /\ ~running' /\ ~created'
<1> USE DEF Books, TypeOK, ServerType
<1>1. held' = {} /\ active' = {} /\ ext' = {} /\ listener' = -1
  BY DEF ShutDownServer, NoLeak
<1>2. ~running' /\ ~created'
  BY DEF ShutDownServer
<1> QED
  BY <1>1, <1>2 DEF NoLeak, MaxFdCovers

\* Closing a client keeps the books.
LEMMA CloseBooks ==
  ASSUME Books, NEW f \in Fds, f # listener, close_connection(f)
  PROVE  NoLeak' /\ MaxFdCovers'
<1> USE DEF Books, TypeOK, ServerType, close_connection
<1>1. CASE f \in active
  BY <1>1 DEF NoLeak, MaxFdCovers
<1>2. CASE f \notin active
  BY <1>2 DEF NoLeak, MaxFdCovers
<1> QED
  BY <1>1, <1>2

\* Every step keeps the books: in particular a receive callback closes only
\* the descriptor whose turn it is, which the scan has done with.
LEMMA BooksStep == Books /\ [Next]_vars => Books'
<1> SUFFICES ASSUME Books, [Next]_vars PROVE Books'
  OBVIOUS
<1>0. TypeOK'
  BY TypeStep DEF Books
<1> SUFFICES LoopOK' /\ NoLeak' /\ MaxFdCovers' /\ ReceiveFresh'
  BY <1>0 DEF Books
<1> USE DEF Books, TypeOK, ServerType, LoopType, KernelType
<1>1. CASE Calls
  <2>1. ASSUME NEW f \in Fds, create(f)
        PROVE  LoopOK' /\ NoLeak' /\ MaxFdCovers' /\ ReceiveFresh'
    BY <2>1 DEF create, LoopOK, NoLeak, MaxFdCovers, ReceiveFresh, loop, kernel
  <2>2. ASSUME NEW f \in Fds, insert_external_socket(f)
        PROVE  LoopOK' /\ NoLeak' /\ MaxFdCovers' /\ ReceiveFresh'
    BY <2>2 DEF insert_external_socket, LoopOK, NoLeak, MaxFdCovers, ReceiveFresh,
                loop, kernel
  <2>3. ASSUME NEW f \in Fds, remove_external_socket(f)
        PROVE  LoopOK' /\ NoLeak' /\ MaxFdCovers' /\ ReceiveFresh'
    BY <2>3 DEF remove_external_socket, LoopOK, NoLeak, MaxFdCovers, ReceiveFresh,
                loop, kernel
  <2>4. ASSUME NEW m \in Limits, set_max_clients(m)
        PROVE  LoopOK' /\ NoLeak' /\ MaxFdCovers' /\ ReceiveFresh'
    BY <2>4 DEF set_max_clients, LoopOK, NoLeak, MaxFdCovers, ReceiveFresh,
                server, loop, kernel
  <2>5. CASE shutdown
    BY <2>5, ShutDownBooks DEF shutdown, Turn, EndAfter, LoopOK, ReceiveFresh, loop
  <2> QED
    BY <1>1, <2>1, <2>2, <2>3, <2>4, <2>5 DEF Calls
<1>2. CASE run
  BY <1>2 DEF run, LoopOK, NoLeak, MaxFdCovers, ReceiveFresh, kernel
<1>3. CASE CopySets
  BY <1>3 DEF CopySets, LoopOK, NoLeak, MaxFdCovers, ReceiveFresh, server, kernel
<1>3a. CASE EnterSelect
  BY <1>3a DEF EnterSelect, LoopOK, NoLeak, MaxFdCovers, ReceiveFresh, server, kernel
<1>4. CASE Select
  <2>1. LoopOK' /\ NoLeak' /\ MaxFdCovers'
    BY <1>4 DEF Select, LoopOK, NoLeak, MaxFdCovers, server, kernel
  <2>2. ReceiveFresh'
    BY <1>4 DEF Select, Readable, LoopOK, ReceiveFresh, server, kernel
  <2> QED
    BY <2>1, <2>2
<1>5. CASE EndScan
  BY <1>5 DEF EndScan, LoopOK, NoLeak, MaxFdCovers, ReceiveFresh, server, kernel
<1>6. ASSUME NEW f \in Fds, Handle(f)
      PROVE  LoopOK' /\ NoLeak' /\ MaxFdCovers' /\ ReceiveFresh'
  <2>1. CASE AcceptFails(f)
    BY <2>1 DEF AcceptFails, Leave, LoopOK, NoLeak, MaxFdCovers, ReceiveFresh, kernel
  <2>2. CASE Refuse(f)
    BY <2>2 DEF Refuse, ReadTurn, Turn, ReadDone, LoopOK, NoLeak, MaxFdCovers,
                ReceiveFresh, server
  <2>3. ASSUME NEW c \in Fds, Accept(f, c)
        PROVE  LoopOK' /\ NoLeak' /\ MaxFdCovers' /\ ReceiveFresh'
    <3>1. LoopOK' /\ ReceiveFresh'
      BY <2>3 DEF Accept, ReadTurn, Turn, ReadDone, LoopOK, ReceiveFresh
    <3>2. NoLeak' /\ MaxFdCovers'
      BY <2>3 DEF Accept, ReadTurn, Turn, NoLeak, MaxFdCovers
    <3> QED
      BY <3>1, <3>2
  <2>4. ASSUME NEW c \in Fds, AcceptShutdown(f, c)
        PROVE  LoopOK' /\ NoLeak' /\ MaxFdCovers' /\ ReceiveFresh'
    BY <2>4, ShutDownBooks DEF AcceptShutdown, ReadTurn, Turn, ReadEnds, LoopOK, ReceiveFresh
  <2>5. CASE ReceiveData(f)
    BY <2>5 DEF ReceiveData, ReadTurn, Turn, ReadDone, LoopOK, NoLeak, MaxFdCovers,
                ReceiveFresh, server
  <2>6. CASE ReceiveClose(f)
    <3>1. CASE ShutDownServer
      BY <2>6, <3>1, ShutDownBooks DEF ReceiveClose, ReadTurn, Turn, ReadDone, ReadEnds, LoopOK, ReceiveFresh
    <3>2. CASE close_connection(f)
      <4>1. NoLeak' /\ MaxFdCovers'
        BY <2>6, <3>2, CloseBooks DEF ReceiveClose
      <4>2. LoopOK' /\ ReceiveFresh'
        BY <2>6, <3>2 DEF ReceiveClose, ReadTurn, Turn, ReadDone, ReadEnds, ShutDownServer, close_connection,
                          Closed, LoopOK, ReceiveFresh
      <4> QED
        BY <4>1, <4>2
    <3> QED
      BY <2>6, <3>1, <3>2 DEF ReceiveClose
  <2>7. CASE Exception(f)
    <3>1. CASE ShutDownServer
      BY <2>7, <3>1, ShutDownBooks DEF Exception, ExcTurn, Turn, ExcDone, EndAfter, LoopOK, ReceiveFresh
    <3>2. CASE close_connection(f)
      <4>1. NoLeak' /\ MaxFdCovers'
        BY <2>7, <3>2, CloseBooks DEF Exception
      <4>2. LoopOK' /\ ReceiveFresh'
        BY <2>7, <3>2 DEF Exception, ExcTurn, Turn, ExcDone, EndAfter, ShutDownServer, close_connection,
                          Closed, LoopOK, ReceiveFresh
      <4> QED
        BY <4>1, <4>2
    <3> QED
      BY <2>7, <3>1, <3>2 DEF Exception
  <2>8. CASE ListenerException(f)
    BY <2>8, ShutDownBooks DEF ListenerException, Leave, LoopOK, ReceiveFresh
  <2>9. CASE Late(f)
    BY <2>9 DEF Late, ReadDone, ExcDone, LoopOK, NoLeak, MaxFdCovers, ReceiveFresh,
                server, kernel
  <2> QED
    BY <1>6, <2>1, <2>2, <2>3, <2>4, <2>5, <2>6, <2>7, <2>8, <2>9 DEF Handle
<1>7. CASE SelectFails
  BY <1>7 DEF SelectFails, Leave, LoopOK, NoLeak, MaxFdCovers, ReceiveFresh, kernel
<1>8. CASE Peer
  BY <1>8 DEF Peer, LoopOK, NoLeak, MaxFdCovers, ReceiveFresh, server, loop
<1>9. CASE UNCHANGED vars
  BY <1>9 DEF vars, LoopOK, NoLeak, MaxFdCovers, ReceiveFresh, server, loop, kernel
<1> QED
  BY <1>1, <1>2, <1>3, <1>3a, <1>4, <1>5, <1>6, <1>7, <1>8, <1>9 DEF Next, Loop

\* The initial state has right books.
LEMMA BooksInit == Init => Books
<1> SUFFICES ASSUME Init PROVE Books
  OBVIOUS
<1>1. LoopOK /\ NoLeak /\ MaxFdCovers /\ ReceiveFresh
  BY DEF Init, LoopOK, NoLeak, MaxFdCovers, ReceiveFresh
<1> QED
  BY <1>1, InitType DEF Books

\* The server never leaks a descriptor and never uses a closed one.
THEOREM NoLeakSafe == Spec => []NoLeak
<1>1. Books => NoLeak
  BY DEF Books
<1> QED
  BY <1>1, BooksInit, BooksStep, PTL DEF Spec

\* max_fd always reaches every watched descriptor.
THEOREM MaxFdSafe == Spec => []MaxFdCovers
<1>1. Books => MaxFdCovers
  BY DEF Books
<1> QED
  BY <1>1, BooksInit, BooksStep, PTL DEF Spec

\* A receive signal is never emitted on stale readiness.
THEOREM ReceiveSafe == Spec => []ReceiveFresh
<1>1. Books => ReceiveFresh
  BY DEF Books
<1> QED
  BY <1>1, BooksInit, BooksStep, PTL DEF Spec

-----------------------------------------------------------------------------
(* The number of clients.                                                  *)

\* The watched clients are finitely many, and what the steps do to them
\* changes their number by one.
LEMMA ClientsFinite ==
  ASSUME TypeOK
  PROVE  /\ IsFiniteSet(Clients) /\ Cardinality(Clients) \in Nat
         /\ \A c : c \notin Clients =>
              Cardinality(Clients \cup {c}) = Cardinality(Clients) + 1
         /\ \A c : c \in Clients =>
              Cardinality(Clients \ {c}) = Cardinality(Clients) - 1
<1>1. IsFiniteSet(Fds)
  BY SocketServerAssumption
<1>2. Clients \in SUBSET Fds
  BY DEF TypeOK, ServerType, Clients
<1>3. IsFiniteSet(Clients)
  BY <1>1, <1>2, FS_Subset, Zenon
<1> QED
  BY <1>3, FS_CardinalityType, FS_AddElement, FS_RemoveElement

\* The steps that store a client: an accepted or an inserted one.
LEMMA ClientJoins ==
  ASSUME Books, NEW f \in Fds, NEW c \in Fds,
         Accept(f, c) \/ insert_external_socket(c)
  PROVE  c \notin Clients /\ Clients' = Clients \cup {c} /\ num' = num + 1
<1>1. listener' = listener /\ active' = active \cup {c} /\ num' = num + 1
  BY DEF Accept, insert_external_socket
<1>2. c \notin active
  BY DEF Accept, insert_external_socket, Books, NoLeak, TypeOK, ServerType, KernelType
<1>3. c # listener
  BY <1>2 DEF Accept, insert_external_socket, ReadTurn, Turn, Books, NoLeak, LoopOK,
              TypeOK, ServerType, KernelType
<1> QED
  BY <1>1, <1>2, <1>3 DEF Clients

\* close_connection () by a callback: the client leaves, or had left before.
LEMMA ClientLeaves ==
  ASSUME Books, NEW f \in Fds, f # listener, close_connection(f)
  PROVE  /\ f \in active =>
              f \in Clients /\ Clients' = Clients \ {f} /\ num' = num - 1
         /\ f \notin active => Clients' = Clients /\ num' = num
BY DEF close_connection, Clients, Books, TypeOK, ServerType

\* The steps that leave the set of clients and their number alone.
LEMMA ClientsStay ==
  ASSUME Books,
         \/ (\E f \in Fds : create(f) \/ AcceptFails(f) \/ Refuse(f) \/ ReceiveData(f)
                       \/ Late(f))
         \/ (\E m \in Limits : set_max_clients(m))
         \/ run \/ CopySets \/ EnterSelect \/ Select \/ EndScan \/ SelectFails \/ Peer
         \/ UNCHANGED vars
  PROVE  Clients' = Clients /\ num' = num
<1>1. ASSUME NEW f \in Fds, create(f) PROVE Clients' = Clients /\ num' = num
  BY <1>1 DEF create, Clients, Books, NoLeak
<1> QED
  BY <1>1 DEF AcceptFails, Refuse, ReceiveData, Late, set_max_clients, run, CopySets,
              EnterSelect, Select, EndScan, SelectFails, Peer, vars, server, Clients

\* Every step keeps the count.
LEMMA CountStep == Books /\ CountOK /\ [Next]_vars => CountOK'
<1> SUFFICES ASSUME Books, CountOK, [Next]_vars PROVE CountOK'
  OBVIOUS
<1>0. TypeOK
  BY DEF Books
<1>1. ASSUME ShutDownServer PROVE CountOK'
  <2>1. Clients' = {} /\ num' = 0
    BY <1>1 DEF ShutDownServer, Clients
  <2> QED
    BY <2>1, FS_EmptySet DEF CountOK
<1>2. ASSUME NEW f \in Fds, NEW c \in Fds, Accept(f, c) \/ insert_external_socket(c)
      PROVE  CountOK'
  BY <1>0, <1>2, ClientJoins, ClientsFinite DEF CountOK
<1>3. ASSUME NEW f \in Fds, f # listener, close_connection(f) PROVE CountOK'
  BY <1>0, <1>3, ClientLeaves, ClientsFinite DEF CountOK
<1>4. ASSUME NEW f \in Fds, remove_external_socket(f) PROVE CountOK'
  <2>1. f \in Clients /\ Clients' = Clients \ {f} /\ num' = num - 1
    BY <1>4 DEF remove_external_socket, Clients, Books, NoLeak, TypeOK, ServerType
  <2> QED
    BY <1>0, <2>1, ClientsFinite DEF CountOK
<1>5. ASSUME Clients' = Clients, num' = num PROVE CountOK'
  BY <1>5 DEF CountOK
<1>6. ASSUME NEW f \in Fds, Handle(f) PROVE CountOK'
  BY <1>1, <1>2, <1>3, <1>5, <1>6, ClientsStay
  DEF Handle, AcceptShutdown, ReceiveClose, Exception, ListenerException
<1>7. CASE Calls
  BY <1>1, <1>2, <1>4, <1>5, <1>7, ClientsStay DEF Calls, shutdown
<1>8. CASE run \/ CopySets \/ EnterSelect \/ Select \/ EndScan \/ SelectFails \/ Peer \/ UNCHANGED vars
  BY <1>5, <1>8, ClientsStay
<1> QED
  BY <1>6, <1>7, <1>8 DEF Next, Loop

\* num_clients is the number of watched clients, always.
THEOREM CountSafe == Spec => []CountOK
<1>1. Init => Books /\ CountOK
  <2>0. Init => Clients = {} /\ num = 0
    BY DEF Init, Clients
  <2>1. Init => CountOK
    BY <2>0, FS_EmptySet DEF CountOK
  <2> QED
    BY <2>1, BooksInit
<1>2. Books /\ CountOK /\ [Next]_vars => (Books /\ CountOK)'
  BY BooksStep, CountStep
<1> QED
  BY <1>1, <1>2, PTL DEF Spec

-----------------------------------------------------------------------------
(* SocketServer implements ConnectionService.                              *)

\* A shutdown in any callback, or from outside, is a Stop of the service.
LEMMA ShutDownStops ==
  ASSUME Books, ShutDownServer,
         \/ signal' = Quiet
         \/ \E c \in Fds, k \in {"accept", "receive", "exception"} : Emit(k, c)
  PROVE  Service!Stop
<1>1. Clients' = {} /\ running' = FALSE /\ limit' = limit
  BY DEF ShutDownServer, Clients
<1> QED
  BY <1>1 DEF Service!Stop, Service!Signal, Service!Quiet, Quiet, Emit

\* A client is stored only below the limit, because the count is right.
LEMMA JoinsBelow ==
  ASSUME Books, CountOK, NEW f \in Fds, NEW c \in Fds,
         Accept(f, c) \/ insert_external_socket(c)
  PROVE  Service!Join(c)
<1>1. c \notin Clients /\ Clients' = Clients \cup {c}
  BY ClientJoins
<1>2. limit > 0 => Cardinality(Clients) < limit
  BY DEF CountOK, Accept, Full, insert_external_socket, Books, TypeOK, ServerType
<1>3. signal' \in {Service!Quiet, Service!Signal("accept", c)}
  BY DEF Accept, Emit, insert_external_socket, Quiet, Service!Quiet, Service!Signal
<1>4. UNCHANGED <<running, limit>>
  BY DEF Accept, insert_external_socket
<1>5. Service!Cardinality(Clients) = Cardinality(Clients)
  BY DEF Cardinality, Service!Cardinality
<1> QED
  BY <1>1, <1>2, <1>3, <1>4, <1>5 DEF Service!Join

\* A callback that closes its client makes it leave the service, unless an
\* earlier callback of the round did: then only the signal is seen.
LEMMA ClosesLeave ==
  ASSUME Books, NEW f \in Fds, close_connection(f),
         \/ ReceiveClose(f)
         \/ Exception(f)
  PROVE  Service!Leave(f) \/ Service!Except(f)
<1>1. f # listener /\ running
  BY DEF ReceiveClose, Exception, ReadTurn, ExcTurn, Turn
<1>2. signal' = Service!Signal("receive", f) \/ signal' = Service!Signal("exception", f)
  BY DEF ReceiveClose, Exception, Emit, Service!Signal
<1>3. running' = running /\ limit' = limit
  BY DEF close_connection
<1>4. CASE f \in active
  <2>1. f \in Clients /\ Clients' = Clients \ {f}
    BY <1>1, <1>4, ClientLeaves
  <2> QED
    BY <1>2, <1>3, <2>1 DEF Service!Leave
<1>5. CASE f \notin active
  <2>1. Clients' = Clients
    BY <1>1, <1>5, ClientLeaves
  <2>2. signal' = Service!Signal("exception", f)
    BY <1>5 DEF ReceiveClose, Exception, ReadTurn, Turn, Emit, Service!Signal,
                Books, ReceiveFresh
  <2> QED
    BY <1>1, <1>3, <2>1, <2>2 DEF Service!Except
<1> QED
  BY <1>4, <1>5

\* Every step of the server is a step of the service or leaves it alone.
LEMMA ServiceStep ==
  Books /\ CountOK /\ [Next]_vars => [Service!SNext]_(Service!svars)
<1> SUFFICES ASSUME Books, CountOK, [Next]_vars
             PROVE  Service!SNext \/ UNCHANGED Service!svars
  OBVIOUS
<1> USE DEF Service!SNext
<1>1. ASSUME NEW f \in Fds, Handle(f) PROVE Service!SNext
  <2>1. CASE AcceptFails(f)
    BY <2>1, ClientsStay
    DEF AcceptFails, ReadTurn, Turn, Service!Fail, Service!Quiet, Quiet
  <2>2. CASE Refuse(f)
    BY <2>2, ClientsStay DEF Refuse, server, Service!Silence, Service!Quiet, Quiet
  <2>3. ASSUME NEW c \in Fds, Accept(f, c) PROVE Service!SNext
    BY <2>3, JoinsBelow
  <2>4. ASSUME NEW c \in Fds, AcceptShutdown(f, c) PROVE Service!SNext
    BY <2>4, ShutDownStops DEF AcceptShutdown
  <2>5. CASE ReceiveData(f)
    <3>1. f \in Clients
      BY <2>5 DEF ReceiveData, ReadTurn, Turn, Books, ReceiveFresh, Clients
    <3>2. Service!Receive(f)
      BY <2>5, <3>1, ClientsStay
      DEF ReceiveData, ReadTurn, Turn, server, Emit, Service!Receive, Service!Signal
    <3> QED
      BY <3>2
  <2>6. CASE ReceiveClose(f)
    BY <2>6, ShutDownStops, ClosesLeave DEF ReceiveClose
  <2>7. CASE Exception(f)
    BY <2>7, ShutDownStops, ClosesLeave DEF Exception
  <2>8. CASE ListenerException(f)
    BY <2>8, ShutDownStops DEF ListenerException
  <2>9. CASE Late(f)
    BY <2>9, ClientsStay DEF Late, server, Emit, Service!Late, Service!Signal
  <2> QED
    BY <1>1, <2>1, <2>2, <2>3, <2>4, <2>5, <2>6, <2>7, <2>8, <2>9 DEF Handle
<1>2. CASE Calls
  <2>1. ASSUME NEW f \in Fds, create(f) PROVE Service!SNext
    BY <2>1, ClientsStay DEF create, Service!Silence, Service!Quiet, Quiet
  <2>2. ASSUME NEW f \in Fds, insert_external_socket(f) PROVE Service!SNext
    BY <2>2, JoinsBelow
  <2>3. ASSUME NEW f \in Fds, remove_external_socket(f) PROVE Service!SNext
    <3>1. f \in Clients /\ Clients' = Clients \ {f}
      BY <2>3 DEF remove_external_socket, Clients, Books, NoLeak, TypeOK, ServerType
    <3>2. Service!Leave(f)
      BY <2>3, <3>1 DEF remove_external_socket, Service!Leave, Service!Quiet, Quiet
    <3> QED
      BY <3>2
  <2>4. ASSUME NEW m \in Limits, set_max_clients(m) PROVE Service!SNext
    BY <2>4, ClientsStay, LimitsAssumption
    DEF set_max_clients, server, Service!SetBound, Service!Quiet, Quiet
  <2>5. CASE shutdown
    BY <2>5, ShutDownStops DEF shutdown
  <2> QED
    BY <1>2, <2>1, <2>2, <2>3, <2>4, <2>5 DEF Calls
<1>3. CASE run
  BY <1>3, ClientsStay DEF run, Service!Start, Service!Quiet, Quiet
<1>4. CASE CopySets \/ EnterSelect \/ Select \/ EndScan \/ Peer
  BY <1>4, ClientsStay
  DEF CopySets, EnterSelect, Select, EndScan, Peer, server, Service!Silence, Service!Quiet, Quiet
<1>5. CASE SelectFails
  <2>1. CASE running
    BY <1>5, <2>1, ClientsStay DEF SelectFails, Service!Fail, Service!Quiet, Quiet
  <2>2. CASE ~running
    BY <1>5, <2>2, ClientsStay
    DEF SelectFails, Service!Silence, Service!Quiet, Quiet, Books, TypeOK, ServerType
  <2> QED
    BY <2>1, <2>2
<1>6. CASE UNCHANGED vars
  BY <1>6, ClientsStay DEF vars, server, Service!svars
<1> QED
  BY <1>1, <1>2, <1>3, <1>4, <1>5, <1>6 DEF Next, Loop

\* SocketServer implements ConnectionService: never more clients than the
\* limit in force when one joins, receive signals for watched clients only,
\* and none left after a shutdown.
THEOREM ServerKeepsPromises == Spec => Promises
<1>1. Init => Books /\ CountOK /\ Service!SInit
  <2>1. Init => Clients = {} /\ num = 0
    BY DEF Init, Clients
  <2>2. Init => limit \in Int /\ running = FALSE /\ signal = Service!Quiet
    BY InitType DEF Init, TypeOK, ServerType, Quiet, Service!Quiet
  <2>3. Init => CountOK
    BY <2>1, FS_EmptySet DEF CountOK
  <2> QED
    BY <2>1, <2>2, <2>3, BooksInit DEF Service!SInit
<1>2. Books /\ CountOK /\ [Next]_vars => (Books /\ CountOK)'
  BY BooksStep, CountStep
<1> QED
  BY <1>1, <1>2, ServiceStep, PTL DEF Spec, Promises, Service!SSpec

-----------------------------------------------------------------------------
(* SocketIO.                                                               *)

USE SocketIOAssumption

\* Where a call with a timeout is, what is left of it still fits in the time
\* the caller gave; in select () that is so from the moment it was entered.
Budget ==
  /\ clock <= asked
  /\ at \in {"enter", "read"} => timeout >= 0 /\ clock + timeout <= asked
  /\ at = "select" => /\ tv = timeout /\ timeout >= 0
                      /\ begin <= since /\ since <= clock
                      /\ clock - since <= tv /\ since + timeout <= asked

IOInv == IOTypeOK /\ (asked >= 0 => Budget)

\* The types hold initially, and the budget.
LEMMA IOInitInv == IOInit => IOInv
<1> SUFFICES ASSUME IOInit PROVE IOInv
  OBVIOUS
<1>1. closed \in BOOLEAN /\ broken \in BOOLEAN
  BY DEF IOInit
<1>2. IOTypeOK
  BY <1>1 DEF IOInit, IOTypeOK
<1>3. Budget
  BY DEF IOInit, Budget
<1> QED
  BY <1>2, <1>3 DEF IOInv

\* Accounting yields a timeout again.
LEMMA AccountType ==
  ASSUME IOTypeOK, Account
  PROVE  timeout' \in Int /\ tv' \in Int
BY DEF IOTypeOK, Account

\* Every step keeps the types.
LEMMA IOTypeStep == IOTypeOK /\ [IONext]_IOVars => IOTypeOK'
<1> SUFFICES ASSUME IOTypeOK, [IONext]_IOVars PROVE IOTypeOK'
  OBVIOUS
<1>1. ASSUME NEW o \in {"read", "wait", "write"}, NEW t \in Timeouts, Call(o, t)
      PROVE  IOTypeOK'
  BY <1>1, TimeoutsAssumption DEF IOTypeOK, Call, link
<1>2. CASE Enter
  BY <1>2 DEF IOTypeOK, Enter, call, count, link
<1>3. CASE Tick
  BY <1>3 DEF IOTypeOK, Tick, call, wait, count, link
<1>4. CASE SelectReady
  BY <1>4, AccountType DEF IOTypeOK, SelectReady, Return, call, link
<1>5. CASE SelectTimeout
  BY <1>5, AccountType DEF IOTypeOK, SelectTimeout, Return, call, link
<1>6. CASE SelectIntr
  BY <1>6, AccountType DEF IOTypeOK, SelectIntr, call, count, link
<1>7. CASE ReadSome
  <2>1. PICK k \in 1..avail :
          /\ k <= left
          /\ avail' = avail - k /\ left' = left - k /\ nbytes' = nbytes + k
          /\ IF asked < 0 \/ k = left THEN Return(nbytes + k)
                                      ELSE at' = "enter" /\ UNCHANGED ret
    BY <1>7 DEF ReadSome
  <2> QED
    BY <1>7, <2>1 DEF IOTypeOK, ReadSome, Return, call, wait
<1>8. CASE ReadEnd
  BY <1>8 DEF IOTypeOK, ReadEnd, Return, call, wait, link
<1>9. CASE ReadError \/ UNCHANGED IOVars
  BY <1>9 DEF IOTypeOK, ReadError, IOVars, call, wait, count, link
<1>10. CASE WriteSome
  BY <1>10 DEF IOTypeOK, WriteSome, call, wait, link
<1>11. CASE WriteIntr
  BY <1>11 DEF IOTypeOK, WriteIntr, call, wait, link
<1>12. CASE WriteError
  BY <1>12 DEF IOTypeOK, WriteError, Return, call, wait, link
<1>13. CASE OtherEnd
  <2>1. UNCHANGED <<at, call, wait, count, clock, intr>>
    BY <1>13 DEF OtherEnd
  <2>2. avail' \in 0..Size
    BY <1>13 DEF OtherEnd, IOTypeOK
  <2>3. closed' \in BOOLEAN /\ broken' \in BOOLEAN
    BY <1>13 DEF OtherEnd, IOTypeOK
  <2> QED
    BY <2>1, <2>2, <2>3 DEF IOTypeOK, call, wait, count
<1> QED
  BY <1>1, <1>2, <1>3, <1>4, <1>5, <1>6, <1>7, <1>8, <1>9, <1>10, <1>11, <1>12, <1>13
  DEF IONext, Caller, Step

\* Accounting leaves a timeout that fits in the budget.
LEMMA AccountBudget ==
  ASSUME IOTypeOK, Budget, asked >= 0, at = "select", Account
  PROVE  timeout' >= 0 /\ clock + timeout' <= asked /\ tv' = timeout'
<1>1. CASE timeout = 0
  BY <1>1 DEF IOTypeOK, Budget, Account
<1>2. CASE timeout > 0 /\ timeout - (clock - begin) > 0
  <2>1. timeout' = timeout - (clock - begin) /\ tv' = timeout'
    BY <1>2 DEF IOTypeOK, Account
  <2>2. asked \in Int
    BY TimeoutsAssumption DEF IOTypeOK
  <2>3. begin + timeout <= asked
    BY <2>2 DEF IOTypeOK, Budget
  <2> QED
    BY <1>2, <2>1, <2>2, <2>3 DEF IOTypeOK
<1>3. CASE timeout > 0 /\ ~(timeout - (clock - begin) > 0)
  BY <1>3 DEF IOTypeOK, Budget, Account
<1> QED
  BY <1>1, <1>2, <1>3 DEF IOTypeOK, Budget

\* Every step keeps the budget.
LEMMA BudgetStep == IOInv /\ [IONext]_IOVars => IOInv'
<1> SUFFICES ASSUME IOInv, [IONext]_IOVars PROVE IOInv'
  OBVIOUS
<1>0. IOTypeOK /\ IOTypeOK'
  BY IOTypeStep DEF IOInv
<1> SUFFICES ASSUME asked' >= 0 PROVE Budget'
  BY <1>0 DEF IOInv
<1>1. ASSUME NEW o \in {"read", "wait", "write"}, NEW t \in Timeouts, Call(o, t)
      PROVE  Budget'
  BY <1>1, TimeoutsAssumption DEF Call, Budget
<1>2. ASSUME asked' = asked PROVE Budget
  BY <1>2 DEF IOInv
<1>a. asked \in Int /\ asked' \in Int
  BY <1>0, TimeoutsAssumption DEF IOTypeOK
<1> USE <1>0, <1>a DEF IOTypeOK
<1>3. CASE Enter
  <2>1. timeout >= 0 /\ clock + timeout <= asked /\ clock <= asked
    BY <1>2, <1>3 DEF Enter, call, Budget
  <2>2. begin' = clock /\ since' = clock /\ clock' = clock /\ tv' = timeout
        /\ timeout' = timeout /\ asked' = asked /\ at' = "select"
    BY <1>3 DEF Enter, call
  <2> QED
    BY <2>1, <2>2 DEF Budget
<1>4. CASE Tick
  BY <1>2, <1>4 DEF Tick, call, wait, Budget
<1>5. CASE SelectReady
  BY <1>2, <1>5, AccountBudget DEF SelectReady, Return, call, Budget
<1>6. CASE SelectTimeout \/ SelectIntr
  <2>1. asked' = asked /\ clock' = clock /\ begin' = begin /\ since' = clock
        /\ at = "select" /\ at' \in {"select", "done"} /\ Account
    BY <1>6 DEF SelectTimeout, SelectIntr, Return, call
  <2>2. timeout' >= 0 /\ clock + timeout' <= asked /\ tv' = timeout'
    BY <1>2, <2>1, AccountBudget
  <2>3. clock <= asked /\ begin <= clock
    BY <1>2, <2>1 DEF Budget
  <2>4. clock \in Nat /\ begin \in Nat /\ timeout' \in Int
    OBVIOUS
  <2>5. at' = "select" \/ at' = "done"
    BY <2>1
  <2>6. clock' <= asked' /\ begin' <= since' /\ since' <= clock'
    BY <2>1, <2>3, <2>4
  <2>7. tv' = timeout' /\ timeout' >= 0 /\ clock' - since' <= tv'
    BY <2>1, <2>2, <2>4
  <2>8. since' + timeout' <= asked'
    BY <2>1, <2>2
  <2> QED
    BY <2>5, <2>6, <2>7, <2>8 DEF Budget
<1>8. CASE ReadSome
  BY <1>2, <1>8 DEF ReadSome, Return, call, wait, Budget
<1>9. CASE ReadEnd
  BY <1>2, <1>9 DEF ReadEnd, Return, call, wait, Budget
<1>10. CASE ReadError \/ UNCHANGED IOVars
  BY <1>2, <1>10 DEF ReadError, IOVars, call, wait, Budget
<1>11. CASE WriteSome \/ WriteIntr \/ WriteError
  BY <1>2, <1>11 DEF WriteSome, WriteIntr, WriteError, Return, call, wait, Budget
<1>12. CASE OtherEnd
  BY <1>2, <1>12 DEF OtherEnd, call, wait, Budget
<1> QED
  BY <1>1, <1>3, <1>4, <1>5, <1>6, <1>8, <1>9, <1>10, <1>11, <1>12
  DEF IONext, Caller, Step

\* A call with a timeout never takes longer than its timeout.
THEOREM DeadlineSafe == IOSpec => []Deadline
<1>1. IOInv => Deadline
  BY DEF IOInv, Budget, Deadline
<1> QED
  BY <1>1, IOInitInv, BudgetStep, PTL DEF IOSpec

\* Types of the variables of SocketIO, for every size, timeout and MaxIntr.
THEOREM IOTypeCorrect == IOSpec => []IOTypeOK
BY IOInitInv, IOTypeStep, PTL DEF IOSpec, IOInv

-----------------------------------------------------------------------------
(* Results of write.                                                       *)

\* Which call can be where.
CallAt ==
  /\ op = "write" => at \in {"write", "done"}
  /\ at = "write" => op = "write"
  /\ at = "read" => op = "read"

WriteInv == CallAt /\ WriteComplete

\* A call stays where it belongs, and a write that is over with a positive
\* result has nothing left.
LEMMA WriteStep == IOTypeOK /\ WriteInv /\ [IONext]_IOVars => WriteInv'
<1> SUFFICES ASSUME IOTypeOK, WriteInv, [IONext]_IOVars PROVE WriteInv'
  OBVIOUS
<1> USE DEF WriteInv, CallAt, WriteComplete
<1>1. ASSUME NEW o \in {"read", "wait", "write"}, NEW t \in Timeouts, Call(o, t)
      PROVE  WriteInv'
  BY <1>1 DEF Call
<1>2. CASE Enter \/ Tick \/ SelectIntr
  BY <1>2 DEF Enter, Tick, SelectIntr, call, count, IOTypeOK
<1>3. CASE SelectReady
  BY <1>3 DEF SelectReady, Return, call, IOTypeOK
<1>4. CASE SelectTimeout
  BY <1>4 DEF SelectTimeout, Return, call
<1>5. CASE ReadSome \/ ReadEnd
  BY <1>5 DEF ReadSome, ReadEnd, Return, call
<1>6. CASE ReadError \/ UNCHANGED IOVars
  BY <1>6 DEF ReadError, IOVars, call, count
<1>7. CASE WriteSome
  <2>1. PICK k \in 1..left : left' = left - k /\ at' = IF k = left THEN "done" ELSE "write"
    BY <1>7 DEF WriteSome
  <2>2. op' = op /\ op = "write"
    BY <1>7 DEF WriteSome, call
  <2>3. at' = "done" => left' = 0
    BY <2>1 DEF IOTypeOK
  <2> QED
    BY <2>1, <2>2, <2>3
<1>8. CASE WriteIntr \/ WriteError
  BY <1>8 DEF WriteIntr, WriteError, Return, call
<1>9. CASE OtherEnd
  BY <1>9 DEF OtherEnd, call, count
<1> QED
  BY <1>1, <1>2, <1>3, <1>4, <1>5, <1>6, <1>7, <1>8, <1>9 DEF IONext, Caller, Step

\* A positive result of write means that everything was sent, in however many
\* chunks.
THEOREM WriteSafe == IOSpec => []WriteComplete
<1>1. IOInit => WriteInv
  BY DEF IOInit, WriteInv, CallAt, WriteComplete
<1>2. WriteInv => WriteComplete
  BY DEF WriteInv
<1> QED
  BY <1>1, <1>2, WriteStep, IOTypeCorrect, PTL DEF IOSpec

-----------------------------------------------------------------------------
(* A call that is not interrupted does not give up early.                  *)

\* What has passed and what is left of the timeout make up all of it.
Patience ==
  /\ at \in {"enter", "read"} => clock + timeout >= asked
  /\ at = "select" => begin = since /\ since + timeout >= asked
  /\ GaveUp => clock >= asked

\* Until a read is over, what it has and what it lacks make up all of it.
Whole == at \in {"enter", "select", "read"} => left + nbytes = Size

EarlyInv == Whole /\ (asked >= 0 /\ intr = 0 /\ op # "write" => Patience)

\* The bytes of a call are neither lost nor counted twice.
LEMMA WholeStep == IOTypeOK /\ WriteInv /\ Whole /\ [IONext]_IOVars => Whole'
<1> SUFFICES ASSUME IOTypeOK, WriteInv, Whole, [IONext]_IOVars PROVE Whole'
  OBVIOUS
<1> USE DEF Whole
<1>1. ASSUME NEW o \in {"read", "wait", "write"}, NEW t \in Timeouts, Call(o, t)
      PROVE  Whole'
  BY <1>1 DEF Call
<1>2. CASE Enter \/ Tick \/ SelectIntr
  BY <1>2 DEF Enter, Tick, SelectIntr, count
<1>3. CASE SelectReady \/ SelectTimeout
  BY <1>3 DEF SelectReady, SelectTimeout, Return
<1>4. CASE ReadSome
  <2>1. PICK k \in 1..avail : left' = left - k /\ nbytes' = nbytes + k
    BY <1>4 DEF ReadSome
  <2>2. left + nbytes = Size
    BY <1>4 DEF ReadSome
  <2> QED
    BY <2>1, <2>2 DEF IOTypeOK
<1>5. CASE ReadEnd
  BY <1>5 DEF ReadEnd, Return
<1>6. CASE ReadError \/ UNCHANGED IOVars
  BY <1>6 DEF ReadError, IOVars, count
<1>7. CASE WriteSome \/ WriteIntr \/ WriteError
  <2>1. at' \in {"write", "done"}
    BY <1>7 DEF WriteSome, WriteIntr, WriteError, Return
  <2> QED
    BY <2>1
<1>8. CASE OtherEnd
  BY <1>8 DEF OtherEnd, count
<1> QED
  BY <1>1, <1>2, <1>3, <1>4, <1>5, <1>6, <1>7, <1>8 DEF IONext, Caller, Step

\* The first accounting of a select () takes off exactly the time it took.
LEMMA AccountPatience ==
  ASSUME IOTypeOK, Budget, asked >= 0, at = "select", begin = since,
         since + timeout >= asked, Account
  PROVE  clock + timeout' >= asked
<1>1. asked \in Int
  BY TimeoutsAssumption DEF IOTypeOK
<1>2. CASE timeout = 0
  BY <1>1, <1>2 DEF IOTypeOK, Budget, Account
<1>3. CASE timeout > 0 /\ timeout - (clock - begin) > 0
  <2>1. timeout' = timeout - (clock - begin)
    BY <1>3 DEF IOTypeOK, Account
  <2> QED
    BY <1>1, <2>1 DEF IOTypeOK
<1>4. CASE timeout > 0 /\ ~(timeout - (clock - begin) > 0)
  <2>1. timeout' = 0
    BY <1>4 DEF IOTypeOK, Account
  <2> QED
    BY <1>1, <1>4, <2>1 DEF IOTypeOK
<1> QED
  BY <1>2, <1>3, <1>4 DEF IOTypeOK, Budget

\* Every step of a call that is not interrupted keeps the account complete.
LEMMA EarlyStep == IOInv /\ WriteInv /\ EarlyInv /\ [IONext]_IOVars => EarlyInv'
<1> SUFFICES ASSUME IOInv, WriteInv, EarlyInv, [IONext]_IOVars PROVE EarlyInv'
  OBVIOUS
<1>0. IOTypeOK /\ IOTypeOK'
  BY IOTypeStep DEF IOInv
<1> SUFFICES ASSUME asked' >= 0, intr' = 0, op' # "write" PROVE Patience'
  BY <1>0, WholeStep DEF EarlyInv
<1>a. asked \in Int /\ asked' \in Int
  BY <1>0, TimeoutsAssumption DEF IOTypeOK
<1>1. ASSUME NEW o \in {"read", "wait", "write"}, NEW t \in Timeouts, Call(o, t)
      PROVE  Patience'
  <2>1. t \in Int /\ asked' = t /\ timeout' = t /\ clock' = 0
        /\ at' \in {"write", "read", "enter"}
    BY <1>1, TimeoutsAssumption DEF Call
  <2> QED
    BY <2>1 DEF Patience, GaveUp
<1>b. ASSUME asked' = asked, op' = op, intr' = intr
      PROVE  Patience /\ Budget /\ asked >= 0 /\ op # "write"
  BY <1>b DEF IOInv, EarlyInv
<1>2. CASE Enter
  <2>1. clock + timeout >= asked
    BY <1>2, <1>b DEF Enter, call, Patience
  <2>2. begin' = clock /\ since' = clock /\ timeout' = timeout /\ asked' = asked
        /\ at' = "select"
    BY <1>2 DEF Enter, call
  <2> QED
    BY <2>1, <2>2 DEF Patience, GaveUp
<1>3. CASE Tick
  BY <1>3, <1>b DEF Tick, call, wait, Patience, GaveUp
<1>4. CASE SelectReady
  <2>1. asked' = asked /\ op' = op /\ intr' = intr /\ clock' = clock /\ at = "select" /\ Account
    BY <1>4 DEF SelectReady, call
  <2>2. clock + timeout' >= asked
    BY <1>0, <1>b, <2>1, AccountPatience DEF Patience
  <2>3. CASE op = "wait"
    BY <1>4, <2>1, <2>3 DEF SelectReady, Return, Patience, GaveUp
  <2>4. CASE op # "wait"
    BY <1>4, <2>1, <2>2, <2>4 DEF SelectReady, Patience, GaveUp
  <2> QED
    BY <2>3, <2>4
<1>5. CASE SelectTimeout
  <2>1. asked' = asked /\ op' = op /\ intr' = intr /\ clock' = clock /\ at = "select" /\ Account
    BY <1>5 DEF SelectTimeout, call
  <2>2. begin = since /\ since + timeout >= asked /\ tv = timeout /\ timeout >= 0
    BY <1>b, <2>1 DEF Patience, Budget
  <2>3. clock - since >= timeout
    BY <1>5, <2>2 DEF SelectTimeout
  <2>4. timeout' = 0
    BY <1>0, <2>1, <2>2, <2>3 DEF Account, IOTypeOK
  <2>5. at' = "done"
    BY <1>5, <2>4 DEF SelectTimeout, Return
  <2>6. clock >= asked
    BY <1>0, <1>a, <2>2, <2>3 DEF IOTypeOK
  <2> QED
    BY <2>1, <2>5, <2>6 DEF Patience
<1>6. CASE SelectIntr \/ WriteIntr
  BY <1>0, <1>6 DEF SelectIntr, WriteIntr, IOTypeOK
<1>7. CASE ReadSome
  <2>1. PICK k \in 1..avail :
          /\ left' = left - k /\ nbytes' = nbytes + k
          /\ IF asked < 0 \/ k = left THEN Return(nbytes + k)
                                      ELSE at' = "enter" /\ UNCHANGED ret
    BY <1>7 DEF ReadSome
  <2>2. asked' = asked /\ op' = op /\ intr' = intr /\ clock' = clock /\ timeout' = timeout
        /\ at = "read"
    BY <1>7 DEF ReadSome, call, wait
  <2>3. op = "read" /\ left + nbytes = Size /\ clock + timeout >= asked /\ ~(asked < 0)
    BY <1>a, <1>b, <2>2 DEF WriteInv, CallAt, EarlyInv, Whole, Patience
  <2>4. CASE k = left
    <3>1. at' = "done" /\ ret' = Size
      BY <1>0, <2>1, <2>3, <2>4 DEF Return, IOTypeOK
    <3> QED
      BY <2>2, <2>3, <3>1 DEF Patience, GaveUp
  <2>5. CASE k # left
    <3>1. at' = "enter"
      BY <2>1, <2>3, <2>5
    <3> QED
      BY <2>2, <2>3, <3>1 DEF Patience, GaveUp
  <2> QED
    BY <2>4, <2>5
<1>8. CASE ReadEnd
  <2>1. at' = "done" /\ closed'
    BY <1>8 DEF ReadEnd, Return, link
  <2> QED
    BY <2>1 DEF Patience, GaveUp
<1>9. CASE ReadError \/ UNCHANGED IOVars
  BY <1>9, <1>b DEF ReadError, IOVars, call, wait, count, link, Patience, GaveUp
<1>10. CASE WriteSome \/ WriteError
  BY <1>10 DEF WriteSome, WriteError, call, WriteInv, CallAt
<1>11. CASE OtherEnd
  <2>1. UNCHANGED <<at, call, wait, count, clock, intr>>
    BY <1>11 DEF OtherEnd
  <2>2. Patience
    BY <1>b, <2>1 DEF call
  <2>3. GaveUp' => GaveUp
    <3>1. (closed => closed') /\ (broken => broken')
      BY <1>11 DEF OtherEnd
    <3> QED
      BY <2>1, <3>1 DEF GaveUp, call, count
  <2> QED
    BY <2>1, <2>2, <2>3 DEF Patience, call, wait
<1> QED
  BY <1>1, <1>2, <1>3, <1>4, <1>5, <1>6, <1>7, <1>8, <1>9, <1>10, <1>11
  DEF IONext, Caller, Step

\* A read or a wait that gives up on a live peer without having been interrupted
\* has waited for all of its timeout.
THEOREM NotEarlySafe == IOSpec => []NotEarlyUnlessInterrupted
<1>1. IOInit => WriteInv /\ EarlyInv
  BY DEF IOInit, WriteInv, CallAt, WriteComplete, EarlyInv, Whole, Patience, GaveUp
<1>2. WriteInv /\ EarlyInv => NotEarlyUnlessInterrupted
  BY DEF EarlyInv, Patience, GaveUp, NotEarlyUnlessInterrupted
<1>3. IOInv => IOTypeOK
  BY DEF IOInv
<1> QED
  BY <1>1, <1>2, <1>3, IOInitInv, BudgetStep, WriteStep, EarlyStep, PTL DEF IOSpec
=============================================================================
