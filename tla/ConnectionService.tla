------------------------- MODULE ConnectionService -------------------------
(***************************************************************************)
(* What SocketServer (src/scim_socket.h) promises to the programs built on *)
(* it: the panel agent, the socket front end and the helper manager.  It   *)
(* watches a set of connections, never more of them than the limit in      *)
(* force when one joins, signals data only on a connection it watches, and *)
(* drops all of them when it is shut down.                                 *)
(***************************************************************************)
EXTENDS Integers, FiniteSets

CONSTANT Sockets \* every descriptor a connection may have

VARIABLES
  clients, \* the connections that are watched
  serving, \* the main loop runs
  bound,   \* the most connections allowed; none or negative: no limit
  signal   \* the signal emitted by the last step, if any

svars == <<clients, serving, bound, signal>>

Quiet == [kind |-> "none", client |-> -1]
Signal(kind, c) == [kind |-> kind, client |-> c]

SInit ==
  /\ clients = {} /\ serving = FALSE
  /\ bound \in Int /\ signal = Quiet

Start == ~serving /\ serving' = TRUE /\ signal' = Quiet /\ UNCHANGED <<clients, bound>>

Join(c) ==
  /\ c \notin clients
  /\ bound > 0 => Cardinality(clients) < bound
  /\ clients' = clients \cup {c}
  /\ signal' \in {Quiet, Signal("accept", c)}
  /\ UNCHANGED <<serving, bound>>

Leave(c) ==
  /\ c \in clients /\ clients' = clients \ {c}
  /\ signal' \in {Quiet, Signal("receive", c), Signal("exception", c)}
  /\ UNCHANGED <<serving, bound>>

Receive(c) ==
  /\ serving /\ c \in clients /\ signal' = Signal("receive", c)
  /\ UNCHANGED <<clients, serving, bound>>

\* An exceptional condition may still be signalled for a connection that
\* the receive signal of the same round has closed.
Except(c) ==
  /\ serving /\ signal' = Signal("exception", c)
  /\ UNCHANGED <<clients, serving, bound>>

SetBound == bound' \in Int /\ signal' = Quiet /\ UNCHANGED <<clients, serving>>

Fail == serving /\ serving' = FALSE /\ signal' = Quiet /\ UNCHANGED <<clients, bound>>

\* Shut down, possibly from the handler of a signal.
Stop ==
  /\ clients' = {} /\ serving' = FALSE
  /\ signal' = Quiet \/ \E c \in Sockets, k \in {"accept", "receive", "exception"} :
                           signal' = Signal(k, c)
  /\ UNCHANGED bound

\* The turn in which it was shut down may still signal its connection.
Late(c) ==
  /\ ~serving /\ signal' \in {Signal("receive", c), Signal("exception", c)}
  /\ UNCHANGED <<clients, serving, bound>>

Silence == signal' = Quiet /\ UNCHANGED <<clients, serving, bound>>

SNext ==
  \/ Start \/ SetBound \/ Fail \/ Stop \/ Silence
  \/ \E c \in Sockets : Join(c) \/ Leave(c) \/ Receive(c) \/ Except(c) \/ Late(c)

SSpec == SInit /\ [][SNext]_svars
=============================================================================
