----------------------------- MODULE SocketEngine -----------------------------
(***************************************************************************)
(* IMEngines over a socket: SocketIMEngine (modules/IMEngine/              *)
(* scim_socket_imengine.cpp), the client, and SocketFrontEnd (modules/     *)
(* FrontEnd/scim_socket_frontend.cpp), the server, with the instances      *)
(* FrontEndBase keeps for it.                                              *)
(*                                                                         *)
(* One client process has the local instances Insts, each with a peer in   *)
(* the server.  A call blocks until its reply; when none comes, it         *)
(* connects anew, every instance gets a new peer, and the calling one is   *)
(* reset by the same kind of call.  What an engine's output consists of is *)
(* left out, but for an icon the client fetches by a request of its own    *)
(* while it reads the reply: a reply is known by the call it answers.      *)
(*                                                                         *)
(* The model begins with the factory made: its constructor's requests have *)
(* a timeout that is ignored as well, of which one can be left behind.     *)
(***************************************************************************)
EXTENDS Integers, Sequences, FiniteSets

CONSTANTS
  Insts,      \* the client's instances
  MaxSiid,    \* bound on m_instance_count
  MaxConn,    \* connections that are not closed at both ends
  Plans       \* the sets of faults that may happen in one behaviour, once each

\* The server dies; a restarted one lacks the factory; a reply to a call, a reply
\* to a creation, an icon, an answer for the server or (at the start) what the
\* factory asked for comes after the timeout.
Faults == {"crash", "gone", "slow", "slow_new", "slow_icon", "slow_text", "slow_factory"}

\* After these the connection is kept: what comes late may be taken for another.
KeepsConnection == {"slow_new", "slow_icon", "slow_text", "slow_factory"}

Siids == 0..(MaxSiid - 1)
Conns == 1..MaxConn
NoPeer == -1
NoConn == 0
Nobody == "nobody"

ASSUME EngineAssumption ==
  /\ IsFiniteSet(Insts) /\ Insts # {} /\ Nobody \notin Insts
  /\ MaxSiid \in Nat /\ MaxConn \in Nat \ {0}
  /\ Plans \subseteq SUBSET Faults

VARIABLES
  cl,     \* the client: see Init
  net,    \* the connections
  srv,    \* the server
  plan,   \* the faults that may still happen
  faults, \* the faults that happened
  wrong   \* what has gone wrong: see the properties

fault == <<plan, faults>>
vars == <<cl, net, srv, plan, faults, wrong>>

Req(cmd, siid, who) == [cmd |-> cmd, siid |-> siid, who |-> who]

\* The client's operations: "commit" sends a request and "recv" awaits its
\* reply; "create" and "recv_new" the same for a new peer, "icon" and
\* "recv_icon" for a file; "reconnect".
Op(f, i, cmd) == [f |-> f, i |-> i, cmd |-> cmd]

NoInst   == [conn |-> NoConn, for |-> Nobody]
Closed   == [req |-> <<>>, rep |-> <<>>, open |-> FALSE, served |-> FALSE]
NoCall   == Req("NONE", NoPeer, Nobody)

Init ==
  /\ cl = [peer |-> [i \in Insts |-> NoPeer],   \* SocketInstance::m_peer_id
           live |-> {},                         \* those that hear of reconnects
           conn |-> 1,                          \* m_socket_client
           todo |-> <<>>]                       \* what the blocked call has to do
  /\ \E p \in Plans : plan = p \ {"slow_factory"} /\ faults = p \cap {"slow_factory"}
  /\ net = [c \in Conns |->
              IF c = 1 THEN [Closed EXCEPT !.open = TRUE, !.served = TRUE,
                               !.req = IF faults = {} THEN <<>>
                                       ELSE <<Req("FACTORY", NoPeer, Nobody)>>]
              ELSE Closed]
  /\ srv = [up |-> TRUE, has |-> TRUE,          \* runs, and has the factory
            inst |-> [s \in Siids |-> NoInst],  \* the two instance repositories
            count |-> 0,                        \* m_instance_count
            wait |-> NoConn, call |-> NoCall]   \* asks this client for its text
  /\ wrong = {}

Fault(f) == f \in plan /\ plan' = plan \ {f} /\ faults' = faults \cup {f}
Note(w, bad) == wrong' = IF bad THEN wrong \cup {w} ELSE wrong

-----------------------------------------------------------------------------
(* The client.                                                             *)

Doing(f) == cl.todo # <<>> /\ Head(cl.todo).f = f
Me       == Head(cl.todo).i
Rest     == Tail(cl.todo)
Up(c)    == c # NoConn /\ net[c].served     \* the peer has not closed it

Send(c, r) == [net EXCEPT ![c].req = Append(@, r)]

\* Bound: a timeout, and what it leaves behind, gives every instance a new peer.
Reserve ==
  srv.count + (Cardinality(Insts) + 1)
                * (Cardinality(plan \ {"crash", "gone"})
                   + Cardinality(faults \cap KeepsConnection))

\* SocketFactory::create_instance, and the constructor, which listens to
\* reconnects (there is none in between).
create_instance(i) ==
  /\ cl.todo = <<>> /\ i \notin cl.live
  /\ Reserve < MaxSiid
  /\ cl' = [cl EXCEPT !.live = @ \cup {i}, !.todo = <<Op("create", i, "NEW")>>]
  /\ UNCHANGED <<net, srv, plan, faults, wrong>>

\* process_key_event (), focus_in () ... update_client_capabilities ().
Call(i) ==
  /\ cl.todo = <<>> /\ i \in cl.live /\ Reserve <= MaxSiid
  /\ cl' = [cl EXCEPT !.todo = <<Op("commit", i, "CALL")>>]
  /\ UNCHANGED <<net, srv, plan, faults, wrong>>

\* ~SocketInstance
Destroy(i) ==
  /\ cl.todo = <<>> /\ i \in cl.live /\ Reserve <= MaxSiid
  /\ cl' = [cl EXCEPT !.live = @ \ {i},
                      !.todo = (IF cl.peer[i] # NoPeer THEN <<Op("commit", i, "DEL")>>
                                ELSE <<>>) \o <<Op("dead", i, "DEL")>>]
  /\ UNCHANGED <<net, srv, plan, faults, wrong>>

dead ==
  /\ Doing("dead")
  /\ cl' = [cl EXCEPT !.peer[Me] = NoPeer, !.todo = Rest]
  /\ UNCHANGED <<net, srv, plan, faults, wrong>>

\* commit_transaction, up to the reply.
commit_transaction ==
  /\ Doing("commit")
  /\ LET cmd == Head(cl.todo).cmd
         sends == cl.peer[Me] # NoPeer /\ Up(cl.conn)
     IN /\ net' = IF sends THEN Send(cl.conn, Req(cmd, cl.peer[Me], Me)) ELSE net
        /\ cl' = [cl EXCEPT !.todo = <<Op(IF sends THEN "recv" ELSE "reconnect", Me, cmd)>>
                                     \o Rest]
  /\ UNCHANGED <<srv, plan, faults, wrong>>

Take(c) == [net EXCEPT ![c].rep = Tail(@)]

\* REGISTER_PROPERTIES, UPDATE_PROPERTY: what an instance puts out may have icons
\* to load.  Bound: one for a reply.
Icons(r) == {<<>>} \cup IF r.cmd \in {"CALL", "RESET", "LAST_RESET"}
                          THEN {<<Op("icon", Me, "FILE")>>} ELSE {}

\* do_transaction: a question for the surrounding text is answered and the
\* reply still awaited.
do_transaction ==
  /\ Doing("recv") /\ cl.conn # NoConn /\ net[cl.conn].rep # <<>>
  /\ LET r == Head(net[cl.conn].rep)
     IN IF r.cmd = "TEXT"
          THEN /\ net' = IF Up(cl.conn)
                           THEN [Take(cl.conn) EXCEPT ![cl.conn].req = Append(@, r)]
                           ELSE Take(cl.conn)
               /\ UNCHANGED <<cl, wrong>>
          ELSE /\ net' = Take(cl.conn)
               /\ \E icon \in Icons(r) : cl' = [cl EXCEPT !.todo = icon \o Rest]
               /\ Note("reply", <<r.cmd, r.who>> # <<Head(cl.todo).cmd, Me>>)
  /\ UNCHANGED <<srv, plan, faults>>

\* load_icon, of a file this host does not have.
load_icon ==
  /\ Doing("icon")
  /\ IF Up(cl.conn)
       THEN /\ net' = Send(cl.conn, Req("FILE", NoPeer, Me))
            /\ cl' = [cl EXCEPT !.todo = <<Op("recv_icon", Me, "FILE")>> \o Rest]
       ELSE net' = net /\ cl' = [cl EXCEPT !.todo = Rest]
  /\ UNCHANGED <<srv, plan, faults, wrong>>

receive_icon ==
  /\ Doing("recv_icon") /\ net[cl.conn].rep # <<>>
  /\ cl' = [cl EXCEPT !.todo = Rest]
  /\ LET r == Head(net[cl.conn].rep)
     IN Note("reply", <<r.cmd, r.who>> # <<"FILE", Me>>)
  /\ net' = Take(cl.conn)
  /\ UNCHANGED <<srv, plan, faults>>

\* Without an icon the rest of the reply is gone through, on the same connection.
NoIcon ==
  /\ Doing("recv_icon") /\ net[cl.conn].rep = <<>>
  /\ (~Up(cl.conn) /\ UNCHANGED fault) \/ (Up(cl.conn) /\ Fault("slow_icon"))
  /\ cl' = [cl EXCEPT !.todo = Rest]
  /\ UNCHANGED <<net, srv, wrong>>

\* (Mutant: after a timeout, the reset goes on with the old connection.)
ReceiveFailsKeeping ==
  /\ Doing("recv") /\ net[cl.conn].rep = <<>>
  /\ (~Up(cl.conn) /\ UNCHANGED fault) \/ (Up(cl.conn) /\ Fault("slow"))
  /\ cl' = [cl EXCEPT !.todo = <<Op(IF Up(cl.conn) THEN "commit" ELSE "reconnect",
                                     Me, "RESET")>> \o Rest]
  /\ UNCHANGED <<net, srv, wrong>>

\* (Mutant: a closed connection is waited for as a silent one.)
ReceiveWaits ==
  /\ Doing("recv") /\ net[cl.conn].rep = <<>>
  /\ Up(cl.conn) /\ Fault("slow")
  /\ cl' = [cl EXCEPT !.todo = <<Op("reconnect", Me, "RESET")>> \o Rest]
  /\ UNCHANGED <<net, srv, wrong>>

\* No reply: the connection is closed, or the timeout is over.
ReceiveFails ==
  /\ Doing("recv") /\ net[cl.conn].rep = <<>>
  /\ (~Up(cl.conn) /\ UNCHANGED fault) \/ (Up(cl.conn) /\ Fault("slow"))
  /\ cl' = [cl EXCEPT !.todo = <<Op("reconnect", Me, "RESET")>> \o Rest]
  /\ UNCHANGED <<net, srv, wrong>>

Reap(c) == IF c = NoConn THEN net
           ELSE [net EXCEPT ![c] = IF @.served THEN [@ EXCEPT !.open = FALSE, !.rep = <<>>]
                                   ELSE Closed]

\* The instances that get a new peer: m_signal_reconnect.
Everyone == LET seq == CHOOSE q \in [1..Cardinality(cl.live) -> cl.live] :
                         \A a, b \in DOMAIN q : q[a] = q[b] => a = b
            IN [k \in DOMAIN seq |-> Op("create", seq[k], "NEW")]

\* An instance that is being destroyed hears of no reconnect, and still resets
\* itself: with the id of its old peer.
ResetOf(i) == IF i \in cl.live THEN "RESET" ELSE "LAST_RESET"

\* create_connection () closes the old connection first.
close_connection ==
  /\ Doing("reconnect")
  /\ net' = Reap(cl.conn)
  /\ cl' = [cl EXCEPT !.conn = NoConn, !.todo = <<Op("connect", Me, "RESET")>> \o Rest]
  /\ UNCHANGED <<srv, plan, faults, wrong>>

\* (Mutant: the calling instance resets itself before it has its new peer.)
ConnectResetsFirst ==
  /\ Doing("connect")
  /\ \/ ~srv.up /\ cl' = [cl EXCEPT !.todo = Rest] /\ UNCHANGED net
     \/ /\ srv.up /\ srv.wait = NoConn
        /\ \E c \in Conns :
             /\ net[c] = Closed /\ \A d \in 1..(c - 1) : net[d] # Closed
             /\ net' = [net EXCEPT ![c] = [Closed EXCEPT !.open = TRUE, !.served = TRUE]]
             /\ cl' = [cl EXCEPT !.conn = c,
                         !.todo = SelectSeq(Everyone, LAMBDA o : o.i # Me)
                                    \o <<Op("commit", Me, ResetOf(Me))>>
                                    \o SelectSeq(Everyone, LAMBDA o : o.i = Me) \o Rest]
  /\ UNCHANGED <<srv, plan, faults, wrong>>

\* The handshake waits for the server to be free; when it succeeds, reset ()
\* follows.
create_connection ==
  /\ Doing("connect")
  /\ \/ ~srv.up /\ cl' = [cl EXCEPT !.todo = Rest] /\ UNCHANGED net
     \/ /\ srv.up /\ srv.wait = NoConn
        /\ \E c \in Conns :
             /\ net[c] = Closed /\ \A d \in 1..(c - 1) : net[d] # Closed
             /\ net' = [net EXCEPT ![c] = [Closed EXCEPT !.open = TRUE, !.served = TRUE]]
             /\ cl' = [cl EXCEPT !.conn = c,
                         !.todo = Everyone \o <<Op("commit", Me, ResetOf(Me))>> \o Rest]
  /\ UNCHANGED <<srv, plan, faults, wrong>>

\* create_peer_instance
create_peer_instance ==
  /\ Doing("create")
  /\ IF Up(cl.conn)
       THEN /\ net' = Send(cl.conn, Req("NEW", NoPeer, Me))
            /\ cl' = [cl EXCEPT !.todo = <<Op("recv_new", Me, "NEW")>> \o Rest]
       ELSE /\ net' = net
            /\ cl' = [cl EXCEPT !.peer[Me] = NoPeer, !.todo = Rest]
  /\ UNCHANGED <<srv, plan, faults, wrong>>

receive_peer ==
  /\ Doing("recv_new") /\ net[cl.conn].rep # <<>>
  /\ LET r == Head(net[cl.conn].rep)
     IN /\ cl' = [cl EXCEPT !.peer[Me] = IF r.cmd = "NEW" THEN r.siid ELSE NoPeer,
                            !.todo = Rest]
        /\ Note("reply", <<r.cmd, r.who>> # <<"NEW", Me>>)
  /\ net' = Take(cl.conn)
  /\ UNCHANGED <<srv, plan, faults>>

\* A failed creation is not retried, and the connection is kept.
NoPeerCreated ==
  /\ Doing("recv_new") /\ net[cl.conn].rep = <<>>
  /\ (~Up(cl.conn) /\ UNCHANGED fault) \/ (Up(cl.conn) /\ Fault("slow_new"))
  /\ cl' = [cl EXCEPT !.peer[Me] = NoPeer, !.todo = Rest]
  /\ UNCHANGED <<net, srv, wrong>>

-----------------------------------------------------------------------------
(* The server: one thread, one request after the other.                    *)

Free == srv.up /\ srv.wait = NoConn
Reply(n, c, r) == IF n[c].open THEN [n EXCEPT ![c].rep = Append(@, r)] ELSE n
Request(c) == Free /\ net[c].served /\ net[c].req # <<>>
Done(c) == [net EXCEPT ![c].req = Tail(@)]

Served(r) ==
  Note(IF r.cmd = "LAST_RESET" THEN "last reset" ELSE "instance",
       srv.inst[r.siid].for \notin {r.who, Nobody})

\* socket_new_instance: fails when the factory is not there.
socket_new_instance(c) ==
  /\ Request(c) /\ Head(net[c].req).cmd = "NEW"
  /\ LET r == Head(net[c].req)
     IN IF srv.has
          THEN /\ srv.count < MaxSiid
               /\ net' = Reply(Done(c), c, [r EXCEPT !.siid = srv.count])
               /\ srv' = [srv EXCEPT !.count = @ + 1,
                            !.inst[srv.count] = [conn |-> c, for |-> r.who]]
          ELSE net' = Reply(Done(c), c, r) /\ UNCHANGED srv
  /\ UNCHANGED <<cl, plan, faults, wrong>>

\* (Mutant: the reply comes, the instance stays.)
DeleteKeepsInstance(c) ==
  /\ Request(c) /\ Head(net[c].req).cmd = "DEL"
  /\ net' = Reply(Done(c), c, Head(net[c].req))
  /\ Served(Head(net[c].req))
  /\ UNCHANGED <<cl, srv, plan, faults>>

socket_delete_instance(c) ==
  /\ Request(c) /\ Head(net[c].req).cmd = "DEL"
  /\ LET r == Head(net[c].req)
     IN /\ net' = Reply(Done(c), c, r)
        /\ srv' = [srv EXCEPT !.inst[r.siid] = NoInst]
        /\ Served(r)
  /\ UNCHANGED <<cl, plan, faults>>

\* socket_process_key_event ... socket_update_client_capabilities: the instance
\* is looked up, whoever created it; its output goes with the reply.
socket_call_instance(c) ==
  /\ Request(c) /\ Head(net[c].req).cmd \in {"CALL", "RESET", "LAST_RESET"}
  /\ net' = Reply(Done(c), c, Head(net[c].req))
  /\ Served(Head(net[c].req))
  /\ UNCHANGED <<cl, srv, plan, faults>>

\* get_surrounding_text, delete_surrounding_text: the instance asks back in the
\* middle of a call, and the server reads nothing but this client's answer.
get_surrounding_text(c) ==
  /\ Request(c) /\ Head(net[c].req).cmd \in {"CALL", "RESET", "LAST_RESET"}
  /\ srv.inst[Head(net[c].req).siid] # NoInst
  /\ net' = Reply(Done(c), c, Req("TEXT", NoPeer, Nobody))
  /\ srv' = [srv EXCEPT !.wait = c, !.call = Head(net[c].req)]
  /\ Served(Head(net[c].req))
  /\ UNCHANGED <<cl, plan, faults>>

\* The answer, a closed connection or the timeout ends the question.
TextAnswered ==
  LET c == srv.wait
  IN /\ c # NoConn
     /\ \/ net[c].req # <<>> /\ net' = Reply(Done(c), c, srv.call) /\ UNCHANGED fault
        \/ net[c].req = <<>> /\ ~net[c].open /\ UNCHANGED <<net, plan, faults>>
        \/ net[c].req = <<>> /\ net[c].open /\ Fault("slow_text")
           /\ net' = Reply(net, c, srv.call)
     /\ srv' = [srv EXCEPT !.wait = NoConn, !.call = NoCall]
     /\ UNCHANGED <<cl, wrong>>

\* socket_load_file, and what a factory is asked for.
socket_load_file(c) ==
  /\ Request(c) /\ Head(net[c].req).cmd \in {"FILE", "FACTORY"}
  /\ net' = Reply(Done(c), c, Head(net[c].req))
  /\ UNCHANGED <<cl, srv, plan, faults, wrong>>

\* socket_receive_callback replies FAIL to what it does not know, as an answer
\* that comes too late.
UnknownRequest(c) ==
  /\ Request(c) /\ Head(net[c].req).cmd = "TEXT"
  /\ net' = Reply(Done(c), c, Req("FAIL", NoPeer, Nobody))
  /\ UNCHANGED <<cl, srv, plan, faults, wrong>>

\* The client has closed: socket_close_connection, socket_delete_all_instances.
socket_close_connection(c) ==
  /\ Free /\ net[c].served /\ ~net[c].open /\ net[c].req = <<>>
  /\ net' = [net EXCEPT ![c] = Closed]
  /\ srv' = [srv EXCEPT !.inst = [s \in Siids |-> IF @[s].conn = c THEN NoInst ELSE @[s]]]
  /\ UNCHANGED <<cl, plan, faults, wrong>>

\* The server dies, with all its connections; another one counts from 0, and
\* may lack the factory.
Crash ==
  /\ srv.up /\ Fault("crash")
  /\ srv' = [up |-> FALSE, has |-> srv.has, inst |-> [s \in Siids |-> NoInst],
             count |-> 0, wait |-> NoConn, call |-> NoCall]
  /\ net' = [c \in Conns |-> IF net[c].open
                               THEN [net[c] EXCEPT !.req = <<>>, !.served = FALSE] ELSE Closed]
  /\ UNCHANGED <<cl, wrong>>

Restart ==
  /\ ~srv.up
  /\ \/ srv' = [srv EXCEPT !.up = TRUE] /\ UNCHANGED fault
     \/ srv' = [srv EXCEPT !.up = TRUE, !.has = FALSE] /\ Fault("gone")
  /\ UNCHANGED <<cl, net, wrong>>

-----------------------------------------------------------------------------
Client ==
  \/ dead \/ commit_transaction \/ do_transaction
  \/ close_connection \/ create_connection
  \/ create_peer_instance \/ receive_peer \/ load_icon \/ receive_icon
  \/ ReceiveFails \/ NoPeerCreated \/ NoIcon
Server ==
  \/ \E c \in Conns :
       \/ socket_new_instance(c) \/ socket_delete_instance(c) \/ socket_call_instance(c)
       \/ get_surrounding_text(c) \/ socket_load_file(c) \/ UnknownRequest(c)
       \/ socket_close_connection(c)
  \/ TextAnswered

Next ==
  \/ \E i \in Insts : create_instance(i) \/ Call(i) \/ Destroy(i)
  \/ Client \/ Server \/ Crash \/ Restart

\* Both processes run; a call waits no longer than its timeout.
Fairness == WF_vars(Client) /\ WF_vars(Server) /\ WF_vars(Restart)
Spec == Init /\ [][Next]_vars /\ Fairness

-----------------------------------------------------------------------------
(* Properties.                                                             *)

Messages == [cmd : {"NEW", "CALL", "RESET", "LAST_RESET", "DEL", "FILE", "FACTORY",
                    "TEXT", "FAIL", "NONE"},
             siid : Siids \cup {NoPeer}, who : Insts \cup {Nobody}]

\* The client, the connections and the server keep their types, and an instance
\* belongs to a connection the server has not closed.
TypeOK ==
  /\ cl.peer \in [Insts -> Siids \cup {NoPeer}] /\ cl.live \subseteq Insts
  /\ cl.conn \in Conns \cup {NoConn}
  /\ \A c \in Conns : \A r \in {net[c].req[k] : k \in 1..Len(net[c].req)}
                          \cup {net[c].rep[k] : k \in 1..Len(net[c].rep)} : r \in Messages
  /\ srv.count \in 0..MaxSiid /\ plan \cup faults \in Plans
  /\ \A s \in Siids : srv.inst[s] # NoInst => net[srv.inst[s].conn].served

\* No late answer was left on a connection that is used further.
Unshifted == faults \cap KeepsConnection = {}

\* The reply a call, a creation or the loading of an icon takes is its own: no
\* late answer is taken for another, after whatever timeouts of calls, reconnects
\* and questions asked back.  It fails after a late answer to a creation, an icon
\* or a factory's request, or one to the server: the connection is kept then, and
\* the answer taken for that of the next call.
ReplyMatches == Unshifted => "reply" \notin wrong

\* A call reaches the peer of the instance that made it or none, also after the
\* server has restarted and counts its instances from 0 again; but for the reset
\* of an instance that is being destroyed, which has no new peer.
RightInstance == Unshifted => "instance" \notin wrong

\* When no call is under way and the server has nothing left to do, its
\* instances are exactly the peers of the client's: none is leaked or lost.
PeersExact ==
  /\ cl.todo = <<>> /\ Up(cl.conn) /\ Free
  /\ \A c \in Conns : c # cl.conn => ~net[c].served
  /\ Unshifted
  => \A s \in Siids : \A i \in Insts :
       (srv.inst[s].for = i) <=> (i \in cl.live /\ cl.peer[i] = s)

\* Every call returns, with its own reply or another's, when each fault happens once
\* at most; unless the factory is gone: then, as with a server that is too slow for
\* ever, commit_transaction () and reset () call one another without end.
CallReturns == (cl.todo # <<>>) ~> (cl.todo = <<>> \/ "gone" \in faults)
=============================================================================
