------------------------- MODULE SocketEngineProofs -------------------------
(***************************************************************************)
(* Proofs about SocketEngine, for any number of instances, instance ids    *)
(* and connections and any faults: the reply a call takes is its own, a    *)
(* call reaches the peer of the instance that made it, and the peers of a  *)
(* client at rest are exactly the server's instances.                      *)
(***************************************************************************)
EXTENDS SocketEngine, FiniteSetTheorems, SequenceTheorems, TLAPS

Cmds == {"NEW", "CALL", "RESET", "LAST_RESET", "DEL", "FILE", "FACTORY", "TEXT", "FAIL", "NONE"}
Steps == {"create", "recv_new", "commit", "recv", "icon", "recv_icon", "reconnect",
          "connect", "dead"}
Ops == [f : Steps, i : Insts, cmd : Cmds]
Wires == [req : Seq(Messages), rep : Seq(Messages), open : BOOLEAN, served : BOOLEAN]
Engines == [conn : Conns \cup {NoConn}, for : Insts \cup {Nobody}]
Clients == [peer : [Insts -> Siids \cup {NoPeer}], live : SUBSET Insts,
            conn : Conns \cup {NoConn}, todo : Seq(Ops)]
Servers == [up : BOOLEAN, has : BOOLEAN, inst : [Siids -> Engines],
            count : 0..MaxSiid, wait : Conns \cup {NoConn}, call : Messages]

\* The variables have the shape of their initial values.
Typed ==
  /\ cl \in Clients /\ net \in [Conns -> Wires] /\ srv \in Servers
  /\ plan \cup faults \in Plans

\* What the client is about to do.
NoOp == Op("none", Nobody, "NONE")
NowOf(t) == IF t = <<>> THEN NoOp ELSE Head(t)
Now == NowOf(cl.todo)
Making == {"create", "recv_new"}
Expecting == {"recv", "recv_new", "recv_icon"}
PendIn(t, i) == \E k \in 1..Len(t) : t[k].f = "create" /\ t[k].i = i
Pending(i) == PendIn(cl.todo, i)

\* A call is one of an instance that lives; only the deletion and the last
\* reset are those of one that is being destroyed.
OpOK(o, live) ==
  /\ o.f \in Making => o.cmd = "NEW" /\ o.i \in live
  /\ o.f \in {"commit", "recv"} =>
       \/ o.cmd \in {"CALL", "RESET"} /\ o.i \in live
       \/ o.cmd \in {"DEL", "LAST_RESET"} /\ o.i \notin live
  /\ o.f \in {"icon", "recv_icon"} => o.cmd = "FILE"
  /\ o.f = "dead" => o.i \notin live

\* New peers are made first, one for each instance; then comes the call.
InOrder(a, b) ==
  /\ b.f \in {"create", "commit", "dead"}
  /\ a.f \notin Making => b.f = "dead"
  /\ b.f = "create" => a.i # b.i
  /\ b.f = "commit" => b.cmd # "DEL"

PlanOK(t, live) ==
  /\ \A k \in 1..Len(t) : OpOK(t[k], live)
  /\ \A j, k \in 1..Len(t) : j < k => InOrder(t[j], t[k])

Planned == PlanOK(cl.todo, cl.live)

\* The client keeps open the connection it uses and no other; what is closed at
\* an end carries nothing to it; an instance is that of a served connection.
Cables ==
  /\ Now.f \in Expecting => cl.conn # NoConn
  /\ Now.f = "connect" => cl.conn = NoConn
  /\ \A c \in Conns : (c = cl.conn) <=> net[c].open
  /\ \A c \in Conns : ~net[c].open => net[c].rep = <<>>
  /\ \A c \in Conns : ~net[c].served => net[c].req = <<>>
  /\ srv.wait # NoConn => net[srv.wait].served
  /\ ~srv.up => \A c \in Conns : ~net[c].served
  /\ \A s \in Siids : srv.inst[s] # NoInst =>
       /\ s < srv.count /\ srv.inst[s].conn \in Conns
       /\ net[srv.inst[s].conn].served

Quiet == faults \cap KeepsConnection = {}

\* A blocked call and what is on its connection: its request, its reply, or
\* the server's question about it or the answer; nothing else.
Key(r) == <<r.cmd, r.who>>
Want == <<Now.cmd, Now.i>>
Text == Req("TEXT", NoPeer, Nobody)
Silent(c) == net[c].req = <<>> /\ net[c].rep = <<>> /\ srv.wait # c
Asked(c) == /\ net[c].rep = <<>> /\ srv.wait # c
            /\ \E r \in Messages : net[c].req = <<r>> /\ Key(r) = Want
Replied(c) == /\ net[c].req = <<>> /\ srv.wait # c
              /\ \E r \in Messages : net[c].rep = <<r>> /\ Key(r) = Want
Asking(c) == /\ net[c].rep = <<Text>> /\ net[c].req = <<>>
             /\ Now.f = "recv" /\ srv.wait = c /\ Key(srv.call) = Want
Answered(c) == /\ net[c].req = <<Text>> /\ net[c].rep = <<>>
               /\ Now.f = "recv" /\ srv.wait = c /\ Key(srv.call) = Want
Lost(c) == /\ ~net[c].served /\ srv.wait # c
           /\ net[c].rep = <<>> \/ (net[c].rep = <<Text>> /\ Now.f = "recv")
Paired ==
  /\ Now.f \in Expecting =>
       \/ Asked(cl.conn) \/ Replied(cl.conn) \/ Asking(cl.conn)
       \/ Answered(cl.conn) \/ Lost(cl.conn)
  /\ Now.f \notin Expecting \cup {"reconnect"} /\ cl.conn # NoConn => Silent(cl.conn)

\* A request that has been sent names an instance its sender has on this
\* connection, or one that is no more; but for the last reset.
AddressOK(c, r) ==
  /\ r.cmd = "NEW" => r.siid = NoPeer /\ r.who \in Insts
  /\ r.cmd \in {"CALL", "RESET", "DEL"} =>
       /\ r.siid < srv.count
       /\ srv.inst[r.siid] \in {NoInst, [conn |-> c, for |-> r.who]}
  /\ r.cmd \in {"CALL", "RESET", "DEL", "LAST_RESET"} => r.siid # NoPeer
Addressed == \A c \in Conns : \A k \in 1..Len(net[c].req) : AddressOK(c, net[c].req[k])

\* The server's instances on the client's connection, and what the client and
\* the messages under way say they are.
Owned(i) == {s \in Siids : srv.inst[s] = [conn |-> cl.conn, for |-> i]}
Siid(q) == IF q = <<>> THEN {} ELSE {Head(q).siid} \cap Siids
Deleting(i, f) == Now.f = f /\ Now.cmd = "DEL" /\ Now.i = i
Expected(i) ==
  IF Now.f = "recv_new" /\ Now.i = i THEN Siid(net[cl.conn].rep)
  ELSE IF Pending(i) THEN {}
  ELSE IF i \in cl.live \/ Deleting(i, "commit") THEN {cl.peer[i]} \cap Siids
  ELSE IF Deleting(i, "recv") THEN Siid(net[cl.conn].req)
  ELSE {}
Exact == Up(cl.conn) /\ Now.f # "reconnect" => \A i \in Insts : Owned(i) = Expected(i)

NoneWrong == "reply" \notin wrong /\ "instance" \notin wrong
Right == Paired /\ Addressed /\ Exact /\ NoneWrong

Inv == Typed /\ Planned /\ Cables /\ (Quiet => Right)

-----------------------------------------------------------------------------
(* What is left to do.                                                     *)


\* The first element and the others of a sequence.
LEMMA SeqSplit ==
  ASSUME NEW S, NEW t \in Seq(S), t # <<>>
  PROVE  /\ Len(t) \in Nat \ {0} /\ Head(t) = t[1] /\ Head(t) \in S
         /\ Tail(t) \in Seq(S) /\ Len(Tail(t)) = Len(t) - 1
         /\ \A k \in 1..Len(Tail(t)) : Tail(t)[k] = t[k + 1] /\ t[k + 1] \in S
<1>1. Len(t) \in Nat \ {0} /\ Tail(t) \in Seq(S) /\ Len(Tail(t)) = Len(t) - 1
  OBVIOUS
<1>2. Head(t) = t[1] /\ Head(t) \in S
  OBVIOUS
<1>3. \A k \in 1..Len(Tail(t)) : Tail(t)[k] = t[k + 1] /\ t[k + 1] \in S
  OBVIOUS
<1> QED
  BY <1>1, <1>2, <1>3

\* Replacing the first element.
LEMMA SwapSplit ==
  ASSUME NEW S, NEW t \in Seq(S), t # <<>>, NEW o \in S
  PROVE  /\ <<o>> \o Tail(t) \in Seq(S) /\ <<o>> \o Tail(t) # <<>>
         /\ Len(<<o>> \o Tail(t)) = Len(t) /\ Head(<<o>> \o Tail(t)) = o
         /\ (<<o>> \o Tail(t))[1] = o
         /\ \A k \in 2..Len(t) : (<<o>> \o Tail(t))[k] = t[k]
<1>1. /\ Len(t) \in Nat \ {0} /\ Tail(t) \in Seq(S) /\ Len(Tail(t)) = Len(t) - 1
      /\ \A k \in 1..Len(Tail(t)) : Tail(t)[k] = t[k + 1]
  BY SeqSplit
<1>2. <<o>> \in Seq(S) /\ Len(<<o>>) = 1 /\ <<o>>[1] = o
  OBVIOUS
<1> DEFINE u == Tail(t)
<1> HIDE DEF u
<1>3. u \in Seq(S) /\ Len(u) = Len(t) - 1
  BY <1>1 DEF u
<1>4. /\ <<o>> \o u \in Seq(S) /\ Len(<<o>> \o u) = Len(t)
      /\ (<<o>> \o u)[1] = o
      /\ \A k \in 2..Len(t) : (<<o>> \o u)[k] = u[k - 1]
  <2> DEFINE a == <<o>>
  <2>1. a \in Seq(S) /\ Len(a) = 1 /\ a[1] = o
    BY <1>2
  <2> HIDE DEF a
  <2>2. /\ Len(a \o u) = Len(a) + Len(u) /\ a \o u \in Seq(S)
        /\ \A i \in 1..Len(a) + Len(u) :
             (a \o u)[i] = IF i <= Len(a) THEN a[i] ELSE u[i - Len(a)]
    BY <1>3, <2>1, ConcatProperties
  <2>3. \A k \in 2..Len(t) : (a \o u)[k] = u[k - 1]
    BY <1>1, <1>3, <2>1, <2>2
  <2>4. (a \o u)[1] = o
    BY <1>1, <1>3, <2>1, <2>2
  <2>5. Len(a \o u) = Len(t)
    BY <1>1, <1>3, <2>1, <2>2
  <2> QED
    BY <2>2, <2>3, <2>4, <2>5 DEF a
<1>5. \A k \in 2..Len(t) : u[k - 1] = t[k]
  <2> SUFFICES ASSUME NEW k \in 2..Len(t) PROVE u[k - 1] = t[k]
    OBVIOUS
  <2>1. k - 1 \in 1..Len(u) /\ (k - 1) + 1 = k
    BY <1>1, <1>3
  <2> QED
    BY <1>1, <2>1 DEF u
<1>6. <<o>> \o u # <<>>
  BY <1>1, <1>4
<1>7. Head(<<o>> \o u) = o
  BY <1>4, <1>6
<1> QED
  BY <1>4, <1>5, <1>6, <1>7 DEF u

\* What follows keeps its order when the first operation is done.
LEMMA TailPlan ==
  ASSUME NEW live, NEW t \in Seq(Ops), t # <<>>, PlanOK(t, live)
  PROVE  /\ Tail(t) \in Seq(Ops) /\ PlanOK(Tail(t), live)
         /\ ~PendIn(Tail(t), Head(t).i)
         /\ \A i : Head(t).f # "create" => (PendIn(Tail(t), i) <=> PendIn(t, i))
<1>1. /\ Len(t) \in Nat \ {0} /\ Tail(t) \in Seq(Ops) /\ Len(Tail(t)) = Len(t) - 1
      /\ Head(t) = t[1]
      /\ \A k \in 1..Len(Tail(t)) : Tail(t)[k] = t[k + 1]
  BY SeqSplit
<1> DEFINE u == Tail(t)
<1>2. Len(u) = Len(t) - 1 /\ \A k \in 1..Len(u) : u[k] = t[k + 1]
  BY <1>1
<1> HIDE DEF u
<1>3. \A k \in 1..Len(u) : OpOK(u[k], live)
  <2> SUFFICES ASSUME NEW k \in 1..Len(u) PROVE OpOK(u[k], live)
    OBVIOUS
  <2>1. k + 1 \in 1..Len(t)
    BY <1>1, <1>2
  <2> QED
    BY <1>2, <2>1 DEF PlanOK
<1>4. \A j, k \in 1..Len(u) : j < k => InOrder(u[j], u[k])
  <2> SUFFICES ASSUME NEW j \in 1..Len(u), NEW k \in 1..Len(u), j < k
               PROVE  InOrder(u[j], u[k])
    OBVIOUS
  <2>1. j + 1 \in 1..Len(t) /\ k + 1 \in 1..Len(t) /\ j + 1 < k + 1
    BY <1>1, <1>2
  <2>2. InOrder(t[j + 1], t[k + 1])
    BY <2>1 DEF PlanOK
  <2> QED
    BY <1>2, <2>2
<1>5. ASSUME Head(t).f # "create", NEW i PROVE PendIn(u, i) <=> PendIn(t, i)
  <2>1. ASSUME PendIn(u, i) PROVE PendIn(t, i)
    <3>1. PICK k \in 1..Len(u) : u[k].f = "create" /\ u[k].i = i
      BY <2>1 DEF PendIn
    <3>2. k + 1 \in 1..Len(t) /\ u[k] = t[k + 1]
      BY <1>1, <1>2
    <3> QED
      BY <3>1, <3>2 DEF PendIn
  <2>2. ASSUME PendIn(t, i) PROVE PendIn(u, i)
    <3>1. PICK k \in 1..Len(t) : t[k].f = "create" /\ t[k].i = i
      BY <2>2 DEF PendIn
    <3>2. k # 1
      BY <1>1, <1>5, <3>1
    <3>3. k - 1 \in 1..Len(u) /\ (k - 1) + 1 = k
      BY <1>1, <1>2, <3>2
    <3> QED
      BY <1>2, <3>1, <3>3 DEF PendIn
  <2> QED
    BY <2>1, <2>2
<1>6. ASSUME PendIn(u, Head(t).i) PROVE FALSE
  <2>1. PICK k \in 1..Len(u) : u[k].f = "create" /\ u[k].i = Head(t).i
    BY <1>6 DEF PendIn
  <2>2. 1 \in 1..Len(t) /\ k + 1 \in 1..Len(t) /\ 1 < k + 1
    BY <1>1, <1>2
  <2>3. InOrder(t[1], t[k + 1])
    BY <2>2 DEF PlanOK
  <2> QED
    BY <1>1, <1>2, <2>1, <2>3 DEF InOrder
<1> QED
  BY <1>1, <1>3, <1>4, <1>5, <1>6 DEF PlanOK, u

\* An operation gives way to the next step of the same one.
LEMMA SwapPlan ==
  ASSUME NEW live, NEW t \in Seq(Ops), t # <<>>, PlanOK(t, live),
         NEW o \in Ops, OpOK(o, live), o.i = Head(t).i,
         o.f \notin Making => Head(t).f \notin Making
  PROVE  PlanOK(<<o>> \o Tail(t), live)
<1> DEFINE u == <<o>> \o Tail(t)
<1>1. /\ Len(t) \in Nat \ {0} /\ Len(u) = Len(t) /\ u[1] = o
      /\ \A k \in 2..Len(t) : u[k] = t[k]
      /\ Head(t) = t[1]
  BY SeqSplit, SwapSplit
<1> HIDE DEF u
<1>2. \A k \in 1..Len(u) : OpOK(u[k], live)
  <2> SUFFICES ASSUME NEW k \in 1..Len(u) PROVE OpOK(u[k], live)
    OBVIOUS
  <2>1. CASE k = 1
    BY <1>1, <2>1
  <2>2. CASE k # 1
    BY <1>1, <2>2 DEF PlanOK
  <2> QED
    BY <2>1, <2>2
<1>3. \A j, k \in 1..Len(u) : j < k => InOrder(u[j], u[k])
  <2> SUFFICES ASSUME NEW j \in 1..Len(u), NEW k \in 1..Len(u), j < k
               PROVE  InOrder(u[j], u[k])
    OBVIOUS
  <2>1. k \in 2..Len(t) /\ j \in 1..Len(t) /\ k \in 1..Len(t)
    BY <1>1
  <2>2. InOrder(t[j], t[k]) /\ u[k] = t[k]
    BY <1>1, <2>1 DEF PlanOK
  <2>3. CASE j = 1
    BY <1>1, <2>2, <2>3 DEF InOrder
  <2>4. CASE j # 1
    BY <1>1, <2>1, <2>2, <2>4
  <2> QED
    BY <2>3, <2>4
<1> QED
  BY <1>2, <1>3 DEF PlanOK, u

\* New peers that are still to be made after the first operation.
LEMMA SwapPending ==
  ASSUME NEW live, NEW t \in Seq(Ops), t # <<>>, PlanOK(t, live),
         NEW o \in Ops, o.f # "create", NEW i
  PROVE  PendIn(<<o>> \o Tail(t), i)
           <=> PendIn(t, i) /\ (Head(t).f = "create" => Head(t).i # i)
<1> DEFINE u == <<o>> \o Tail(t)
<1>1. /\ Len(t) \in Nat \ {0} /\ Len(u) = Len(t) /\ u[1] = o
      /\ \A k \in 2..Len(t) : u[k] = t[k]
      /\ Head(t) = t[1]
  BY SeqSplit, SwapSplit
<1> HIDE DEF u
<1>2. ASSUME PendIn(u, i)
      PROVE  PendIn(t, i) /\ (Head(t).f = "create" => Head(t).i # i)
  <2>1. PICK k \in 1..Len(u) : u[k].f = "create" /\ u[k].i = i
    BY <1>2 DEF PendIn
  <2>2. k # 1
    BY <1>1, <2>1
  <2>3. k \in 2..Len(t) /\ 1 \in 1..Len(t) /\ k \in 1..Len(t) /\ 1 < k
    BY <1>1, <2>2
  <2>4. u[k] = t[k] /\ InOrder(t[1], t[k])
    BY <1>1, <2>3 DEF PlanOK
  <2> QED
    BY <1>1, <2>1, <2>3, <2>4 DEF PendIn, InOrder
<1>3. ASSUME PendIn(t, i), Head(t).f = "create" => Head(t).i # i
      PROVE  PendIn(u, i)
  <2>1. PICK k \in 1..Len(t) : t[k].f = "create" /\ t[k].i = i
    BY <1>3 DEF PendIn
  <2>2. k # 1
    BY <1>1, <1>3, <2>1
  <2>3. k \in 2..Len(t) /\ k \in 1..Len(u)
    BY <1>1, <2>2
  <2> QED
    BY <1>1, <2>1, <2>3 DEF PendIn
<1> QED
  BY <1>2, <1>3 DEF u

\* Once the call itself has begun no more peers are made.
LEMMA NonePending ==
  ASSUME NEW live, NEW t \in Seq(Ops), PlanOK(t, live), NowOf(t).f \notin Making, NEW i
  PROVE  ~PendIn(t, i)
<1>1. SUFFICES ASSUME NEW k \in 1..Len(t), t[k].f = "create" PROVE FALSE
  BY DEF PendIn
<1>2. t # <<>> /\ Len(t) \in Nat
  BY <1>1
<1>3. NowOf(t) = t[1] /\ Len(t) \in Nat \ {0}
  BY <1>2, SeqSplit DEF NowOf
<1>4. k # 1
  BY <1>1, <1>3 DEF Making
<1>5. 1 \in 1..Len(t) /\ 1 < k
  BY <1>3, <1>4
<1>6. InOrder(t[1], t[k])
  BY <1>5 DEF PlanOK
<1> QED
  BY <1>1, <1>3, <1>6 DEF InOrder

\* Every instance that hears of a reconnect gets one new peer.
LEMMA EveryoneOnce ==
  ASSUME Typed
  PROVE  /\ Everyone \in Seq(Ops)
         /\ \A k \in 1..Len(Everyone) :
              Everyone[k].f = "create" /\ Everyone[k].cmd = "NEW" /\ Everyone[k].i \in cl.live
         /\ \A j, k \in 1..Len(Everyone) : j < k => Everyone[j].i # Everyone[k].i
         /\ \A i \in cl.live : \E k \in 1..Len(Everyone) : Everyone[k].i = i
<1> DEFINE n == Cardinality(cl.live)
           OneEach(q) == \A a, b \in DOMAIN q : q[a] = q[b] => a = b
           seq == CHOOSE q \in [1..n -> cl.live] : OneEach(q)
           E == [k \in DOMAIN seq |-> Op("create", seq[k], "NEW")]
<1>1. cl.live \in SUBSET Insts
  BY DEF Typed, Clients
<1>2. IsFiniteSet(cl.live)
  BY <1>1, EngineAssumption, FS_Subset
<1>3. n \in Nat /\ ExistsBijection(1..n, cl.live)
  BY <1>2, FS_CardinalityType
<1>4. PICK g : g \in Bijection(1..n, cl.live)
  BY <1>3 DEF ExistsBijection
<1>5. g \in [1..n -> cl.live] /\ OneEach(g)
  BY <1>4 DEF Bijection, Injection, IsInjective
<1>6. seq \in [1..n -> cl.live] /\ OneEach(seq)
  BY <1>5
<1>7. Everyone = E
  BY DEF Everyone
<1> HIDE DEF seq, n
<1>8. seq \in Injection(1..n, cl.live)
  BY <1>6 DEF Injection, IsInjective
<1>9. IsFiniteSet(1..n) /\ Cardinality(1..n) = n
  BY <1>3, FS_Interval
<1>10. seq \in Surjection(1..n, cl.live)
  BY <1>2, <1>8, <1>9, FS_Injection DEF n
<1>11. \A i \in cl.live : \E k \in 1..n : seq[k] = i
  BY <1>10 DEF Surjection
<1>12. \A k \in 1..n : Op("create", seq[k], "NEW") \in Ops
  BY <1>1, <1>6 DEF Op, Ops, Steps, Cmds
<1>13. E \in Seq(Ops) /\ Len(E) = n /\ \A k \in 1..n : E[k] = Op("create", seq[k], "NEW")
  BY <1>3, <1>6, <1>12
<1> HIDE DEF E
<1>14. \A k \in 1..Len(E) : E[k].f = "create" /\ E[k].cmd = "NEW" /\ E[k].i \in cl.live
  BY <1>6, <1>13 DEF Op
<1>15. \A j, k \in 1..Len(E) : j < k => E[j].i # E[k].i
  <2> SUFFICES ASSUME NEW j \in 1..Len(E), NEW k \in 1..Len(E), j < k, E[j].i = E[k].i
               PROVE  FALSE
    OBVIOUS
  <2>1. seq[j] = seq[k]
    BY <1>13 DEF Op
  <2>2. j \in DOMAIN seq /\ k \in DOMAIN seq
    BY <1>6, <1>13
  <2>3. j = k
    BY <1>6, <2>1, <2>2
  <2> QED
    BY <1>13, <1>3, <2>3
<1>16. \A i \in cl.live : \E k \in 1..Len(E) : E[k].i = i
  BY <1>11, <1>13 DEF Op
<1> QED
  BY <1>7, <1>13, <1>14, <1>15, <1>16

\* After a reconnect everyone's new peer comes first, then the reset.
LEMMA ConnectPlan ==
  ASSUME Typed, Planned, Now.f = "connect",
         NEW o \in Ops, o.f = "commit", o.cmd # "DEL", OpOK(o, cl.live)
  PROVE  LET t == Everyone \o <<o>> \o Rest
         IN  /\ t \in Seq(Ops) /\ t # <<>> /\ PlanOK(t, cl.live)
             /\ \A i \in cl.live : PendIn(t, i)
             /\ Head(t).f \in {"create", "commit"}
             /\ Head(t).f = "commit" => Head(t) = o
<1> DEFINE E == Everyone
           n == Len(E)
           u == <<o>> \o Rest
           t == E \o u
<1>1. /\ E \in Seq(Ops) /\ n \in Nat
      /\ \A k \in 1..n : E[k].f = "create" /\ E[k].cmd = "NEW" /\ E[k].i \in cl.live
      /\ \A j, k \in 1..n : j < k => E[j].i # E[k].i
      /\ \A i \in cl.live : \E k \in 1..n : E[k].i = i
  BY EveryoneOnce
<1>2. cl.todo \in Seq(Ops) /\ cl.todo # <<>> /\ Now = Head(cl.todo)
  BY DEF Typed, Clients, Now, NowOf, NoOp, Op
<1>3. /\ u \in Seq(Ops) /\ Len(u) \in Nat \ {0} /\ u[1] = o
      /\ Len(u) = Len(cl.todo) /\ \A k \in 2..Len(u) : u[k] = cl.todo[k]
  BY <1>2, SwapSplit, SeqSplit DEF Rest
<1>4. \A k \in 2..Len(u) : u[k].f = "dead" /\ OpOK(u[k], cl.live)
  <2> SUFFICES ASSUME NEW k \in 2..Len(u) PROVE u[k].f = "dead" /\ OpOK(u[k], cl.live)
    OBVIOUS
  <2>1. 1 \in 1..Len(cl.todo) /\ k \in 1..Len(cl.todo) /\ 1 < k
    BY <1>3
  <2>2. InOrder(cl.todo[1], cl.todo[k]) /\ cl.todo[1] = Now /\ OpOK(cl.todo[k], cl.live)
    BY <1>2, <2>1, SeqSplit DEF Planned, PlanOK
  <2> QED
    BY <1>3, <2>2 DEF InOrder, Making
<1>5. (E \o <<o>>) \o Rest = t
  <2>1. <<o>> \in Seq(Ops) /\ Rest \in Seq(Ops)
    BY <1>2, SeqSplit DEF Rest
  <2> QED
    BY <1>1, <2>1, ConcatAssociative
<1> HIDE DEF u, n, E
<1>6. /\ t \in Seq(Ops) /\ Len(t) = n + Len(u)
      /\ \A k \in 1..n + Len(u) : t[k] = IF k <= n THEN E[k] ELSE u[k - n]
  <2>1. /\ E \o u \in Seq(Ops) /\ Len(E \o u) = Len(E) + Len(u)
        /\ \A k \in 1..Len(E) + Len(u) : (E \o u)[k] = IF k <= Len(E) THEN E[k] ELSE u[k - Len(E)]
    <3>1. E \in Seq(Ops) /\ u \in Seq(Ops)
      BY <1>1, <1>3
    <3> HIDE DEF t
    <3> QED
      BY <3>1, ConcatProperties
  <2> QED
    BY <2>1 DEF n
<1> HIDE DEF t
<1>7. \A k \in 1..Len(t) :
        \/ k \in 1..n /\ t[k] = E[k]
        \/ k = n + 1 /\ t[k] = o
        \/ k > n + 1 /\ t[k].f = "dead" /\ OpOK(t[k], cl.live)
  <2> SUFFICES ASSUME NEW k \in 1..Len(t)
               PROVE  \/ k \in 1..n /\ t[k] = E[k]
                      \/ k = n + 1 /\ t[k] = o
                      \/ k > n + 1 /\ t[k].f = "dead" /\ OpOK(t[k], cl.live)
    OBVIOUS
  <2>1. CASE k <= n
    BY <1>1, <1>3, <1>6, <2>1
  <2>2. CASE k = n + 1
    <3>1. t[k] = u[k - n] /\ k - n = 1
      BY <1>1, <1>3, <1>6, <2>2
    <3> QED
      BY <1>3, <2>2, <3>1
  <2>3. CASE k > n + 1
    <3>1. t[k] = u[k - n] /\ k - n \in 2..Len(u)
      BY <1>1, <1>3, <1>6, <2>3
    <3> QED
      BY <1>4, <2>3, <3>1
  <2> QED
    BY <1>1, <1>3, <1>6, <2>1, <2>2, <2>3
<1>8. \A k \in 1..Len(t) : OpOK(t[k], cl.live)
  <2> SUFFICES ASSUME NEW k \in 1..Len(t) PROVE OpOK(t[k], cl.live)
    OBVIOUS
  <2>1. CASE k \in 1..n /\ t[k] = E[k]
    BY <1>1, <2>1 DEF OpOK, Making
  <2>2. CASE t[k] = o
    BY <2>2
  <2>3. CASE OpOK(t[k], cl.live)
    BY <2>3
  <2> QED
    BY <1>7, <2>1, <2>2, <2>3
<1>9. \A j, k \in 1..Len(t) : j < k => InOrder(t[j], t[k])
  <2> SUFFICES ASSUME NEW j \in 1..Len(t), NEW k \in 1..Len(t), j < k
               PROVE  InOrder(t[j], t[k])
    OBVIOUS
  <2>1. CASE k \in 1..n /\ t[k] = E[k]
    <3>1. j \in 1..n /\ t[j] = E[j]
      BY <1>1, <1>3, <1>6, <1>7, <2>1
    <3>2. /\ E[j].f = "create" /\ E[k].f = "create"
          /\ E[j].i # E[k].i
      BY <1>1, <2>1, <3>1
    <3> QED
      BY <2>1, <3>1, <3>2 DEF InOrder, Making
  <2>2. CASE k = n + 1 /\ t[k] = o
    <3>1. j \in 1..n /\ t[j] = E[j]
      BY <1>1, <1>3, <1>6, <1>7, <2>2
    <3>2. t[j].f = "create"
      BY <1>1, <3>1
    <3>3. t[k].f = "commit" /\ t[k].cmd # "DEL"
      BY <2>2
    <3> QED
      BY <3>2, <3>3 DEF InOrder, Making
  <2>3. CASE t[k].f = "dead"
    BY <2>3 DEF InOrder
  <2> QED
    BY <1>7, <2>1, <2>2, <2>3
<1>10. \A i \in cl.live : PendIn(t, i)
  <2> SUFFICES ASSUME NEW i \in cl.live PROVE PendIn(t, i)
    OBVIOUS
  <2>1. PICK k \in 1..n : E[k].i = i
    BY <1>1
  <2>2. k \in 1..Len(t) /\ t[k] = E[k]
    <3> DEFINE a == Len(u)
               b == Len(t)
    <3>1. n \in Nat /\ a \in Nat /\ b = n + a
      BY <1>1, <1>3, <1>6
    <3> HIDE DEF a, b
    <3>2. k \in 1..b /\ k \in 1..n + a /\ k <= n
      BY <3>1
    <3> QED
      BY <1>6, <3>2 DEF a, b
  <2>3. E[k].f = "create"
    BY <1>1, <2>1
  <2> QED
    BY <2>1, <2>2, <2>3 DEF PendIn
<1>11. t # <<>> /\ Head(t) = t[1] /\ 1 \in 1..Len(t)
  BY <1>1, <1>3, <1>6
<1>12. Head(t).f \in {"create", "commit"} /\ (Head(t).f = "commit" => Head(t) = o)
  <2>1. CASE n = 0
    BY <1>3, <1>6, <1>11, <2>1
  <2>2. CASE n # 0
    <3>1. Head(t) = E[1] /\ 1 \in 1..n
      BY <1>1, <1>6, <1>11, <2>2
    <3> QED
      BY <1>1, <3>1
  <2> QED
    BY <2>1, <2>2
<1>13. t = Everyone \o <<o>> \o Rest
  BY <1>5 DEF t, E, u
<1> QED
  BY <1>6, <1>8, <1>9, <1>10, <1>11, <1>12, <1>13 DEF PlanOK

-----------------------------------------------------------------------------
(* What the operations on connections do to one, and only to it.           *)

Wired(n, c, rq, rp, op, sv) ==
  /\ n \in [Conns -> Wires]
  /\ n[c].req = rq /\ n[c].rep = rp /\ n[c].open = op /\ n[c].served = sv
  /\ \A d \in Conns : d # c => n[d] = net[d]

\* The constants that stand for messages and connections have their types.
LEMMA ConstantTypes ==
  /\ Closed \in Wires /\ NoInst \in Engines
  /\ NoCall \in Messages /\ Text \in Messages /\ Req("FAIL", NoPeer, Nobody) \in Messages
  /\ \A cmd \in Cmds, s \in Siids \cup {NoPeer}, i \in Insts : Req(cmd, s, i) \in Messages
  /\ \A f \in Steps, i \in Insts, cmd \in Cmds : Op(f, i, cmd) \in Ops
<1>1. <<>> \in Seq(Messages)
  OBVIOUS
<1>2. Closed \in Wires /\ NoInst \in Engines
  BY <1>1 DEF Closed, Wires, NoInst, Engines
<1> QED
  BY <1>2 DEF NoCall, Text, Req, Messages, Cmds, Op, Ops

\* Sending a request.
LEMMA SendWired ==
  ASSUME net \in [Conns -> Wires], NEW c \in Conns, NEW r \in Messages
  PROVE  Wired(Send(c, r), c, Append(net[c].req, r), net[c].rep, net[c].open, net[c].served)
<1>1. net[c] \in Wires
  OBVIOUS
<1>2. Append(net[c].req, r) \in Seq(Messages)
  BY <1>1 DEF Wires
<1> DEFINE w == [net[c] EXCEPT !.req = Append(net[c].req, r)]
<1>3. w \in Wires
  BY <1>1, <1>2 DEF Wires
<1>4. /\ w.req = Append(net[c].req, r) /\ w.rep = net[c].rep
      /\ w.open = net[c].open /\ w.served = net[c].served
  BY <1>1 DEF Wires
<1>5. Send(c, r) = [net EXCEPT ![c] = w]
  BY DEF Send
<1> HIDE DEF w
<1> QED
  BY <1>3, <1>4, <1>5 DEF Wired

\* Taking a reply.
LEMMA TakeWired ==
  ASSUME net \in [Conns -> Wires], NEW c \in Conns, net[c].rep # <<>>
  PROVE  Wired(Take(c), c, net[c].req, Tail(net[c].rep), net[c].open, net[c].served)
<1>1. net[c] \in Wires
  OBVIOUS
<1>2. Tail(net[c].rep) \in Seq(Messages)
  BY <1>1 DEF Wires
<1> DEFINE w == [net[c] EXCEPT !.rep = Tail(net[c].rep)]
<1>3. w \in Wires
  BY <1>1, <1>2 DEF Wires
<1>4. /\ w.req = net[c].req /\ w.rep = Tail(net[c].rep)
      /\ w.open = net[c].open /\ w.served = net[c].served
  BY <1>1 DEF Wires
<1>5. Take(c) = [net EXCEPT ![c] = w]
  BY DEF Take
<1> HIDE DEF w
<1> QED
  BY <1>3, <1>4, <1>5 DEF Wired

\* Taking a question and sending the answer.
LEMMA AnswerWired ==
  ASSUME net \in [Conns -> Wires], NEW c \in Conns, net[c].rep # <<>>, NEW r \in Messages
  PROVE  Wired([Take(c) EXCEPT ![c].req = Append(@, r)], c,
               Append(net[c].req, r), Tail(net[c].rep), net[c].open, net[c].served)
<1>1. Wired(Take(c), c, net[c].req, Tail(net[c].rep), net[c].open, net[c].served)
  BY TakeWired
<1> DEFINE n == Take(c)
           w == [n[c] EXCEPT !.req = Append(n[c].req, r)]
<1>2. n \in [Conns -> Wires] /\ n[c] \in Wires
  BY <1>1 DEF Wired
<1>3. Append(n[c].req, r) \in Seq(Messages)
  BY <1>2 DEF Wires
<1>4. w \in Wires
  BY <1>2, <1>3 DEF Wires
<1>5. /\ w.req = Append(n[c].req, r) /\ w.rep = n[c].rep
      /\ w.open = n[c].open /\ w.served = n[c].served
  BY <1>2 DEF Wires
<1>6. [Take(c) EXCEPT ![c].req = Append(@, r)] = [n EXCEPT ![c] = w]
  OBVIOUS
<1> HIDE DEF w, n
<1>7. [n EXCEPT ![c] = w] \in [Conns -> Wires] /\ [n EXCEPT ![c] = w][c] = w
  BY <1>2, <1>4
<1>8. \A d \in Conns : d # c => [n EXCEPT ![c] = w][d] = n[d]
  BY <1>2
<1> QED
  BY <1>1, <1>5, <1>6, <1>7, <1>8 DEF Wired, n

\* A request is taken, and answered if the client is still there.
LEMMA ReplyWired ==
  ASSUME net \in [Conns -> Wires], NEW c \in Conns, net[c].req # <<>>, NEW r \in Messages
  PROVE  Wired(Reply(Done(c), c, r), c, Tail(net[c].req),
               IF net[c].open THEN Append(net[c].rep, r) ELSE net[c].rep,
               net[c].open, net[c].served)
<1> DEFINE n == Done(c)
           v == [net[c] EXCEPT !.req = Tail(net[c].req)]
           w == [n[c] EXCEPT !.rep = Append(n[c].rep, r)]
<1>1. net[c] \in Wires
  OBVIOUS
<1>2. Tail(net[c].req) \in Seq(Messages)
  BY <1>1 DEF Wires
<1>3. v \in Wires
  BY <1>1, <1>2 DEF Wires
<1>4. /\ v.req = Tail(net[c].req) /\ v.rep = net[c].rep
      /\ v.open = net[c].open /\ v.served = net[c].served
  BY <1>1 DEF Wires
<1>5. n = [net EXCEPT ![c] = v]
  BY DEF Done
<1> HIDE DEF v
<1>6. n \in [Conns -> Wires] /\ n[c] = v /\ \A d \in Conns : d # c => n[d] = net[d]
  BY <1>3, <1>5
<1> HIDE DEF n
<1>7. Append(n[c].rep, r) \in Seq(Messages)
  BY <1>3, <1>6 DEF Wires
<1>8. w \in Wires
  BY <1>3, <1>6, <1>7 DEF Wires
<1>9. /\ w.req = n[c].req /\ w.rep = Append(n[c].rep, r)
      /\ w.open = n[c].open /\ w.served = n[c].served
  BY <1>3, <1>6 DEF Wires
<1>10. Reply(n, c, r) = IF n[c].open THEN [n EXCEPT ![c] = w] ELSE n
  BY DEF Reply
<1> HIDE DEF w
<1>11. CASE net[c].open
  <2>1. Reply(n, c, r) = [n EXCEPT ![c] = w]
    BY <1>4, <1>6, <1>10, <1>11
  <2>2. /\ [n EXCEPT ![c] = w] \in [Conns -> Wires] /\ [n EXCEPT ![c] = w][c] = w
        /\ \A d \in Conns : d # c => [n EXCEPT ![c] = w][d] = net[d]
    BY <1>6, <1>8
  <2> QED
    BY <1>4, <1>6, <1>9, <1>11, <2>1, <2>2 DEF Wired, n
<1>12. CASE ~net[c].open
  <2>1. Reply(n, c, r) = n
    BY <1>4, <1>6, <1>10, <1>12
  <2> QED
    BY <1>4, <1>6, <1>12, <2>1 DEF Wired, n
<1> QED
  BY <1>11, <1>12

\* A connection is replaced.
LEMMA PutWired ==
  ASSUME net \in [Conns -> Wires], NEW c \in Conns, NEW w \in Wires
  PROVE  Wired([net EXCEPT ![c] = w], c, w.req, w.rep, w.open, w.served)
BY DEF Wired

-----------------------------------------------------------------------------
(* The client's state before and after a step.                             *)

\* The operation under way is one of the client's, made for an instance.
LEMMA NowFacts ==
  ASSUME Typed, Planned, Now.f # "none"
  PROVE  /\ cl.todo \in Seq(Ops) /\ cl.todo # <<>> /\ Now = Head(cl.todo)
         /\ Now \in Ops /\ Now.i = Me /\ Me \in Insts /\ OpOK(Now, cl.live)
         /\ Rest \in Seq(Ops) /\ PlanOK(Rest, cl.live)
         /\ NowOf(Rest).f \in {"none", "create", "commit", "dead"}
         /\ Now.f \notin Making => NowOf(Rest).f \in {"none", "dead"}
         /\ NowOf(Rest).f = "commit" => NowOf(Rest).cmd # "DEL"
<1>1. cl.todo \in Seq(Ops) /\ cl.todo # <<>> /\ Now = Head(cl.todo)
  BY DEF Typed, Clients, Now, NowOf, NoOp, Op
<1>2. /\ Len(cl.todo) \in Nat \ {0} /\ Head(cl.todo) = cl.todo[1] /\ Head(cl.todo) \in Ops
      /\ Rest \in Seq(Ops) /\ Len(Rest) = Len(cl.todo) - 1
      /\ \A k \in 1..Len(Rest) : Rest[k] = cl.todo[k + 1]
  BY <1>1, SeqSplit DEF Rest
<1>3. Now.i = Me /\ Me \in Insts /\ OpOK(Now, cl.live)
  <2>1. 1 \in 1..Len(cl.todo)
    BY <1>2
  <2> QED
    BY <1>1, <1>2, <2>1 DEF Me, Ops, Planned, PlanOK
<1>4. PlanOK(Rest, cl.live)
  BY <1>1, TailPlan DEF Planned, Rest
<1>5. /\ NowOf(Rest).f \in {"none", "create", "commit", "dead"}
      /\ Now.f \notin Making => NowOf(Rest).f \in {"none", "dead"}
      /\ NowOf(Rest).f = "commit" => NowOf(Rest).cmd # "DEL"
  <2>1. CASE Rest = <<>>
    BY <2>1 DEF NowOf, NoOp, Op
  <2>2. CASE Rest # <<>>
    <3>1. Len(Rest) \in Nat \ {0} /\ NowOf(Rest) = Rest[1]
      BY <1>2, <2>2, SeqSplit DEF NowOf
    <3> DEFINE a == Len(cl.todo)
               b == Len(Rest)
    <3>2. 1 \in 1..Len(cl.todo) /\ 2 \in 1..Len(cl.todo) /\ 1 \in 1..Len(Rest) /\ 1 + 1 = 2
      <4>1. a \in Nat \ {0} /\ b = a - 1 /\ b \in Nat \ {0}
        BY <1>2, <3>1
      <4> HIDE DEF a, b
      <4>2. 1 \in 1..a /\ 2 \in 1..a /\ 1 \in 1..b /\ 1 + 1 = 2
        BY <4>1
      <4> QED
        BY <4>2 DEF a, b
    <3> HIDE DEF a, b
    <3>3. InOrder(cl.todo[1], cl.todo[2]) /\ Rest[1] = cl.todo[2]
      BY <1>2, <3>2 DEF Planned, PlanOK
    <3> QED
      BY <1>1, <1>2, <3>1, <3>3 DEF InOrder
  <2> QED
    BY <2>1, <2>2
<1> QED
  BY <1>1, <1>2, <1>3, <1>4, <1>5

\* Doing something, in terms of what is done now.
LEMMA DoingNow == ASSUME NEW f, f # "none" PROVE Doing(f) <=> Now.f = f
BY DEF Doing, Now, NowOf, NoOp, Op

Becomes(x, p, l, c, t) == x \in Clients /\ x.peer = p /\ x.live = l /\ x.conn = c /\ x.todo = t

\* The ways in which the client's record changes.
LEMMA SetClient ==
  ASSUME cl \in Clients, NEW l \in SUBSET Insts, NEW c \in Conns \cup {NoConn},
         NEW t \in Seq(Ops), NEW i \in Insts, NEW s \in Siids \cup {NoPeer}
  PROVE  /\ Becomes([cl EXCEPT !.todo = t], cl.peer, cl.live, cl.conn, t)
         /\ Becomes([cl EXCEPT !.conn = c, !.todo = t], cl.peer, cl.live, c, t)
         /\ Becomes([cl EXCEPT !.live = l, !.todo = t], cl.peer, l, cl.conn, t)
         /\ Becomes([cl EXCEPT !.peer[i] = s, !.todo = t],
                    [cl.peer EXCEPT ![i] = s], cl.live, cl.conn, t)
         /\ cl.peer \in [Insts -> Siids \cup {NoPeer}]
<1> DEFINE p == [cl.peer EXCEPT ![i] = s]
<1>1. cl.peer \in [Insts -> Siids \cup {NoPeer}]
  BY DEF Clients
<1>2. p \in [Insts -> Siids \cup {NoPeer}]
  BY <1>1
<1>3. [cl EXCEPT !.peer[i] = s, !.todo = t] = [cl EXCEPT !.peer = p, !.todo = t]
  OBVIOUS
<1> HIDE DEF p
<1>4. Becomes([cl EXCEPT !.peer = p, !.todo = t], p, cl.live, cl.conn, t)
  BY <1>2 DEF Clients, Becomes
<1>5. Becomes([cl EXCEPT !.todo = t], cl.peer, cl.live, cl.conn, t)
  BY DEF Clients, Becomes
<1>6. Becomes([cl EXCEPT !.conn = c, !.todo = t], cl.peer, cl.live, c, t)
  BY DEF Clients, Becomes
<1>7. Becomes([cl EXCEPT !.live = l, !.todo = t], cl.peer, l, cl.conn, t)
  BY DEF Clients, Becomes
<1> QED
  BY <1>1, <1>3, <1>4, <1>5, <1>6, <1>7 DEF p

\* An operation gives way to the next step of the same one.
LEMMA Swapped ==
  ASSUME Typed, Planned, Now.f # "none",
         NEW o \in Ops, OpOK(o, cl.live), o.i = Now.i, o.f # "create",
         o.f \notin Making => Now.f \notin Making
  PROVE  LET t == <<o>> \o Rest
         IN  /\ t \in Seq(Ops) /\ PlanOK(t, cl.live) /\ NowOf(t) = o
             /\ \A i : PendIn(t, i) <=> Pending(i) /\ (Now.f = "create" => Now.i # i)
<1>1. /\ cl.todo \in Seq(Ops) /\ cl.todo # <<>> /\ Now = Head(cl.todo)
      /\ PlanOK(cl.todo, cl.live)
  BY NowFacts DEF Planned
<1>2. PlanOK(<<o>> \o Tail(cl.todo), cl.live)
  BY <1>1, SwapPlan
<1>3. \A i : PendIn(<<o>> \o Tail(cl.todo), i)
               <=> PendIn(cl.todo, i) /\ (Head(cl.todo).f = "create" => Head(cl.todo).i # i)
  BY <1>1, SwapPending
<1>4. /\ <<o>> \o Tail(cl.todo) \in Seq(Ops) /\ <<o>> \o Tail(cl.todo) # <<>>
      /\ Head(<<o>> \o Tail(cl.todo)) = o
  BY <1>1, SwapSplit
<1> QED
  BY <1>1, <1>2, <1>3, <1>4 DEF Rest, Pending, NowOf

\* Two operations one after the other.
LEMMA TwoOps ==
  ASSUME NEW a \in Ops, NEW b \in Ops
  PROVE  <<a>> \o <<b>> = <<a, b>>
<1> DEFINE u == <<a>>
           v == <<b>>
           t == <<a, b>>
<1>1. /\ u \in Seq(Ops) /\ Len(u) = 1 /\ u[1] = a /\ v \in Seq(Ops) /\ Len(v) = 1 /\ v[1] = b
      /\ t \in Seq(Ops) /\ Len(t) = 2 /\ t[1] = a /\ t[2] = b
  OBVIOUS
<1> HIDE DEF u, v, t
<1>2. /\ u \o v \in Seq(Ops) /\ Len(u \o v) = Len(u) + Len(v)
      /\ \A k \in 1..Len(u) + Len(v) :
           (u \o v)[k] = IF k <= Len(u) THEN u[k] ELSE v[k - Len(u)]
  BY <1>1, ConcatProperties
<1>3. Len(u \o v) = 2 /\ (u \o v)[1] = a /\ (u \o v)[2] = b
  BY <1>1, <1>2
<1>4. \A k \in 1..2 : (u \o v)[k] = t[k]
  BY <1>1, <1>3
<1>5. u \o v = t
  BY <1>1, <1>2, <1>3, <1>4, SeqEqual
<1> QED
  BY <1>5 DEF u, v, t

\* A plan of one operation, or of one and the end of an instance.
LEMMA Started ==
  ASSUME NEW live, NEW a \in Ops, NEW b \in Ops, OpOK(a, live), OpOK(b, live),
         b.f = "dead", a.f # "recv_new"
  PROVE  /\ <<a>> \in Seq(Ops) /\ PlanOK(<<a>>, live) /\ NowOf(<<a>>) = a
         /\ \A i : PendIn(<<a>>, i) <=> a.f = "create" /\ a.i = i
         /\ <<a, b>> \in Seq(Ops) /\ PlanOK(<<a, b>>, live) /\ NowOf(<<a, b>>) = a
<1> DEFINE u == <<a>>
           t == <<a, b>>
<1>1. u \in Seq(Ops) /\ Len(u) = 1 /\ u[1] = a /\ Head(u) = a /\ u # <<>>
  OBVIOUS
<1>2. t \in Seq(Ops) /\ Len(t) = 2 /\ t[1] = a /\ t[2] = b /\ Head(t) = a /\ t # <<>>
  OBVIOUS
<1> HIDE DEF u, t
<1>3. PlanOK(u, live)
  BY <1>1 DEF PlanOK
<1>4. InOrder(a, b)
  BY DEF InOrder
<1>5. PlanOK(t, live)
  <2>1. \A k \in 1..Len(t) : OpOK(t[k], live)
    BY <1>2
  <2>2. \A j, k \in 1..Len(t) : j < k => j = 1 /\ k = 2
    BY <1>2
  <2> QED
    BY <1>2, <1>4, <2>1, <2>2 DEF PlanOK
<1>6. \A i : PendIn(u, i) <=> a.f = "create" /\ a.i = i
  BY <1>1 DEF PendIn
<1> QED
  BY <1>1, <1>2, <1>3, <1>5, <1>6 DEF NowOf, u, t

-----------------------------------------------------------------------------
(* Steps of the client that send and take nothing.                         *)

\* A fault that happens was planned.
LEMMA FaultKeeps ==
  ASSUME UNCHANGED fault \/ \E f \in Faults : Fault(f)
  PROVE  plan' \cup faults' = plan \cup faults /\ (Quiet' => Quiet)
<1>1. CASE UNCHANGED fault
  BY <1>1 DEF fault, Quiet
<1>2. ASSUME NEW f \in Faults, Fault(f)
      PROVE  plan' \cup faults' = plan \cup faults /\ (Quiet' => Quiet)
  BY <1>2 DEF Fault, Quiet
<1> QED
  BY <1>1, <1>2

\* Such a step keeps the invariant if it fits what is on the connection.
LEMMA ClientKeeps ==
  ASSUME Inv, net' = net, srv' = srv, wrong' = wrong,
         UNCHANGED fault \/ \E f \in Faults : Fault(f),
         cl' \in Clients, cl'.conn = cl.conn, PlanOK(cl'.todo, cl'.live),
         Now'.f \notin Expecting, Now'.f = "connect" => cl.conn = NoConn,
         Quiet' /\ Now'.f # "reconnect" /\ cl.conn # NoConn => Silent(cl.conn),
         Quiet' /\ Up(cl.conn) /\ Now'.f # "reconnect" =>
           Now.f # "reconnect" /\ \A i \in Insts : Expected(i)' = Expected(i)
  PROVE  Inv'
<1>1. Typed'
  BY FaultKeeps DEF Inv, Typed
<1>2. Planned'
  BY DEF Planned
<1>3. Cables'
  BY DEF Inv, Cables
<1>4. ASSUME Quiet' PROVE Right'
  <2>1. Right
    BY <1>4, FaultKeeps DEF Inv
  <2>2. Addressed'
    BY <2>1 DEF Right, Addressed, AddressOK
  <2>3. NoneWrong'
    BY <2>1 DEF Right, NoneWrong
  <2>4. Paired'
    BY <1>4 DEF Paired, Silent
  <2>5. Exact'
    <3>1. SUFFICES ASSUME Up(cl.conn)', Now'.f # "reconnect"
                   PROVE  \A i \in Insts : Owned(i)' = Expected(i)'
      BY DEF Exact
    <3>2. Up(cl.conn)
      BY <3>1 DEF Up
    <3>3. \A i \in Insts : Owned(i) = Expected(i) /\ Expected(i)' = Expected(i)
      BY <1>4, <2>1, <3>1, <3>2 DEF Right, Exact
    <3>4. \A i \in Insts : Owned(i)' = Owned(i)
      BY DEF Owned
    <3> QED
      BY <3>3, <3>4
  <2> QED
    BY <2>1, <2>2, <2>3, <2>4, <2>5 DEF Right
<1> QED
  BY <1>1, <1>2, <1>3, <1>4 DEF Inv

\* While nothing is asked, and no peer is made, an instance of the client has
\* the peer it knows of.
LEMMA RestingExpects ==
  ASSUME NEW i, Now.f \notin Expecting, ~Pending(i), ~Deleting(i, "commit")
  PROVE  Expected(i) = IF i \in cl.live THEN {cl.peer[i]} \cap Siids ELSE {}
BY DEF Expected, Expecting, Deleting

\* What is on a connection that has nothing to do with a call under way.
LEMMA Resting ==
  ASSUME Inv, Quiet, Now.f \notin Expecting \cup {"reconnect"}, cl.conn # NoConn
  PROVE  Silent(cl.conn)
BY DEF Inv, Right, Paired

\* An idle client has no plan.
LEMMA Idle == ASSUME cl.todo = <<>> PROVE Now = NoOp /\ \A i : ~Pending(i)
<1>1. Len(cl.todo) = 0
  OBVIOUS
<1> QED
  BY <1>1 DEF Now, NowOf, Pending, PendIn

\* An instance is created.
LEMMA CreateInstanceInv ==
  ASSUME Inv, NEW i \in Insts, create_instance(i)
  PROVE  Inv'
<1> DEFINE o == Op("create", i, "NEW")
           l == cl.live \cup {i}
<1>1. cl \in Clients /\ cl.live \in SUBSET Insts
  BY DEF Inv, Typed, Clients
<1>2. o \in Ops /\ o.f = "create" /\ o.i = i /\ o.cmd = "NEW"
  BY ConstantTypes DEF Op, Ops, Steps, Cmds
<1>3. OpOK(o, l)
  BY <1>2 DEF OpOK, Making
<1>5. /\ <<o>> \in Seq(Ops) /\ PlanOK(<<o>>, l) /\ NowOf(<<o>>) = o
      /\ \A j : PendIn(<<o>>, j) <=> o.f = "create" /\ o.i = j
  <2>1. PlanOK(<<o>>, l)
    BY <1>2, <1>3 DEF PlanOK
  <2>2. \A j : PendIn(<<o>>, j) <=> o.f = "create" /\ o.i = j
    BY DEF PendIn
  <2> QED
    BY <1>2, <2>1, <2>2 DEF NowOf
<1>6. Becomes([cl EXCEPT !.live = l, !.todo = <<o>>], cl.peer, l, cl.conn, <<o>>)
  BY <1>1, <1>5, SetClient DEF Inv, Typed, Clients
<1>7. Becomes(cl', cl.peer, l, cl.conn, <<o>>)
  BY <1>6 DEF create_instance
<1>8. /\ net' = net /\ srv' = srv /\ wrong' = wrong /\ UNCHANGED fault
      /\ cl.todo = <<>> /\ i \notin cl.live
  BY DEF create_instance, fault
<1>9. Now' = o /\ \A j : Pending(j)' <=> j = i
  BY <1>2, <1>5, <1>7 DEF Now, Pending, Becomes
<1>10. Now = NoOp /\ \A j : ~Pending(j)
  BY <1>8, Idle
<1> HIDE DEF o, l
<1>11. ASSUME Quiet', cl.conn # NoConn PROVE Silent(cl.conn)
  <2>1. Quiet
    BY <1>8, <1>11 DEF Quiet, fault
  <2> QED
    BY <1>10, <1>11, <2>1, Resting DEF NoOp, Op, Expecting
<1>12. \A j \in Insts : Expected(j)' = Expected(j)
  <2> SUFFICES ASSUME NEW j \in Insts PROVE Expected(j)' = Expected(j)
    OBVIOUS
  <2>1. Expected(j) = IF j \in cl.live THEN {cl.peer[j]} \cap Siids ELSE {}
    BY <1>10, RestingExpects DEF NoOp, Op, Expecting, Deleting
  <2>2. CASE j = i
    <3>1. Expected(j)' = {}
      BY <1>2, <1>9, <2>2 DEF Expected
    <3> QED
      BY <1>8, <2>1, <2>2, <3>1
  <2>3. CASE j # i
    <3>1. Expected(j)' = IF j \in cl'.live THEN {cl'.peer[j]} \cap Siids ELSE {}
      BY <1>2, <1>9, <2>3 DEF Expected, Expecting, Deleting
    <3> QED
      BY <1>7, <2>1, <2>3, <3>1 DEF Becomes, l
  <2> QED
    BY <2>2, <2>3
<1>13. Now'.f = "create"
  BY <1>2, <1>9
<1>14. cl' \in Clients /\ cl'.conn = cl.conn /\ PlanOK(cl'.todo, cl'.live)
  BY <1>5, <1>7 DEF Becomes
<1>15. Now.f # "reconnect"
  BY <1>10 DEF NoOp, Op
<1> QED
  BY <1>8, <1>11, <1>12, <1>13, <1>14, <1>15, ClientKeeps DEF Expecting

\* An instance is called.
LEMMA CallInv ==
  ASSUME Inv, NEW i \in Insts, Call(i)
  PROVE  Inv'
<1> DEFINE o == Op("commit", i, "CALL")
           e == Op("dead", i, "DEL")
<1>1. cl \in Clients
  BY DEF Inv, Typed
<1>2. /\ net' = net /\ srv' = srv /\ wrong' = wrong /\ UNCHANGED fault
      /\ cl.todo = <<>> /\ i \in cl.live
  BY DEF Call, fault
<1>3. o \in Ops /\ o.f = "commit" /\ o.i = i /\ o.cmd = "CALL"
  BY ConstantTypes DEF Op, Steps, Cmds
<1>4. OpOK(o, cl.live)
  BY <1>2, <1>3 DEF OpOK, Making
<1>5. <<o>> \in Seq(Ops) /\ PlanOK(<<o>>, cl.live) /\ NowOf(<<o>>) = o
      /\ \A j : ~PendIn(<<o>>, j)
  <2>1. PlanOK(<<o>>, cl.live)
    BY <1>3, <1>4 DEF PlanOK
  <2>2. \A j : ~PendIn(<<o>>, j)
    BY DEF PendIn, Op
  <2> QED
    BY <1>3, <2>1, <2>2 DEF NowOf
<1>6. cl.conn \in Conns \cup {NoConn} /\ cl.live \in SUBSET Insts
  BY <1>1 DEF Clients
<1>7. Becomes(cl', cl.peer, cl.live, cl.conn, <<o>>)
  BY <1>1, <1>5, <1>6, SetClient DEF Call
<1> HIDE DEF o
<1>8. Now' = o /\ \A j : ~Pending(j)'
  BY <1>5, <1>7 DEF Now, Pending, Becomes
<1>9. Now = NoOp /\ \A j : ~Pending(j)
  BY <1>2, Idle
<1>10. ASSUME Quiet', cl.conn # NoConn PROVE Silent(cl.conn)
  <2>1. Quiet
    BY <1>2, <1>10 DEF Quiet, fault
  <2> QED
    BY <1>9, <1>10, <2>1, Resting DEF NoOp, Op, Expecting
<1>11. \A j \in Insts : Expected(j)' = Expected(j)
  <2> SUFFICES ASSUME NEW j \in Insts PROVE Expected(j)' = Expected(j)
    OBVIOUS
  <2>1. Expected(j) = IF j \in cl.live THEN {cl.peer[j]} \cap Siids ELSE {}
    BY <1>9, RestingExpects DEF NoOp, Op, Expecting, Deleting
  <2>2. Expected(j)' = IF j \in cl'.live THEN {cl'.peer[j]} \cap Siids ELSE {}
    BY <1>3, <1>8 DEF Expected, Expecting, Deleting
  <2> QED
    BY <1>7, <2>1, <2>2 DEF Becomes
<1>12. Now'.f = "commit" /\ Now.f # "reconnect"
  BY <1>3, <1>8, <1>9 DEF NoOp, Op
<1>13. cl' \in Clients /\ cl'.conn = cl.conn /\ PlanOK(cl'.todo, cl'.live)
  BY <1>5, <1>7 DEF Becomes
<1> QED
  BY <1>2, <1>10, <1>11, <1>12, <1>13, ClientKeeps DEF Expecting

\* An instance is destroyed: its peer, if it has one, is to be deleted first.
LEMMA DestroyInv ==
  ASSUME Inv, NEW i \in Insts, Destroy(i)
  PROVE  Inv'
<1> DEFINE o == Op("commit", i, "DEL")
           e == Op("dead", i, "DEL")
           l == cl.live \ {i}
           t == (IF cl.peer[i] # NoPeer THEN <<o>> ELSE <<>>) \o <<e>>
<1>1. cl \in Clients /\ cl.live \in SUBSET Insts /\ cl.conn \in Conns \cup {NoConn}
  BY DEF Inv, Typed, Clients
<1>2. /\ net' = net /\ srv' = srv /\ wrong' = wrong /\ UNCHANGED fault
      /\ cl.todo = <<>> /\ i \in cl.live
  BY DEF Destroy, fault
<1>3. /\ o \in Ops /\ o.f = "commit" /\ o.i = i /\ o.cmd = "DEL"
      /\ e \in Ops /\ e.f = "dead" /\ e.i = i
  BY ConstantTypes DEF Op, Steps, Cmds
<1>4. OpOK(o, l) /\ OpOK(e, l)
  BY <1>3 DEF OpOK, Making
<1>5. cl'= [cl EXCEPT !.live = l, !.todo = t]
  BY DEF Destroy
<1>6. t = IF cl.peer[i] # NoPeer THEN <<o, e>> ELSE <<e>>
  <2> HIDE DEF o, e
  <2>1. <<o>> \o <<e>> = <<o, e>>
    BY <1>3, TwoOps
  <2>2. <<>> \o <<e>> = <<e>>
    BY <1>3, ConcatEmptySeq
  <2> QED
    BY <2>1, <2>2 DEF t
<1> HIDE DEF o, e, l
<1>7. /\ t \in Seq(Ops) /\ PlanOK(t, l)
      /\ NowOf(t) = IF cl.peer[i] # NoPeer THEN o ELSE e
  <2>1. CASE cl.peer[i] # NoPeer
    <3>1. t = <<o, e>>
      BY <1>6, <2>1
    <3>2. <<o, e>> \in Seq(Ops) /\ PlanOK(<<o, e>>, l) /\ NowOf(<<o, e>>) = o
      BY <1>3, <1>4, Started
    <3> QED
      BY <2>1, <3>1, <3>2
  <2>2. CASE cl.peer[i] = NoPeer
    <3>1. t = <<e>>
      BY <1>6, <2>2
    <3>2. <<e>> \in Seq(Ops) /\ PlanOK(<<e>>, l) /\ NowOf(<<e>>) = e
      BY <1>3, <1>4, Started
    <3> QED
      BY <2>2, <3>1, <3>2
  <2> QED
    BY <2>1, <2>2
<1> HIDE DEF t
<1>8. l \in SUBSET Insts
  BY <1>1 DEF l
<1>9. Becomes(cl', cl.peer, l, cl.conn, t)
  BY <1>1, <1>5, <1>7, <1>8, SetClient
<1>10. Now' = NowOf(t) /\ Now'.f \in {"commit", "dead"}
  BY <1>3, <1>7, <1>9 DEF Now, Becomes
<1>11. \A j : ~Pending(j)'
  <2>1. NowOf(t).f \notin Making
    BY <1>9, <1>10 DEF Making
  <2> QED
    BY <1>7, <1>9, <2>1, NonePending DEF Pending, Becomes
<1>12. Now = NoOp /\ \A j : ~Pending(j)
  BY <1>2, Idle
<1>13. ASSUME Quiet', cl.conn # NoConn PROVE Silent(cl.conn)
  <2>1. Quiet
    BY <1>2, <1>13 DEF Quiet, fault
  <2> QED
    BY <1>12, <1>13, <2>1, Resting DEF NoOp, Op, Expecting
<1>14. \A j \in Insts : Expected(j)' = Expected(j)
  <2> SUFFICES ASSUME NEW j \in Insts PROVE Expected(j)' = Expected(j)
    OBVIOUS
  <2>1. Expected(j) = IF j \in cl.live THEN {cl.peer[j]} \cap Siids ELSE {}
    BY <1>12, RestingExpects DEF NoOp, Op, Expecting, Deleting
  <2>2. CASE j # i
    <3>1. Expected(j)' = IF j \in cl'.live THEN {cl'.peer[j]} \cap Siids ELSE {}
      BY <1>3, <1>7, <1>10, <1>11, <2>2 DEF Expected, Expecting, Deleting
    <3> QED
      BY <1>9, <2>1, <2>2, <3>1 DEF Becomes, l
  <2>3. CASE j = i /\ cl.peer[i] # NoPeer
    <3>1. Expected(j)' = {cl'.peer[j]} \cap Siids
      BY <1>3, <1>7, <1>10, <1>11, <2>3 DEF Expected, Expecting, Deleting
    <3> QED
      BY <1>2, <1>9, <2>1, <2>3, <3>1 DEF Becomes
  <2>4. CASE j = i /\ cl.peer[i] = NoPeer
    <3>1. i \notin cl'.live
      BY <1>9 DEF Becomes, l
    <3>2. Expected(j)' = {}
      BY <1>3, <1>7, <1>10, <1>11, <2>4, <3>1 DEF Expected, Expecting, Deleting
    <3>3. {cl.peer[j]} \cap Siids = {}
      BY <2>4, EngineAssumption DEF NoPeer, Siids
    <3> QED
      BY <2>1, <3>2, <3>3
  <2> QED
    BY <2>2, <2>3, <2>4
<1>15. Now.f # "reconnect"
  BY <1>12 DEF NoOp, Op
<1>16. cl' \in Clients /\ cl'.conn = cl.conn /\ PlanOK(cl'.todo, cl'.live)
  BY <1>7, <1>9 DEF Becomes
<1> QED
  BY <1>2, <1>10, <1>13, <1>14, <1>15, <1>16, ClientKeeps DEF Expecting

\* The instance is gone.
LEMMA DeadInv ==
  ASSUME Inv, dead
  PROVE  Inv'
<1>1. cl \in Clients /\ cl.conn \in Conns \cup {NoConn} /\ cl.live \in SUBSET Insts
  BY DEF Inv, Typed, Clients
<1>2. /\ net' = net /\ srv' = srv /\ wrong' = wrong /\ UNCHANGED fault
      /\ Now.f = "dead" /\ cl' = [cl EXCEPT !.peer[Me] = NoPeer, !.todo = Rest]
  BY DoingNow DEF dead, fault
<1>3. /\ Now.i = Me /\ Me \in Insts /\ OpOK(Now, cl.live)
      /\ Rest \in Seq(Ops) /\ PlanOK(Rest, cl.live)
      /\ NowOf(Rest).f \in {"none", "dead"}
  BY <1>2, NowFacts DEF Inv, Making
<1>4. Becomes(cl', [cl.peer EXCEPT ![Me] = NoPeer], cl.live, cl.conn, Rest)
  BY <1>1, <1>2, <1>3, SetClient
<1>5. Now' = NowOf(Rest) /\ \A j : ~Pending(j)'
  <2>1. NowOf(Rest).f \notin Making
    BY <1>3 DEF Making
  <2> QED
    BY <1>3, <1>4, <2>1, NonePending DEF Becomes, Now, Pending
<1>6. \A j : ~Pending(j)
  BY <1>1, <1>2, NonePending DEF Inv, Planned, Pending, Now, Making, Clients
<1>7. Me \notin cl.live
  BY <1>2, <1>3 DEF OpOK
<1>8. ASSUME Quiet', cl.conn # NoConn PROVE Silent(cl.conn)
  <2>1. Quiet
    BY <1>2, <1>8 DEF Quiet, fault
  <2> QED
    BY <1>2, <1>8, <2>1, Resting DEF Expecting
<1>9. \A j \in Insts : Expected(j)' = Expected(j)
  <2> SUFFICES ASSUME NEW j \in Insts PROVE Expected(j)' = Expected(j)
    OBVIOUS
  <2>1. Expected(j) = IF j \in cl.live THEN {cl.peer[j]} \cap Siids ELSE {}
    BY <1>2, <1>6, RestingExpects DEF Expecting, Deleting
  <2>2. Expected(j)' = IF j \in cl'.live THEN {cl'.peer[j]} \cap Siids ELSE {}
    BY <1>3, <1>5 DEF Expected, Expecting, Deleting
  <2>3. j # Me => cl'.peer[j] = cl.peer[j]
    BY <1>1, <1>4 DEF Becomes, Clients
  <2> QED
    BY <1>4, <1>7, <2>1, <2>2, <2>3 DEF Becomes
<1>10. cl' \in Clients /\ cl'.conn = cl.conn /\ PlanOK(cl'.todo, cl'.live)
  BY <1>3, <1>4 DEF Becomes
<1> QED
  BY <1>2, <1>3, <1>5, <1>8, <1>9, <1>10, ClientKeeps DEF Expecting

\* A call that cannot be sent, or that has got no reply, connects anew.
LEMMA GivesUp ==
  ASSUME Inv, Now.f \in {"commit", "recv"}, NEW cmd \in Cmds,
         cl' = [cl EXCEPT !.todo = <<Op("reconnect", Me, cmd)>> \o Rest],
         net' = net, srv' = srv, wrong' = wrong,
         UNCHANGED fault \/ \E f \in Faults : Fault(f)
  PROVE  Inv'
<1> DEFINE o == Op("reconnect", Me, cmd)
<1>1. cl \in Clients /\ cl.conn \in Conns \cup {NoConn} /\ cl.live \in SUBSET Insts
  BY DEF Inv, Typed, Clients
<1>2. Me \in Insts /\ Now.i = Me
  BY NowFacts DEF Inv
<1>3. o \in Ops /\ o.f = "reconnect" /\ o.i = Me /\ OpOK(o, cl.live)
  BY <1>2, ConstantTypes DEF Op, Steps, Cmds, OpOK, Making
<1> HIDE DEF o
<1>4. /\ <<o>> \o Rest \in Seq(Ops) /\ PlanOK(<<o>> \o Rest, cl.live)
      /\ NowOf(<<o>> \o Rest) = o
  BY <1>2, <1>3, Swapped DEF Inv, Making
<1>5. Becomes(cl', cl.peer, cl.live, cl.conn, <<o>> \o Rest)
  BY <1>1, <1>2, <1>4, SetClient DEF o
<1>6. Now' = o
  BY <1>4, <1>5 DEF Now, Becomes
<1>7. cl' \in Clients /\ cl'.conn = cl.conn /\ PlanOK(cl'.todo, cl'.live)
  BY <1>4, <1>5 DEF Becomes
<1> QED
  BY <1>3, <1>6, <1>7, ClientKeeps DEF Expecting

\* No reply.
LEMMA ReceiveFailsInv ==
  ASSUME Inv, ReceiveFails
  PROVE  Inv'
<1>1. UNCHANGED fault \/ \E f \in Faults : Fault(f)
  BY DEF ReceiveFails, Faults
<1>2. Now.f = "recv"
  BY DoingNow DEF ReceiveFails
<1> QED
  BY <1>1, <1>2, GivesUp DEF ReceiveFails, Cmds

\* A connection the server has closed, and that has no reply, has nothing.
LEMMA LeftSilent ==
  ASSUME Inv, Quiet, Now.f \in Expecting, net[cl.conn].rep = <<>>, ~Up(cl.conn)
  PROVE  Silent(cl.conn)
<1>1. cl.conn \in Conns /\ ~net[cl.conn].served
  BY DEF Inv, Typed, Clients, Cables, Up
<1>2. net[cl.conn].req = <<>>
  BY <1>1 DEF Inv, Cables
<1>3. \/ Asked(cl.conn) \/ Replied(cl.conn) \/ Asking(cl.conn)
      \/ Answered(cl.conn) \/ Lost(cl.conn)
  BY DEF Inv, Right, Paired
<1>4. srv.wait # cl.conn
  BY <1>2, <1>3 DEF Asked, Replied, Asking, Answered, Lost
<1> QED
  BY <1>2, <1>4 DEF Silent

\* What follows the loading of an icon that gives none.
LEMMA IconLessInv ==
  ASSUME Inv, Now.f \in {"icon", "recv_icon"}, cl' = [cl EXCEPT !.todo = Rest],
         net' = net, srv' = srv, wrong' = wrong,
         UNCHANGED fault \/ \E f \in Faults : Fault(f),
         Quiet' /\ cl.conn # NoConn => Silent(cl.conn)
  PROVE  Inv'
<1>1. cl \in Clients /\ cl.conn \in Conns \cup {NoConn} /\ cl.live \in SUBSET Insts
  BY DEF Inv, Typed, Clients
<1>2. /\ Me \in Insts /\ Rest \in Seq(Ops) /\ PlanOK(Rest, cl.live)
      /\ NowOf(Rest).f \in {"none", "dead"}
  BY NowFacts DEF Inv, Making
<1>3. Becomes(cl', cl.peer, cl.live, cl.conn, Rest)
  BY <1>1, <1>2, SetClient
<1>4. Now' = NowOf(Rest) /\ \A j : ~Pending(j)'
  <2>1. NowOf(Rest).f \notin Making
    BY <1>2 DEF Making
  <2> QED
    BY <1>2, <1>3, <2>1, NonePending DEF Becomes, Now, Pending
<1>5. \A j : ~Pending(j)
  BY <1>1, NonePending DEF Inv, Planned, Pending, Now, Making, Clients
<1>6. \A j \in Insts : Expected(j)' = Expected(j)
  <2> SUFFICES ASSUME NEW j \in Insts PROVE Expected(j)' = Expected(j)
    OBVIOUS
  <2>1. Expected(j) = IF j \in cl.live THEN {cl.peer[j]} \cap Siids ELSE {}
    BY <1>5 DEF Expected, Deleting
  <2>2. Expected(j)' = IF j \in cl'.live THEN {cl'.peer[j]} \cap Siids ELSE {}
    BY <1>2, <1>4 DEF Expected, Deleting
  <2> QED
    BY <1>3, <2>1, <2>2 DEF Becomes
<1>7. cl' \in Clients /\ cl'.conn = cl.conn /\ PlanOK(cl'.todo, cl'.live)
  BY <1>2, <1>3 DEF Becomes
<1>8. Now'.f \in {"none", "dead"}
  BY <1>2, <1>4
<1> QED
  BY <1>6, <1>7, <1>8, ClientKeeps DEF Expecting

\* No icon.
LEMMA NoIconInv ==
  ASSUME Inv, NoIcon
  PROVE  Inv'
<1>1. UNCHANGED fault \/ \E f \in Faults : Fault(f)
  BY DEF NoIcon, Faults
<1>2. /\ net' = net /\ srv' = srv /\ wrong' = wrong /\ net[cl.conn].rep = <<>>
      /\ Now.f = "recv_icon" /\ cl' = [cl EXCEPT !.todo = Rest]
  BY DoingNow DEF NoIcon
<1>3. ASSUME Quiet' PROVE ~Up(cl.conn)
  BY <1>3 DEF NoIcon, Fault, Quiet, KeepsConnection
<1>4. Quiet' => Silent(cl.conn)
  BY <1>1, <1>2, <1>3, FaultKeeps, LeftSilent DEF Expecting
<1> QED
  BY <1>1, <1>2, <1>4, IconLessInv

\* No reply to a creation.
LEMMA NoPeerCreatedInv ==
  ASSUME Inv, NoPeerCreated
  PROVE  Inv'
<1>1. cl \in Clients /\ cl.conn \in Conns \cup {NoConn} /\ cl.live \in SUBSET Insts
  BY DEF Inv, Typed, Clients
<1>2. UNCHANGED fault \/ \E f \in Faults : Fault(f)
  BY DEF NoPeerCreated, Faults
<1>3. /\ net' = net /\ srv' = srv /\ wrong' = wrong /\ net[cl.conn].rep = <<>>
      /\ Now.f = "recv_new" /\ cl' = [cl EXCEPT !.peer[Me] = NoPeer, !.todo = Rest]
  BY DoingNow DEF NoPeerCreated
<1>4. /\ Now.i = Me /\ Me \in Insts /\ Rest \in Seq(Ops) /\ PlanOK(Rest, cl.live)
      /\ NowOf(Rest).f \in {"none", "create", "commit", "dead"}
  BY <1>3, NowFacts DEF Inv
<1>5. Becomes(cl', [cl.peer EXCEPT ![Me] = NoPeer], cl.live, cl.conn, Rest)
  BY <1>1, <1>3, <1>4, SetClient
<1>6. Now' = NowOf(Rest)
  BY <1>5 DEF Becomes, Now
<1>7. ASSUME Quiet' PROVE ~Up(cl.conn)
  BY <1>7 DEF NoPeerCreated, Fault, Quiet, KeepsConnection
<1>8. ASSUME Quiet', cl.conn # NoConn PROVE Silent(cl.conn)
  BY <1>2, <1>3, <1>7, <1>8, FaultKeeps, LeftSilent DEF Expecting
<1>9. cl' \in Clients /\ cl'.conn = cl.conn /\ PlanOK(cl'.todo, cl'.live)
  BY <1>4, <1>5 DEF Becomes
<1> QED
  BY <1>2, <1>3, <1>4, <1>6, <1>7, <1>8, <1>9, ClientKeeps DEF Expecting

-----------------------------------------------------------------------------
(* Steps of the client on its connection.                                  *)

\* A connection carries requests for the instances they were made for, and the
\* ones that are left when one is taken.
LEMMA AddressedTail ==
  ASSUME Typed, Addressed, NEW c \in Conns, net[c].req # <<>>
  PROVE  \A k \in 1..Len(Tail(net[c].req)) : AddressOK(c, Tail(net[c].req)[k])
<1>1. net[c].req \in Seq(Messages)
  BY DEF Typed, Wires
<1>2. /\ Len(net[c].req) \in Nat \ {0} /\ Len(Tail(net[c].req)) = Len(net[c].req) - 1
      /\ \A k \in 1..Len(Tail(net[c].req)) : Tail(net[c].req)[k] = net[c].req[k + 1]
  BY <1>1, SeqSplit
<1> SUFFICES ASSUME NEW k \in 1..Len(Tail(net[c].req))
             PROVE  AddressOK(c, Tail(net[c].req)[k])
  OBVIOUS
<1> DEFINE n == Len(net[c].req)
           m == Len(Tail(net[c].req))
<1>3. k + 1 \in 1..Len(net[c].req)
  <2>1. n \in Nat \ {0} /\ m = n - 1 /\ k \in 1..m
    BY <1>2
  <2> HIDE DEF n, m
  <2>2. k + 1 \in 1..n
    BY <2>1
  <2> QED
    BY <2>2 DEF n
<1> QED
  BY <1>2, <1>3 DEF Addressed

\* The request at the head of a connection names the right instance.
LEMMA AddressedHead ==
  ASSUME Typed, Addressed, NEW c \in Conns, net[c].req # <<>>
  PROVE  AddressOK(c, Head(net[c].req)) /\ Head(net[c].req) \in Messages
<1>1. net[c].req \in Seq(Messages)
  BY DEF Typed, Wires
<1>2. 1 \in 1..Len(net[c].req) /\ Head(net[c].req) = net[c].req[1] /\ Head(net[c].req) \in Messages
  BY <1>1, SeqSplit
<1> QED
  BY <1>2 DEF Addressed

\* Nothing is opened or closed.
LEMMA CablesKeep ==
  ASSUME Typed, Cables,
         \A d \in Conns : /\ net'[d].open = net[d].open /\ net'[d].served = net[d].served
                          /\ ~net[d].open => net'[d].rep = <<>>
                          /\ ~net[d].served => net'[d].req = <<>>,
         cl'.conn = cl.conn, Now'.f \in Expecting => cl.conn # NoConn,
         Now'.f = "connect" => cl.conn = NoConn,
         srv'.up = srv.up,
         srv'.wait # NoConn => srv'.wait \in Conns /\ net[srv'.wait].served,
         \A s \in Siids : srv'.inst[s] # NoInst =>
           /\ s < srv'.count /\ srv'.inst[s].conn \in Conns
           /\ net[srv'.inst[s].conn].served
  PROVE  Cables'
<1>1. \A c \in Conns : (c = cl'.conn) <=> net'[c].open
  BY DEF Cables
<1>2. \A c \in Conns : ~net'[c].open => net'[c].rep = <<>>
  OBVIOUS
<1>3. \A c \in Conns : ~net'[c].served => net'[c].req = <<>>
  OBVIOUS
<1>4. srv'.wait # NoConn => net'[srv'.wait].served
  OBVIOUS
<1>5. ~srv'.up => \A c \in Conns : ~net'[c].served
  BY DEF Cables
<1>6. \A s \in Siids : srv'.inst[s] # NoInst =>
           /\ s < srv'.count /\ srv'.inst[s].conn \in Conns
           /\ net'[srv'.inst[s].conn].served
  OBVIOUS
<1> QED
  BY <1>1, <1>2, <1>3, <1>4, <1>5, <1>6 DEF Cables

\* No request is sent or taken.
LEMMA AddressedKeep ==
  ASSUME Addressed, srv'.inst = srv.inst, srv'.count = srv.count,
         \A d \in Conns : net'[d].req = net[d].req
  PROVE  Addressed'
<1> SUFFICES ASSUME NEW d \in Conns, NEW k \in 1..Len(net[d].req)'
             PROVE  AddressOK(d, net[d].req[k])'
  BY DEF Addressed
<1>1. net'[d].req = net[d].req
  OBVIOUS
<1>2. AddressOK(d, net[d].req[k])
  BY <1>1 DEF Addressed
<1> QED
  BY <1>1, <1>2 DEF AddressOK

\* A call is sent over a silent connection.
LEMMA SendInv ==
  ASSUME Inv, NEW f \in {"recv", "recv_new", "recv_icon"}, NEW r \in Messages,
         cl.conn \in Conns, net[cl.conn].served,
         Now.f = IF f = "recv" THEN "commit" ELSE IF f = "recv_new" THEN "create" ELSE "icon",
         Key(r) = <<Now.cmd, Me>>,
         cl' = [cl EXCEPT !.todo = <<Op(f, Me, Now.cmd)>> \o Rest],
         net' = Send(cl.conn, r),
         srv' = srv, wrong' = wrong, UNCHANGED fault,
         Quiet => AddressOK(cl.conn, r),
         f = "recv" => r.siid = cl.peer[Me]
  PROVE  Inv'
<1> DEFINE o == Op(f, Me, Now.cmd)
           c == cl.conn
<1>1. cl \in Clients /\ net \in [Conns -> Wires] /\ cl.live \in SUBSET Insts
  BY DEF Inv, Typed, Clients
<1>2. Me \in Insts /\ Now.i = Me /\ OpOK(Now, cl.live) /\ Now \in Ops
  BY NowFacts DEF Inv
<1>3. o \in Ops /\ o.f = f /\ o.i = Me /\ o.cmd = Now.cmd
  BY <1>2 DEF Op, Ops, Steps
<1>4. OpOK(o, cl.live)
  BY <1>2, <1>3 DEF OpOK, Making
<1> HIDE DEF o
<1>5. /\ <<o>> \o Rest \in Seq(Ops) /\ PlanOK(<<o>> \o Rest, cl.live)
      /\ NowOf(<<o>> \o Rest) = o
      /\ \A i : PendIn(<<o>> \o Rest, i) <=> Pending(i) /\ (Now.f = "create" => Now.i # i)
  BY <1>2, <1>3, <1>4, Swapped DEF Inv, Making
<1>6. Becomes(cl', cl.peer, cl.live, c, <<o>> \o Rest)
  BY <1>1, <1>2, <1>5, SetClient DEF o
<1>7. /\ Now' = o
      /\ \A i : Pending(i)' <=> Pending(i) /\ (Now.f = "create" => Now.i # i)
  BY <1>5, <1>6 DEF Becomes, Now, Pending
<1>8. Wired(net', c, Append(net[c].req, r), net[c].rep, net[c].open, net[c].served)
  BY <1>1, SendWired
<1>9. Typed'
  BY <1>6, <1>8 DEF Inv, Typed, fault, Becomes, Wired
<1>10. Planned'
  BY <1>5, <1>6 DEF Planned, Becomes
<1>11. c # NoConn
  BY EngineAssumption DEF Conns, NoConn
<1>12. Cables'
  <2>1. \A d \in Conns : /\ net'[d].open = net[d].open /\ net'[d].served = net[d].served
                         /\ net'[d].rep = net[d].rep
                         /\ d # c => net'[d].req = net[d].req
    BY <1>8 DEF Wired
  <2>2. (Now'.f = "connect" => cl'.conn = NoConn) /\ cl'.conn = c
    BY <1>3, <1>6, <1>7 DEF Becomes
  <2>3. srv.wait \in Conns \cup {NoConn}
    BY DEF Inv, Typed, Servers
  <2> QED
    BY <1>11, <2>1, <2>2, <2>3 DEF Inv, Cables
<1>13. ASSUME Quiet' PROVE Right'
  <2>1. Quiet /\ Right
    BY <1>13 DEF Quiet, fault, Inv
  <2>2. net[c].req = <<>> /\ net[c].rep = <<>> /\ srv.wait # c
    BY <1>11, <2>1, Resting DEF Expecting, Silent
  <2>3. Append(<<>>, r) = <<r>> /\ Head(<<r>>) = r /\ Len(<<r>>) = 1 /\ <<r>>[1] = r /\ <<r>> # <<>>
    OBVIOUS
  <2>4. net'[c].req = <<r>> /\ net'[c].rep = <<>>
    BY <1>8, <2>2, <2>3 DEF Wired
  <2>5. Paired'
    <3>1. Asked(c)'
      BY <1>2, <1>3, <1>7, <2>2, <2>4 DEF Asked, Key, Want
    <3> QED
      BY <1>3, <1>6, <1>7, <3>1 DEF Paired, Becomes, Expecting
  <2>6. Addressed'
    <3>1. ASSUME NEW d \in Conns, NEW k \in 1..Len(net[d].req)'
          PROVE  AddressOK(d, net[d].req[k])'
      <4>1. CASE d = c
        <5>1. net'[d].req[k] = r
          BY SMTT(30), <2>3, <2>4, <4>1
        <5> QED
          BY <2>1, <4>1, <5>1 DEF AddressOK
      <4>2. CASE d # c
        <5>1. net'[d] = net[d]
          BY <1>8, <4>2 DEF Wired
        <5> QED
          BY SMTT(30), <2>1, <3>1, <5>1 DEF Right, Addressed, AddressOK
      <4> QED
        BY <4>1, <4>2
    <3> QED
      BY <3>1 DEF Addressed
  <2>7. Exact'
    <3>1. \A i \in Insts : Owned(i) = Expected(i)
      BY <1>11, <2>1 DEF Right, Exact, Up
    <3>2. \A i \in Insts : Owned(i)' = Owned(i)
      BY <1>6 DEF Owned, Becomes
    <3>3. ASSUME NEW i \in Insts PROVE Expected(i)' = Expected(i)
      <4>1. Siid(<<r>>) = {r.siid} \cap Siids /\ Siid(<<>>) = {}
        BY <2>3 DEF Siid
      <4>2. CASE f = "recv_new" /\ i = Me
        <5>1. Expected(i)' = {}
          BY <1>3, <1>6, <1>7, <2>4, <4>1, <4>2 DEF Expected, Becomes
        <5>2. Pending(i)
          <6>1. cl.todo # <<>> /\ Head(cl.todo) = cl.todo[1] /\ Len(cl.todo) \in Nat \ {0}
                /\ Now = Head(cl.todo)
            BY <1>1, NowFacts, SeqSplit DEF Inv, Clients
          <6>2. 1 \in 1..Len(cl.todo)
            BY <6>1
          <6> QED
            BY <1>2, <4>2, <6>1, <6>2 DEF Pending, PendIn
        <5>3. Expected(i) = {}
          BY <4>2, <5>2 DEF Expected
        <5> QED
          BY <5>1, <5>3
      <4>3. CASE f = "recv_new" /\ i # Me
        BY <1>2, <1>3, <1>6, <1>7, <4>3 DEF Expected, Becomes, Deleting
      <4>4. CASE f = "recv"
        <5>1. Now.f = "commit" /\ o.f = "recv" /\ (\A j : Pending(j)' <=> Pending(j))
          BY <1>3, <1>7, <4>4
        <5>2. Deleting(i, "commit") => i = Me /\ Siid(<<r>>) = {cl.peer[i]} \cap Siids
          BY <1>2, <4>1, <4>4 DEF Deleting
        <5>3. Deleting(i, "commit") => i \notin cl.live
          BY <1>2 DEF Deleting, OpOK
        <5>4. Deleting(i, "recv")' <=> Deleting(i, "commit")
          BY <1>2, <1>3, <1>7, <5>1 DEF Deleting
        <5>5. Expected(i) = IF Pending(i) THEN {}
                            ELSE IF i \in cl.live \/ Deleting(i, "commit")
                                   THEN {cl.peer[i]} \cap Siids ELSE {}
          BY <5>1 DEF Expected, Deleting
        <5>6. ~Deleting(i, "commit")'
          BY <1>7, <5>1 DEF Deleting
        <5>7. Expected(i)' = IF Pending(i)' THEN {}
                             ELSE IF i \in cl'.live THEN {cl'.peer[i]} \cap Siids
                             ELSE IF Deleting(i, "recv")' THEN Siid(net'[cl'.conn].req)
                             ELSE {}
          BY <1>7, <5>1, <5>6 DEF Expected
        <5>8. cl'.live = cl.live /\ cl'.peer = cl.peer /\ net'[cl'.conn].req = <<r>>
          BY <1>6, <2>4 DEF Becomes
        <5> QED
          BY <5>1, <5>2, <5>3, <5>4, <5>5, <5>7, <5>8
      <4>5. CASE f = "recv_icon"
        <5>1. Now.f = "icon" /\ o.f = "recv_icon" /\ (\A j : Pending(j)' <=> Pending(j))
          BY <1>3, <1>7, <4>5
        <5>2. cl'.live = cl.live /\ cl'.peer = cl.peer
          BY <1>6 DEF Becomes
        <5> QED
          BY <1>7, <5>1, <5>2 DEF Expected, Deleting
      <4> QED
        BY <4>2, <4>3, <4>4, <4>5
    <3> QED
      BY <3>1, <3>2, <3>3 DEF Exact
  <2> QED
    BY <2>1, <2>5, <2>6, <2>7 DEF Right, NoneWrong
<1> QED
  BY <1>9, <1>10, <1>12, <1>13 DEF Inv

\* commit_transaction
LEMMA CommitInv ==
  ASSUME Inv, commit_transaction
  PROVE  Inv'
<1> DEFINE cmd == Now.cmd
           sends == cl.peer[Me] # NoPeer /\ Up(cl.conn)
           r == Req(cmd, cl.peer[Me], Me)
<1>1. Now.f = "commit"
  BY DoingNow DEF commit_transaction
<1>2. /\ cl.todo # <<>> /\ Now = Head(cl.todo) /\ Now \in Ops /\ Now.i = Me /\ Me \in Insts
      /\ OpOK(Now, cl.live)
  BY <1>1, NowFacts DEF Inv
<1>3. /\ net' = IF sends THEN Send(cl.conn, r) ELSE net
      /\ cl' = [cl EXCEPT !.todo = <<Op(IF sends THEN "recv" ELSE "reconnect", Me, cmd)>> \o Rest]
      /\ srv' = srv /\ wrong' = wrong /\ UNCHANGED fault
  BY <1>2 DEF commit_transaction, fault
<1>4. cmd \in Cmds
  BY <1>2 DEF Ops
<1>5. CASE ~sends
  BY <1>1, <1>3, <1>4, <1>5, GivesUp
<1>6. CASE sends
  <2>1. cl.conn \in Conns \cup {NoConn} /\ cl.peer \in [Insts -> Siids \cup {NoPeer}]
    BY DEF Inv, Typed, Clients
  <2>2. cl.conn \in Conns /\ net[cl.conn].served /\ cl.peer[Me] \in Siids
    BY <1>2, <1>6, <2>1 DEF Up
  <2>3. r \in Messages
    BY <1>2, <1>4, <2>2, ConstantTypes
  <2>4. r.cmd = cmd /\ r.siid = cl.peer[Me] /\ r.who = Me
    BY DEF Req
  <2>5. cmd \in {"CALL", "RESET", "DEL", "LAST_RESET"}
    BY <1>1, <1>2 DEF OpOK
  <2>6. ASSUME Quiet PROVE AddressOK(cl.conn, r)
    <3>1. \A i \in Insts : Owned(i) = Expected(i)
      BY <1>1, <1>6, <2>6 DEF Inv, Right, Exact
    <3>2. cmd \in {"CALL", "RESET"} => Me \in cl.live
      BY <1>1, <1>2 DEF OpOK
    <3>3. ~Pending(Me)
      BY <1>1, NonePending DEF Inv, Typed, Clients, Planned, Pending, Now, Making
    <3>4. cmd \in {"CALL", "RESET", "DEL"} => Expected(Me) = {cl.peer[Me]}
      BY <1>1, <1>2, <2>2, <3>2, <3>3 DEF Expected, Deleting
    <3>5. cmd \in {"CALL", "RESET", "DEL"} =>
            srv.inst[cl.peer[Me]] = [conn |-> cl.conn, for |-> Me]
      BY <1>2, <3>1, <3>4 DEF Owned
    <3>6. [conn |-> cl.conn, for |-> Me] # NoInst
      BY <1>2, EngineAssumption DEF NoInst
    <3>7. cmd \in {"CALL", "RESET", "DEL"} => cl.peer[Me] < srv.count
      BY <2>2, <3>5, <3>6 DEF Inv, Cables
    <3>8. cl.peer[Me] # NoPeer
      BY <1>6
    <3> QED
      BY <2>4, <2>5, <3>5, <3>7, <3>8 DEF AddressOK
  <2>7. cl' = [cl EXCEPT !.todo = <<Op("recv", Me, Now.cmd)>> \o Rest]
    BY <1>3, <1>6
  <2>8. net' = Send(cl.conn, r)
    BY <1>3, <1>6
  <2>9. Key(r) = <<Now.cmd, Me>>
    BY <2>4 DEF Key
  <2> HIDE DEF r, sends, cmd
  <2> QED
    BY <1>1, <1>3, <2>2, <2>3, <2>4, <2>6, <2>7, <2>8, <2>9, SendInv
<1> QED
  BY <1>5, <1>6

\* create_peer_instance
LEMMA CreatePeerInv ==
  ASSUME Inv, create_peer_instance
  PROVE  Inv'
<1> DEFINE r == Req("NEW", NoPeer, Me)
<1>1. Now.f = "create"
  BY DoingNow DEF create_peer_instance
<1>2. /\ Now.i = Me /\ Me \in Insts /\ OpOK(Now, cl.live) /\ Now \in Ops
      /\ Rest \in Seq(Ops) /\ PlanOK(Rest, cl.live)
      /\ NowOf(Rest).f \in {"none", "create", "commit", "dead"}
  BY <1>1, NowFacts DEF Inv
<1>3. srv' = srv /\ wrong' = wrong /\ UNCHANGED fault /\ Now.cmd = "NEW"
  BY <1>1, <1>2 DEF create_peer_instance, fault, OpOK, Making
<1>4. cl \in Clients /\ cl.conn \in Conns \cup {NoConn} /\ cl.live \in SUBSET Insts
  BY DEF Inv, Typed, Clients
<1>5. CASE Up(cl.conn)
  <2>1. net' = Send(cl.conn, r) /\ cl' = [cl EXCEPT !.todo = <<Op("recv_new", Me, Now.cmd)>> \o Rest]
    BY <1>3, <1>5 DEF create_peer_instance
  <2>2. cl.conn \in Conns /\ net[cl.conn].served
    BY <1>4, <1>5 DEF Up
  <2>3. r \in Messages
    BY <1>2, ConstantTypes DEF Cmds
  <2>4. r.cmd = "NEW" /\ r.siid = NoPeer /\ r.who = Me
    BY DEF Req
  <2>5. AddressOK(cl.conn, r) /\ Key(r) = <<Now.cmd, Me>>
    BY <1>2, <1>3, <2>4 DEF AddressOK, Key
  <2> HIDE DEF r
  <2> QED
    BY <1>1, <1>3, <2>1, <2>2, <2>3, <2>5, SendInv
<1>6. CASE ~Up(cl.conn)
  <2>1. net' = net /\ cl' = [cl EXCEPT !.peer[Me] = NoPeer, !.todo = Rest]
    BY <1>6 DEF create_peer_instance
  <2>2. Becomes(cl', [cl.peer EXCEPT ![Me] = NoPeer], cl.live, cl.conn, Rest)
    BY <1>2, <1>4, <2>1, SetClient
  <2>3. Now' = NowOf(Rest)
    BY <2>2 DEF Becomes, Now
  <2>4. ASSUME Quiet', cl.conn # NoConn PROVE Silent(cl.conn)
    <3>1. Quiet
      BY <1>3, <2>4 DEF Quiet, fault
    <3> QED
      BY <1>1, <2>4, <3>1, Resting DEF Expecting
  <2>5. cl' \in Clients /\ cl'.conn = cl.conn /\ PlanOK(cl'.todo, cl'.live)
    BY <1>2, <2>2 DEF Becomes
  <2> QED
    BY <1>2, <1>3, <1>6, <2>1, <2>3, <2>4, <2>5, ClientKeeps DEF Expecting
<1> QED
  BY <1>5, <1>6

\* load_icon
LEMMA LoadIconInv ==
  ASSUME Inv, load_icon
  PROVE  Inv'
<1> DEFINE r == Req("FILE", NoPeer, Me)
<1>1. Now.f = "icon"
  BY DoingNow DEF load_icon
<1>2. Now.i = Me /\ Me \in Insts /\ Now.cmd = "FILE"
  BY <1>1, NowFacts DEF Inv, OpOK
<1>3. srv' = srv /\ wrong' = wrong /\ UNCHANGED fault
  BY DEF load_icon, fault
<1>4. CASE Up(cl.conn)
  <2>1. /\ net' = Send(cl.conn, r)
        /\ cl' = [cl EXCEPT !.todo = <<Op("recv_icon", Me, Now.cmd)>> \o Rest]
    BY <1>2, <1>4 DEF load_icon
  <2>2. cl.conn \in Conns /\ net[cl.conn].served
    BY <1>4 DEF Up, Inv, Typed, Clients
  <2>3. r \in Messages
    BY <1>2, ConstantTypes DEF Cmds
  <2>4. AddressOK(cl.conn, r) /\ Key(r) = <<Now.cmd, Me>>
    BY <1>2 DEF AddressOK, Key, Req
  <2> HIDE DEF r
  <2> QED
    BY <1>1, <1>3, <2>1, <2>2, <2>3, <2>4, SendInv
<1>5. CASE ~Up(cl.conn)
  <2>1. net' = net /\ cl' = [cl EXCEPT !.todo = Rest]
    BY <1>5 DEF load_icon
  <2>2. ASSUME Quiet', cl.conn # NoConn PROVE Silent(cl.conn)
    <3>1. Quiet
      BY <1>3, <2>2 DEF Quiet, fault
    <3> QED
      BY <1>1, <2>2, <3>1, Resting DEF Expecting
  <2> QED
    BY <1>1, <1>3, <2>1, <2>2, IconLessInv
<1> QED
  BY <1>4, <1>5

\* A question is answered, and the reply still awaited.
LEMMA AnswerInv ==
  ASSUME Inv, do_transaction, Head(net[cl.conn].rep).cmd = "TEXT"
  PROVE  Inv'
<1> DEFINE c == cl.conn
           r == Head(net[c].rep)
<1>1. Now.f = "recv" /\ c # NoConn /\ net[c].rep # <<>>
  BY DoingNow DEF do_transaction
<1>2. /\ net' = IF Up(c) THEN [Take(c) EXCEPT ![c].req = Append(@, r)] ELSE Take(c)
      /\ cl' = cl /\ wrong' = wrong /\ srv' = srv /\ UNCHANGED fault
  BY DEF do_transaction, fault
<1>3. net \in [Conns -> Wires] /\ c \in Conns /\ srv.wait \in Conns \cup {NoConn}
  BY <1>1 DEF Inv, Typed, Clients, Servers
<1>4. net[c].rep \in Seq(Messages) /\ r \in Messages
  <2>1. net[c].rep \in Seq(Messages)
    BY <1>3 DEF Wires
  <2> QED
    BY <1>1, <2>1, SeqSplit
<1>5. Wired(net', c, IF Up(c) THEN Append(net[c].req, r) ELSE net[c].req,
            Tail(net[c].rep), net[c].open, net[c].served)
  <2> HIDE DEF r
  <2>1. CASE Up(c)
    BY <1>1, <1>2, <1>3, <1>4, <2>1, AnswerWired
  <2>2. CASE ~Up(c)
    BY <1>1, <1>2, <1>3, <2>2, TakeWired
  <2> QED
    BY <2>1, <2>2
<1>6. Now' = Now /\ (\A i : Pending(i)' <=> Pending(i)) /\ Planned'
  BY <1>2 DEF Now, Pending, Inv, Planned
<1>7. Typed'
  BY <1>2, <1>5 DEF Inv, Typed, fault, Wired
<1>8. Cables'
  <2>1. \A d \in Conns : /\ net'[d].open = net[d].open /\ net'[d].served = net[d].served
                         /\ d # c => net'[d] = net[d]
    BY <1>5 DEF Wired
  <2>2. ~net[c].served => net'[c].req = net[c].req
    BY <1>5 DEF Wired, Up
  <2>3. net[c].open /\ (~net[c].served => net[c].req = <<>>)
    BY <1>3 DEF Inv, Cables
  <2>4. \A d \in Conns : (~net[d].open => net'[d].rep = <<>>)
                        /\ (~net[d].served => net'[d].req = <<>>)
    BY <2>1, <2>2, <2>3 DEF Inv, Cables
  <2>5. /\ srv.wait # NoConn => srv.wait \in Conns /\ net[srv.wait].served
        /\ \A s \in Siids : srv.inst[s] # NoInst =>
              /\ s < srv.count /\ srv.inst[s].conn \in Conns
              /\ net[srv.inst[s].conn].served
    BY <1>3 DEF Inv, Cables
  <2>6. cl'.conn = cl.conn /\ (Now'.f = "connect" => cl.conn = NoConn)
    BY <1>2, <1>6 DEF Inv, Cables
  <2> QED
    BY <1>1, <1>2, <2>1, <2>4, <2>5, <2>6, CablesKeep DEF Inv
<1>9. ASSUME Quiet' PROVE Right'
  <2>1. Quiet /\ Right
    BY <1>2, <1>9 DEF Quiet, fault, Inv
  <2>2. Now.cmd # "TEXT"
    BY <1>1, NowFacts DEF Inv, OpOK
  <2>3. \/ Asked(c) \/ Replied(c) \/ Asking(c) \/ Answered(c) \/ Lost(c)
    BY <1>1, <2>1 DEF Right, Paired, Expecting
  <2>4. ~Replied(c)
    <3>1. SUFFICES ASSUME NEW x \in Messages, net[c].rep = <<x>>, Key(x) = Want PROVE FALSE
      BY DEF Replied
    <3>2. r = x
      BY <3>1
    <3> QED
      BY <2>2, <3>1, <3>2 DEF Key, Want
  <2>5. net[c].rep = <<Text>> /\ (Asking(c) \/ Lost(c))
    BY <1>1, <2>3, <2>4 DEF Asked, Asking, Answered, Lost
  <2>6. r = Text /\ Tail(<<Text>>) = <<>> /\ Append(<<>>, Text) = <<Text>>
    BY <2>5
  <2>7. CASE Asking(c)
    <3>1. Up(c) /\ net[c].req = <<>>
      BY <1>1, <1>3, <2>7 DEF Asking, Up, Inv, Cables
    <3>2. net'[c].req = <<Text>> /\ net'[c].rep = <<>>
      BY <1>5, <2>5, <2>6, <3>1 DEF Wired
    <3>3. Answered(c)'
      BY <1>2, <1>6, <2>7, <3>2 DEF Answered, Asking, Want, Key
    <3>4. Paired'
      BY <1>1, <1>2, <1>6, <3>3 DEF Paired, Expecting
    <3>5. Addressed'
      <4>1. ASSUME NEW d \in Conns, NEW k \in 1..Len(net[d].req)'
            PROVE  AddressOK(d, net[d].req[k])'
        <5>1. CASE d = c
          <6>1. net'[d].req[k] = Text
            BY <3>2, <4>1, <5>1
          <6> QED
            BY <6>1 DEF AddressOK, Text, Req
        <5>2. CASE d # c
          <6>1. net'[d] = net[d]
            BY <1>5, <5>2 DEF Wired
          <6>2. AddressOK(d, net[d].req[k])
            BY <2>1, <4>1, <6>1 DEF Right, Addressed
          <6> QED
            BY <1>2, <6>1, <6>2 DEF AddressOK
        <5> QED
          BY <5>1, <5>2
      <4> QED
        BY <4>1 DEF Addressed
    <3>6. Exact'
      <4>1. \A i \in Insts : Owned(i) = Expected(i)
        BY <1>1, <2>1, <3>1 DEF Right, Exact
      <4>2. \A i : Owned(i)' = Owned(i)
        BY <1>2 DEF Owned
      <4>3. Siid(<<Text>>) = {} /\ Siid(<<>>) = {}
        <5>1. Head(<<Text>>).siid = NoPeer /\ NoPeer \notin Siids
          BY EngineAssumption DEF Text, Req, NoPeer, Siids
        <5> QED
          BY <5>1 DEF Siid
      <4>4. \A i : Expected(i)' = Expected(i)
        BY <1>1, <1>2, <1>6, <3>1, <3>2, <4>3 DEF Expected, Deleting
      <4> QED
        BY <4>1, <4>2, <4>4 DEF Exact
    <3> QED
      BY <1>2, <2>1, <3>4, <3>5, <3>6 DEF Right, NoneWrong
  <2>8. CASE Lost(c)
    <3>1. ~net[c].served /\ ~Up(c)
      BY <2>8 DEF Lost, Up
    <3>2. net'[c].rep = <<>> /\ ~net'[c].served /\ net'[c].req = net[c].req
      BY <1>5, <2>5, <2>6, <3>1 DEF Wired
    <3>3. Lost(c)'
      BY <1>2, <2>8, <3>2 DEF Lost
    <3>4. Paired'
      BY <1>1, <1>2, <1>6, <3>3 DEF Paired, Expecting
    <3>5. \A d \in Conns : net'[d].req = net[d].req
      BY <1>5, <3>2 DEF Wired
    <3>6. Addressed'
      BY <1>2, <2>1, <3>5, AddressedKeep DEF Right
    <3>7. Exact'
      BY <1>2, <3>2 DEF Exact, Up
    <3> QED
      BY <1>2, <2>1, <3>4, <3>6, <3>7 DEF Right, NoneWrong
  <2> QED
    BY <2>5, <2>7, <2>8
<1> QED
  BY <1>6, <1>7, <1>8, <1>9 DEF Inv

\* What comes after a reply: the loading of an icon, or what was left to do.
Follows(t) ==
  /\ PlanOK(t, cl.live) /\ NowOf(t).f \in {"none", "create", "commit", "dead", "icon"}
  /\ NowOf(t).f = "commit" => NowOf(t).cmd # "DEL"
  /\ ~PendIn(t, Me) /\ \A i : PendIn(t, i) <=> Pending(i)

LEMMA RestFollows ==
  ASSUME Inv, Now.f \in Expecting
  PROVE  Follows(Rest)
<1>1. /\ cl.todo \in Seq(Ops) /\ cl.todo # <<>> /\ Now = Head(cl.todo) /\ Now.i = Me
      /\ PlanOK(Rest, cl.live)
      /\ NowOf(Rest).f \in {"none", "create", "commit", "dead"}
      /\ NowOf(Rest).f = "commit" => NowOf(Rest).cmd # "DEL"
  BY NowFacts DEF Inv, Expecting
<1>2. /\ ~PendIn(Rest, Me)
      /\ \A i : Head(cl.todo).f # "create" => (PendIn(Rest, i) <=> PendIn(cl.todo, i))
  BY <1>1, TailPlan DEF Inv, Planned, Rest
<1>3. \A i : PendIn(Rest, i) <=> Pending(i)
  BY <1>1, <1>2 DEF Expecting, Pending
<1> QED
  BY <1>1, <1>2, <1>3 DEF Follows

LEMMA IconFollows ==
  ASSUME Inv, Now.f = "recv"
  PROVE  LET t == <<Op("icon", Me, "FILE")>> \o Rest
         IN  t \in Seq(Ops) /\ Follows(t)
<1> DEFINE o == Op("icon", Me, "FILE")
           t == <<o>> \o Rest
<1>1. Me \in Insts /\ Now.i = Me /\ cl.todo \in Seq(Ops)
  BY NowFacts DEF Inv
<1>2. o \in Ops /\ o.f = "icon" /\ o.i = Me /\ o.cmd = "FILE" /\ OpOK(o, cl.live)
  BY <1>1, ConstantTypes DEF Op, Steps, Cmds, OpOK, Making
<1> HIDE DEF o
<1>3. /\ t \in Seq(Ops) /\ PlanOK(t, cl.live) /\ NowOf(t) = o
      /\ \A i : PendIn(t, i) <=> Pending(i)
  BY <1>1, <1>2, Swapped DEF Inv, Making
<1>4. ~Pending(Me)
  BY <1>1, NonePending DEF Inv, Planned, Pending, Now, Making
<1> HIDE DEF t
<1>5. Follows(t)
  BY <1>2, <1>3, <1>4 DEF Follows
<1> QED
  BY <1>3, <1>5 DEF t, o

\* A reply is taken: it is the one to this call, and the connection is silent
\* again.
LEMMA TakeReplyInv ==
  ASSUME Inv, Now.f \in Expecting, net[cl.conn].rep # <<>>,
         Now.f = "recv" => Head(net[cl.conn].rep).cmd # "TEXT",
         net' = Take(cl.conn), srv' = srv, UNCHANGED fault,
         cl' \in Clients, cl'.conn = cl.conn, Follows(cl'.todo), cl'.live = cl.live,
         \A i \in Insts : Now.f # "recv_new" \/ i # Me => cl'.peer[i] = cl.peer[i],
         Now.f = "recv_new" =>
           cl'.peer[Me] = IF Head(net[cl.conn].rep).cmd = "NEW"
                            THEN Head(net[cl.conn].rep).siid ELSE NoPeer,
         Note("reply", Key(Head(net[cl.conn].rep)) # <<Now.cmd, Me>>)
  PROVE  Inv'
<1> DEFINE c == cl.conn
           r == Head(net[c].rep)
<1>1. /\ net \in [Conns -> Wires] /\ c \in Conns /\ c # NoConn
      /\ srv.wait \in Conns \cup {NoConn} /\ cl.todo \in Seq(Ops)
  BY DEF Inv, Typed, Clients, Servers, Cables
<1>2. Now.i = Me /\ Me \in Insts /\ OpOK(Now, cl.live)
  BY NowFacts DEF Inv, Expecting
<1>3. Wired(net', c, net[c].req, Tail(net[c].rep), net[c].open, net[c].served)
  BY <1>1, TakeWired
<1>4. /\ Now'.f \in {"none", "create", "commit", "dead", "icon"}
      /\ Now'.f = "commit" => Now'.cmd # "DEL"
      /\ \A i : i = Me => ~Pending(i)'
      /\ \A i : Pending(i)' <=> Pending(i)
      /\ Planned'
  BY DEF Follows, Now, Pending, Planned
<1>5. Typed' /\ Planned'
  BY <1>3, <1>4 DEF Inv, Typed, Wired, fault
<1>6. Cables'
  <2>1. \A d \in Conns : /\ net'[d].open = net[d].open /\ net'[d].served = net[d].served
                         /\ net'[d].req = net[d].req
                         /\ d # c => net'[d].rep = net[d].rep
    BY <1>3 DEF Wired
  <2>2. net[c].open
    BY <1>1 DEF Inv, Cables
  <2>3. \A d \in Conns : (~net[d].open => net'[d].rep = <<>>)
                        /\ (~net[d].served => net'[d].req = <<>>)
    BY <2>1, <2>2 DEF Inv, Cables
  <2>4. /\ srv.wait # NoConn => srv.wait \in Conns /\ net[srv.wait].served
        /\ \A s \in Siids : srv.inst[s] # NoInst =>
              /\ s < srv.count /\ srv.inst[s].conn \in Conns
              /\ net[srv.inst[s].conn].served
    BY <1>1 DEF Inv, Cables
  <2>5. Now'.f # "connect"
    BY <1>2, <1>4
  <2> HIDE DEF c
  <2> QED
    BY <1>1, <2>1, <2>3, <2>4, <2>5, CablesKeep DEF Inv, c
<1>7. ASSUME Quiet' PROVE Right'
  <2>1. Quiet /\ Right
    BY <1>7 DEF Quiet, fault, Inv
  <2>2. Replied(c)
    <3>1. \/ Asked(c) \/ Replied(c) \/ Asking(c) \/ Answered(c) \/ Lost(c)
      BY <2>1 DEF Right, Paired
    <3>2. Head(<<Text>>).cmd = "TEXT"
      BY DEF Text, Req
    <3>3. Now.f = "recv" => net[c].rep # <<Text>>
      BY <3>2
    <3> QED
      BY <3>1, <3>3 DEF Asked, Asking, Answered, Lost
  <2>3. PICK x \in Messages : net[c].rep = <<x>> /\ Key(x) = Want
    BY <2>2 DEF Replied
  <2>4. r = x /\ Tail(<<x>>) = <<>> /\ <<x>> # <<>>
    BY <2>3
  <2>5. Key(r) = <<Now.cmd, Me>>
    BY <1>2, <2>3, <2>4 DEF Want
  <2>6. NoneWrong'
    BY <2>1, <2>5 DEF Right, NoneWrong, Note
  <2>7. net'[c].rep = <<>> /\ net'[c].req = <<>> /\ srv.wait # c
    BY <1>3, <2>2, <2>3, <2>4 DEF Wired, Replied
  <2>8. Paired'
    BY <1>2, <1>4, <2>7 DEF Paired, Silent, Expecting
  <2>9. Addressed'
    <3>1. \A d \in Conns : net'[d].req = net[d].req
      BY <1>3 DEF Wired
    <3> QED
      BY <2>1, <3>1, AddressedKeep DEF Right
  <2>10. Exact'
    <3>1. SUFFICES ASSUME Up(c)', Now'.f # "reconnect"
                   PROVE  \A i \in Insts : Owned(i)' = Expected(i)'
      BY DEF Exact
    <3>2. Up(c)
      BY <1>1, <1>3, <3>1 DEF Up, Wired
    <3>3. \A i \in Insts : Owned(i) = Expected(i)
      BY <2>1, <3>2 DEF Right, Exact, Expecting
    <3>4. \A i : Owned(i)' = Owned(i)
      BY DEF Owned
    <3>5. \A i \in Insts : Expected(i)' = IF Pending(i)' THEN {}
                                          ELSE IF i \in cl.live THEN {cl'.peer[i]} \cap Siids
                                          ELSE {}
      BY <1>2, <1>4 DEF Expected, Deleting
    <3>6. \A i \in Insts : Expected(i)' = Expected(i)
      <4> SUFFICES ASSUME NEW i \in Insts PROVE Expected(i)' = Expected(i)
        OBVIOUS
      <4>1. CASE Now.f = "recv_new" /\ i = Me
        <5>1. i \in cl.live /\ Now.cmd = "NEW"
          BY <1>2, <4>1 DEF OpOK, Making
        <5>2. r.cmd = "NEW"
          BY <2>5, <5>1 DEF Key
        <5>3. Expected(i) = Siid(net[c].rep) /\ Siid(net[c].rep) = {r.siid} \cap Siids
          BY <1>2, <2>3, <2>4, <4>1 DEF Expected, Siid
        <5>4. cl'.peer[i] = r.siid
          BY <4>1, <5>2
        <5>5. ~Pending(i)'
          BY <1>4, <4>1
        <5> HIDE DEF r
        <5> QED
          BY <3>5, <5>1, <5>3, <5>4, <5>5
      <4>2. CASE Now.f = "recv_new" /\ i # Me
        BY <1>2, <1>4, <3>5, <4>2 DEF Expected, Deleting
      <4>3. CASE Now.f \in {"recv", "recv_icon"}
        <5>1. Siid(net[c].req) = {}
          BY <1>3, <2>7 DEF Siid, Wired
        <5> QED
          BY <1>4, <3>5, <4>3, <5>1 DEF Expected, Deleting
      <4> QED
        BY <4>1, <4>2, <4>3 DEF Expecting
    <3> QED
      BY <3>3, <3>4, <3>6
  <2> QED
    BY <2>6, <2>8, <2>9, <2>10 DEF Right
<1> QED
  BY <1>5, <1>6, <1>7 DEF Inv

\* do_transaction
LEMMA TransactionInv ==
  ASSUME Inv, do_transaction
  PROVE  Inv'
<1> DEFINE r == Head(net[cl.conn].rep)
<1>1. Now.f = "recv" /\ net[cl.conn].rep # <<>>
  BY DoingNow DEF do_transaction
<1>2. CASE r.cmd = "TEXT"
  BY <1>2, AnswerInv
<1>3. CASE r.cmd # "TEXT"
  <2>1. /\ net' = Take(cl.conn)
        /\ Note("reply", <<r.cmd, r.who>> # <<Head(cl.todo).cmd, Me>>)
        /\ srv' = srv /\ UNCHANGED fault
    BY <1>3 DEF do_transaction, fault
  <2>2. Rest \in Seq(Ops) /\ Me \in Insts /\ Now = Head(cl.todo) /\ <<>> \o Rest = Rest
    BY <1>1, NowFacts DEF Inv
  <2>6. \E t \in Seq(Ops) : Follows(t) /\ cl' = [cl EXCEPT !.todo = t]
    <3> DEFINE t == <<Op("icon", Me, "FILE")>> \o Rest
    <3>1. cl' = [cl EXCEPT !.todo = Rest] \/ cl' = [cl EXCEPT !.todo = t]
      BY <1>3, <2>2 DEF do_transaction, Icons
    <3>2. t \in Seq(Ops) /\ Follows(t) /\ Follows(Rest)
      BY <1>1, IconFollows, RestFollows DEF Expecting
    <3> HIDE DEF t
    <3> QED
      BY <2>2, <3>1, <3>2
  <2>7. PICK t \in Seq(Ops) : Follows(t) /\ cl' = [cl EXCEPT !.todo = t]
    BY <2>6
  <2>3. cl \in Clients /\ cl.live \in SUBSET Insts /\ cl.conn \in Conns \cup {NoConn}
    BY DEF Inv, Typed, Clients
  <2>4. Becomes(cl', cl.peer, cl.live, cl.conn, t)
    BY <2>2, <2>3, <2>7, SetClient
  <2>5. Note("reply", Key(r) # <<Now.cmd, Me>>)
    BY <2>1, <2>2 DEF Key
  <2> QED
    BY <1>1, <1>3, <2>1, <2>4, <2>5, <2>7, TakeReplyInv DEF Becomes, Expecting
<1> QED
  BY <1>2, <1>3

\* receive_peer
LEMMA ReceivePeerInv ==
  ASSUME Inv, receive_peer
  PROVE  Inv'
<1> DEFINE r == Head(net[cl.conn].rep)
           s == IF r.cmd = "NEW" THEN r.siid ELSE NoPeer
<1>1. /\ Now.f = "recv_new" /\ net[cl.conn].rep # <<>>
      /\ net' = Take(cl.conn) /\ srv' = srv /\ UNCHANGED fault
      /\ cl' = [cl EXCEPT !.peer[Me] = s, !.todo = Rest]
      /\ Note("reply", <<r.cmd, r.who>> # <<"NEW", Me>>)
  BY DoingNow DEF receive_peer, fault
<1>2. /\ Rest \in Seq(Ops) /\ Me \in Insts /\ OpOK(Now, cl.live)
  BY <1>1, NowFacts DEF Inv
<1>3. /\ cl \in Clients /\ cl.live \in SUBSET Insts /\ cl.conn \in Conns
      /\ net \in [Conns -> Wires]
  BY <1>1 DEF Inv, Typed, Clients, Cables, Expecting
<1>4. r \in Messages
  <2>1. net[cl.conn].rep \in Seq(Messages)
    BY <1>3 DEF Wires
  <2> QED
    BY <1>1, <2>1, SeqSplit
<1>5. s \in Siids \cup {NoPeer}
  BY <1>4 DEF Messages
<1>6. Now.cmd = "NEW"
  BY <1>1, <1>2 DEF OpOK, Making
<1>7. Note("reply", Key(r) # <<Now.cmd, Me>>)
  BY <1>1, <1>6 DEF Key
<1> HIDE DEF s
<1>8. Becomes(cl', [cl.peer EXCEPT ![Me] = s], cl.live, cl.conn, Rest)
  BY <1>1, <1>2, <1>3, <1>5, SetClient
<1>9. cl'.peer[Me] = s /\ \A i \in Insts : i # Me => cl'.peer[i] = cl.peer[i]
  BY <1>2, <1>3, <1>8 DEF Becomes, Clients
<1> QED
  BY <1>1, <1>7, <1>8, <1>9, RestFollows, TakeReplyInv DEF Becomes, Expecting, s

\* receive_icon
LEMMA ReceiveIconInv ==
  ASSUME Inv, receive_icon
  PROVE  Inv'
<1> DEFINE r == Head(net[cl.conn].rep)
<1>1. /\ Now.f = "recv_icon" /\ net[cl.conn].rep # <<>>
      /\ net' = Take(cl.conn) /\ srv' = srv /\ UNCHANGED fault
      /\ cl' = [cl EXCEPT !.todo = Rest]
      /\ Note("reply", <<r.cmd, r.who>> # <<"FILE", Me>>)
  BY DoingNow DEF receive_icon, fault
<1>2. /\ Rest \in Seq(Ops) /\ Me \in Insts /\ OpOK(Now, cl.live)
  BY <1>1, NowFacts DEF Inv
<1>3. cl \in Clients /\ cl.live \in SUBSET Insts /\ cl.conn \in Conns \cup {NoConn}
  BY DEF Inv, Typed, Clients
<1>4. Now.cmd = "FILE"
  BY <1>1, <1>2 DEF OpOK
<1>5. Note("reply", Key(r) # <<Now.cmd, Me>>)
  BY <1>1, <1>4 DEF Key
<1>6. Becomes(cl', cl.peer, cl.live, cl.conn, Rest)
  BY <1>1, <1>2, <1>3, SetClient
<1> QED
  BY <1>1, <1>5, <1>6, RestFollows, TakeReplyInv DEF Becomes, Expecting

\* The client closes its connection before it makes another.
LEMMA CloseInv ==
  ASSUME Inv, close_connection
  PROVE  Inv'
<1> DEFINE c == cl.conn
           o == Op("connect", Me, "RESET")
<1>1. /\ Now.f = "reconnect" /\ net' = Reap(c)
      /\ cl' = [cl EXCEPT !.conn = NoConn, !.todo = <<o>> \o Rest]
      /\ srv' = srv /\ wrong' = wrong /\ UNCHANGED fault
  BY DoingNow DEF close_connection, fault
<1>2. Me \in Insts /\ Now.i = Me /\ cl.todo \in Seq(Ops)
  BY <1>1, NowFacts DEF Inv
<1>3. /\ net \in [Conns -> Wires] /\ c \in Conns \cup {NoConn} /\ cl.live \in SUBSET Insts
      /\ cl \in Clients /\ srv.wait \in Conns \cup {NoConn} /\ NoConn \notin Conns
  BY EngineAssumption DEF Inv, Typed, Clients, Servers, NoConn, Conns
<1>4. o \in Ops /\ o.f = "connect" /\ o.i = Me /\ OpOK(o, cl.live)
  BY <1>2, ConstantTypes DEF Op, Steps, Cmds, OpOK, Making
<1> HIDE DEF o
<1>5. /\ <<o>> \o Rest \in Seq(Ops) /\ PlanOK(<<o>> \o Rest, cl.live)
      /\ NowOf(<<o>> \o Rest) = o
  BY <1>1, <1>2, <1>4, Swapped DEF Inv, Making
<1>6. Becomes(cl', cl.peer, cl.live, NoConn, <<o>> \o Rest)
  BY <1>1, <1>2, <1>3, <1>5, SetClient
<1>7. Now' = o
  BY <1>5, <1>6 DEF Now, Becomes
<1>8. /\ net' \in [Conns -> Wires]
      /\ \A d \in Conns :
           /\ net'[d].served = net[d].served /\ net'[d].rep = IF d = c THEN <<>> ELSE net[d].rep
           /\ net'[d].open = IF d = c THEN FALSE ELSE net[d].open
           /\ net'[d].req = net[d].req
  <2>1. CASE c = NoConn
    BY <1>1, <1>3, <2>1 DEF Reap
  <2>2. CASE c \in Conns
    <3> DEFINE w == IF net[c].served THEN [net[c] EXCEPT !.open = FALSE, !.rep = <<>>] ELSE Closed
    <3>1. net[c] \in Wires /\ (~net[c].served => net[c].req = <<>>)
      BY <1>3, <2>2 DEF Inv, Cables
    <3>2. /\ w \in Wires /\ w.req = net[c].req /\ w.rep = <<>> /\ w.open = FALSE
          /\ w.served = net[c].served
      <4>1. CASE net[c].served
        <5>1. w = [net[c] EXCEPT !.open = FALSE, !.rep = <<>>]
          BY <4>1
        <5>2. <<>> \in Seq(Messages)
          OBVIOUS
        <5> HIDE DEF w, c
        <5> QED
          BY <3>1, <5>1, <5>2 DEF Wires
      <4>2. CASE ~net[c].served
        <5>1. net[c].served = FALSE
          BY <3>1, <4>2 DEF Wires
        <5> QED
          BY <3>1, <4>2, <5>1, ConstantTypes DEF Closed
      <4> QED
        BY <4>1, <4>2
    <3>3. net' = [net EXCEPT ![c] = w]
      BY <1>1, <1>3, <2>2 DEF Reap
    <3> HIDE DEF w, c
    <3>4. Wired(net', c, w.req, w.rep, w.open, w.served)
      BY <1>3, <2>2, <3>2, <3>3, PutWired
    <3> QED
      BY <2>2, <3>2, <3>4 DEF Wired
  <2> QED
    BY <1>3, <2>1, <2>2
<1>9. Typed' /\ Planned'
  BY <1>1, <1>5, <1>6, <1>8 DEF Inv, Typed, Planned, Becomes, fault
<1>10. Cables'
  <2>1. cl'.conn = NoConn /\ Now'.f = "connect"
    BY <1>4, <1>6, <1>7 DEF Becomes
  <2>2. \A d \in Conns : (d = c) <=> net[d].open
    BY DEF Inv, Cables
  <2>a. \A d \in Conns : ~net[d].open => net[d].rep = <<>>
    BY DEF Inv, Cables
  <2>3. \A d \in Conns : (d = cl'.conn) <=> net'[d].open
    <3> SUFFICES ASSUME NEW d \in Conns PROVE (d = NoConn) <=> net'[d].open
      BY <2>1
    <3>1. d # NoConn /\ net'[d].open = IF d = c THEN FALSE ELSE net[d].open
      BY <1>3, <1>8
    <3> QED
      BY <2>2, <3>1
  <2>4. \A d \in Conns : net'[d].rep = <<>>
    <3> SUFFICES ASSUME NEW d \in Conns PROVE net'[d].rep = <<>>
      OBVIOUS
    <3>1. net'[d].rep = IF d = c THEN <<>> ELSE net[d].rep
      BY <1>8
    <3> QED
      BY <2>a, <2>2, <3>1
  <2>5. \A d \in Conns : ~net'[d].served => net'[d].req = <<>>
    <3>1. \A d \in Conns : ~net[d].served => net[d].req = <<>>
      BY DEF Inv, Cables
    <3> SUFFICES ASSUME NEW d \in Conns, ~net'[d].served PROVE net'[d].req = <<>>
      OBVIOUS
    <3>2. net'[d].served = net[d].served /\ net'[d].req = net[d].req
      BY <1>8
    <3> QED
      BY <3>1, <3>2
  <2>6. srv'.wait # NoConn => net'[srv'.wait].served
    BY <1>1, <1>3, <1>8 DEF Inv, Cables
  <2>7. ~srv'.up => \A d \in Conns : ~net'[d].served
    BY <1>1, <1>8 DEF Inv, Cables
  <2>8. \A s \in Siids : srv'.inst[s] # NoInst =>
           /\ s < srv'.count /\ srv'.inst[s].conn \in Conns
           /\ net'[srv'.inst[s].conn].served
    BY <1>1, <1>8 DEF Inv, Cables
  <2> QED
    BY <2>1, <2>3, <2>4, <2>5, <2>6, <2>7, <2>8 DEF Cables, Expecting
<1>11. ASSUME Quiet' PROVE Right'
  <2>1. Quiet /\ Right
    BY <1>1, <1>11 DEF Quiet, fault, Inv
  <2>2. cl'.conn = NoConn /\ Now'.f = "connect"
    BY <1>4, <1>6, <1>7 DEF Becomes
  <2>3. Paired' /\ Exact'
    BY <2>2 DEF Paired, Exact, Up, Expecting
  <2>4. Addressed'
    BY <1>1, <1>8, <2>1, AddressedKeep DEF Right
  <2> QED
    BY <1>1, <2>1, <2>3, <2>4 DEF Right, NoneWrong
<1> QED
  BY <1>9, <1>10, <1>11 DEF Inv

\* The client has a new connection, or the server is not there.
LEMMA ConnectInv ==
  ASSUME Inv, create_connection
  PROVE  Inv'
<1> DEFINE o == Op("commit", Me, ResetOf(Me))
           t == Everyone \o <<o>> \o Rest
<1>1. Now.f = "connect" /\ srv' = srv /\ wrong' = wrong /\ UNCHANGED fault
  BY DoingNow DEF create_connection, fault
<1>2. /\ Me \in Insts /\ Now.i = Me /\ cl.todo \in Seq(Ops)
      /\ Rest \in Seq(Ops) /\ PlanOK(Rest, cl.live)
      /\ NowOf(Rest).f \in {"none", "dead"}
  BY <1>1, NowFacts DEF Inv, Making
<1>3. /\ net \in [Conns -> Wires] /\ cl.live \in SUBSET Insts
      /\ cl \in Clients /\ srv.wait \in Conns \cup {NoConn} /\ NoConn \notin Conns
  BY EngineAssumption DEF Inv, Typed, Clients, Servers, NoConn, Conns
<1>4. cl.conn = NoConn
  BY <1>1 DEF Inv, Cables
<1>5. CASE ~srv.up /\ cl' = [cl EXCEPT !.todo = Rest] /\ UNCHANGED net
  <2>1. Becomes(cl', cl.peer, cl.live, cl.conn, Rest)
    BY <1>2, <1>3, <1>4, <1>5, SetClient
  <2>2. Now' = NowOf(Rest)
    BY <2>1 DEF Now, Becomes
  <2>3. cl' \in Clients /\ cl'.conn = cl.conn /\ PlanOK(cl'.todo, cl'.live)
    BY <1>2, <2>1 DEF Becomes
  <2> QED
    BY <1>1, <1>2, <1>4, <1>5, <2>2, <2>3, ClientKeeps DEF Expecting, Up
<1>6. ASSUME NEW c \in Conns, net[c] = Closed, srv.up, srv.wait = NoConn,
             net' = [net EXCEPT ![c] = [Closed EXCEPT !.open = TRUE, !.served = TRUE]],
             cl' = [cl EXCEPT !.conn = c, !.todo = t]
      PROVE  Inv'
  <2>1. o \in Ops /\ o.f = "commit" /\ o.i = Me /\ o.cmd = ResetOf(Me) /\ o.cmd # "DEL"
    BY <1>2, ConstantTypes DEF Op, Ops, Steps, Cmds, ResetOf
  <2>2. OpOK(o, cl.live)
    BY <2>1 DEF OpOK, Making, ResetOf
  <2> HIDE DEF o
  <2>3. /\ t \in Seq(Ops) /\ t # <<>> /\ PlanOK(t, cl.live)
        /\ \A i \in cl.live : PendIn(t, i)
        /\ Head(t).f \in {"create", "commit"}
        /\ Head(t).f = "commit" => Head(t) = o
    BY <1>1, <2>1, <2>2, ConnectPlan DEF Inv
  <2> HIDE DEF t
  <2>4. Becomes(cl', cl.peer, cl.live, c, t)
    BY <1>2, <1>3, <1>6, <2>3, SetClient
  <2>5. Now' = Head(t) /\ \A i \in cl.live : Pending(i)'
    BY <2>3, <2>4 DEF Now, NowOf, Pending, Becomes
  <2> DEFINE w == [Closed EXCEPT !.open = TRUE, !.served = TRUE]
  <2>6. w \in Wires /\ w.req = <<>> /\ w.rep = <<>> /\ w.open = TRUE /\ w.served = TRUE
    BY ConstantTypes DEF Wires, Closed
  <2> HIDE DEF w
  <2>7. Wired(net', c, <<>>, <<>>, TRUE, TRUE)
    BY <1>3, <1>6, <2>6, PutWired DEF w
  <2>8. net[c].req = <<>> /\ net[c].rep = <<>> /\ ~net[c].open /\ ~net[c].served
    BY <1>6 DEF Closed
  <2>9. Typed' /\ Planned'
    BY <1>1, <2>3, <2>4, <2>7 DEF Inv, Typed, Planned, Becomes, Wired, fault
  <2>10. Now'.f \in {"create", "commit"} /\ cl'.conn = c /\ c # NoConn
    BY <1>3, <2>3, <2>4, <2>5 DEF Becomes
  <2>11. \A s \in Siids : srv.inst[s] # NoInst => srv.inst[s].conn # c
    BY <2>8 DEF Inv, Cables
  <2>12. Cables'
    <3>1. \A d \in Conns : (d = cl'.conn) <=> net'[d].open
      BY <1>3, <1>4, <2>7, <2>10 DEF Wired, Inv, Cables
    <3>2. \A d \in Conns : (~net'[d].open => net'[d].rep = <<>>)
                          /\ (~net'[d].served => net'[d].req = <<>>)
      BY <2>7 DEF Wired, Inv, Cables
    <3>3. srv'.wait = NoConn /\ srv'.up
      BY <1>1, <1>6
    <3>4. \A s \in Siids : srv'.inst[s] # NoInst =>
           /\ s < srv'.count /\ srv'.inst[s].conn \in Conns
           /\ net'[srv'.inst[s].conn].served
      BY <1>1, <2>7, <2>11 DEF Wired, Inv, Cables
    <3> QED
      BY <2>10, <3>1, <3>2, <3>3, <3>4 DEF Cables, Expecting
  <2>13. ASSUME Quiet' PROVE Right'
    <3>1. Quiet /\ Right
      BY <1>1, <2>13 DEF Quiet, fault, Inv
    <3>2. Paired'
      BY <1>1, <1>6, <2>7, <2>10 DEF Paired, Expecting, Silent, Wired
    <3>3. \A d \in Conns : net'[d].req = net[d].req
      BY <2>7, <2>8 DEF Wired
    <3>4. Addressed'
      BY <1>1, <3>1, <3>3, AddressedKeep DEF Right
    <3>5. ASSUME NEW i \in Insts PROVE Owned(i)' = Expected(i)'
      <4>1. Owned(i)' = {}
        <5>1. [conn |-> c, for |-> i] # NoInst
          BY <2>10 DEF NoInst
        <5> QED
          BY <1>1, <2>10, <2>11, <5>1 DEF Owned
      <4>2. ~Deleting(i, "commit")' /\ ~Deleting(i, "recv")'
        BY <2>1, <2>3, <2>5 DEF Deleting
      <4>3. i \in cl'.live => Pending(i)'
        BY <2>4, <2>5 DEF Becomes
      <4>4. Expected(i)' = {}
        BY <2>10, <4>2, <4>3 DEF Expected
      <4> QED
        BY <4>1, <4>4
    <3>6. Exact'
      BY <3>5 DEF Exact
    <3> QED
      BY <1>1, <3>1, <3>2, <3>4, <3>6 DEF Right, NoneWrong
  <2> QED
    BY <2>9, <2>12, <2>13 DEF Inv
<1> QED
  <2>1. \/ ~srv.up /\ cl' = [cl EXCEPT !.todo = Rest] /\ UNCHANGED net
        \/ \E c \in Conns :
             /\ net[c] = Closed /\ srv.up /\ srv.wait = NoConn
             /\ net' = [net EXCEPT ![c] = [Closed EXCEPT !.open = TRUE, !.served = TRUE]]
             /\ cl' = [cl EXCEPT !.conn = c, !.todo = t]
    BY DEF create_connection
  <2> QED
    BY <1>5, <1>6, <2>1

-----------------------------------------------------------------------------
(* Steps of the server.                                                    *)

\* The instances the server has are those of connections it serves.
Kept ==
  \A s \in Siids : srv'.inst[s] # NoInst =>
    /\ s < srv'.count /\ srv'.inst[s].conn \in Conns
    /\ net[srv'.inst[s].conn].served

\* What the server does with a request: it answers it, asks back, or says that
\* it does not know it.
Outcome(c, x) ==
  \/ srv'.wait = NoConn /\ Key(x) = Key(Head(net[c].req))
  \/ /\ srv'.wait = c /\ srv'.call = Head(net[c].req) /\ x = Text
     /\ Head(net[c].req).cmd \in {"CALL", "RESET", "LAST_RESET"}
  \/ srv'.wait = NoConn /\ Head(net[c].req).cmd = "TEXT"

\* A request of the call under way is all there is on its connection.
LEMMA OnlyRequest ==
  ASSUME Inv, Quiet, NEW c \in Conns, c = cl.conn, Request(c), Now.f # "reconnect"
  PROVE  /\ Now.f \in Expecting /\ net[c].open /\ net[c].rep = <<>>
         /\ net[c].req = <<Head(net[c].req)>> /\ Key(Head(net[c].req)) = Want
         /\ Tail(net[c].req) = <<>> /\ OpOK(Now, cl.live)
         /\ Now.f = "recv_new" => Now.cmd = "NEW"
         /\ Now.f = "recv_icon" => Now.cmd = "FILE"
         /\ Now.f = "recv" => Now.cmd \in {"CALL", "RESET", "DEL", "LAST_RESET"}
<1>1. /\ srv.wait = NoConn /\ net[c].req # <<>> /\ net[c].served /\ c # NoConn
  BY EngineAssumption DEF Request, Free, NoConn, Conns
<1>2. Right /\ net[c].open
  BY DEF Inv, Cables
<1>3. Now.f \in Expecting
  BY <1>1, <1>2 DEF Right, Paired, Silent
<1>4. Asked(c)
  BY <1>1, <1>2, <1>3 DEF Right, Paired, Replied, Asking, Answered, Lost
<1>5. PICK r \in Messages : net[c].req = <<r>> /\ Key(r) = Want
  BY <1>4 DEF Asked
<1>6. Head(<<r>>) = r /\ Tail(<<r>>) = <<>>
  OBVIOUS
<1>7. OpOK(Now, cl.live)
  BY <1>3, NowFacts DEF Inv, Expecting
<1> QED
  BY <1>2, <1>3, <1>4, <1>5, <1>6, <1>7 DEF Asked, OpOK, Making

\* The server deals with a request.
LEMMA ServeInv ==
  ASSUME Inv, NEW c \in Conns, Request(c), NEW x \in Messages, Outcome(c, x),
         net' = Reply(Done(c), c, x), cl' = cl, UNCHANGED fault,
         srv' \in Servers, srv'.up = srv.up, Kept,
         Quiet => \A d \in Conns, r \in Messages : AddressOK(d, r) => AddressOK(d, r)',
         Quiet => NoneWrong',
         Quiet /\ c # cl.conn => \A i \in Insts : Owned(i)' = Owned(i),
         Quiet /\ c = cl.conn /\ Now.f # "reconnect" /\ Now' = Now
           /\ net'[c].req = <<>> /\ net'[c].rep = <<x>> =>
              \A i \in Insts : Owned(i)' = Expected(i)'
  PROVE  Inv'
<1>1. /\ srv.wait = NoConn /\ net[c].req # <<>> /\ net[c].served /\ c # NoConn
      /\ NoConn \notin Conns
  BY EngineAssumption DEF Request, Free, NoConn, Conns
<1>2. net \in [Conns -> Wires] /\ cl.conn \in Conns \cup {NoConn}
  BY DEF Inv, Typed, Clients
<1>3. Wired(net', c, Tail(net[c].req),
            IF net[c].open THEN Append(net[c].rep, x) ELSE net[c].rep,
            net[c].open, net[c].served)
  BY <1>1, <1>2, ReplyWired
<1>4. Now' = Now /\ Planned' /\ \A i : Pending(i)' <=> Pending(i)
  BY DEF Now, Inv, Planned, Pending
<1>5. Typed'
  BY <1>3 DEF Inv, Typed, Wired, fault
<1>6. Cables'
  <2>1. \A d \in Conns : /\ net'[d].open = net[d].open /\ net'[d].served = net[d].served
                         /\ ~net[d].open => net'[d].rep = <<>>
                         /\ ~net[d].served => net'[d].req = <<>>
    <3> SUFFICES ASSUME NEW d \in Conns
                 PROVE  /\ net'[d].open = net[d].open /\ net'[d].served = net[d].served
                        /\ ~net[d].open => net'[d].rep = <<>>
                        /\ ~net[d].served => net'[d].req = <<>>
      OBVIOUS
    <3>1. (~net[d].open => net[d].rep = <<>>) /\ (~net[d].served => net[d].req = <<>>)
      BY DEF Inv, Cables
    <3>2. CASE d = c
      BY <1>1, <1>3, <3>1, <3>2 DEF Wired
    <3>3. CASE d # c
      BY <1>3, <3>1, <3>3 DEF Wired
    <3> QED
      BY <3>2, <3>3
  <2>2. Now.f = "connect" => cl.conn = NoConn
    BY DEF Inv, Cables
  <2>3. Now.f \in Expecting => cl.conn # NoConn
    BY DEF Inv, Cables
  <2>4. srv'.wait # NoConn => srv'.wait \in Conns /\ net[srv'.wait].served
    BY <1>1 DEF Outcome
  <2> QED
    BY <1>4, <2>1, <2>2, <2>3, <2>4, CablesKeep DEF Inv, Kept
<1>7. ASSUME Quiet' PROVE Right'
  <2>1. Quiet /\ Right
    BY <1>7 DEF Quiet, fault, Inv
  <2>2. Addressed'
    <3>1. ASSUME NEW d \in Conns, NEW k \in 1..Len(net[d].req)'
          PROVE  AddressOK(d, net[d].req[k])'
      <4>1. CASE d = c
        <5>1. net'[d].req = Tail(net[c].req)
          BY <1>3, <4>1 DEF Wired
        <5>2. AddressOK(c, Tail(net[c].req)[k])
          BY <1>1, <2>1, <3>1, <5>1, AddressedTail DEF Inv, Right
        <5>3. Tail(net[c].req)[k] \in Messages
          <6>1. net[c].req \in Seq(Messages)
            BY <1>2 DEF Wires
          <6>2. Tail(net[c].req) \in Seq(Messages) /\ k \in 1..Len(Tail(net[c].req))
            BY <1>1, <3>1, <5>1, <6>1, SeqSplit
          <6> QED
            BY <6>2
        <5>a. PICK y \in Messages : y = Tail(net[c].req)[k]
          BY <5>3
        <5>4. AddressOK(c, y)'
          BY <2>1, <5>2, <5>a
        <5>5. net'[d].req[k] = y
          BY <5>1, <5>a
        <5> QED
          BY <4>1, <5>4, <5>5 DEF AddressOK
      <4>2. CASE d # c
        <5>1. net'[d] = net[d]
          BY <1>3, <4>2 DEF Wired
        <5>2. net[d].req[k] \in Messages /\ AddressOK(d, net[d].req[k])
          <6>1. net[d].req \in Seq(Messages) /\ k \in 1..Len(net[d].req)
            BY <1>2, <3>1, <5>1 DEF Wires
          <6> QED
            BY <2>1, <6>1 DEF Right, Addressed
        <5> QED
          BY <2>1, <5>1, <5>2 DEF AddressOK
      <4> QED
        BY <4>1, <4>2
    <3> QED
      BY <3>1 DEF Addressed
  <2>3. CASE c # cl.conn
    <3>1. cl.conn \in Conns => net'[cl.conn] = net[cl.conn]
      BY <1>3, <2>3 DEF Wired
    <3>2. srv'.wait # cl.conn \/ cl.conn = NoConn
      BY <2>3 DEF Outcome
    <3>3. Paired'
      <4>1. cl.conn \in Conns => ~Asking(cl.conn) /\ ~Answered(cl.conn)
        BY <1>1 DEF Asking, Answered
      <4>2. CASE cl.conn \in Conns
        <5>1. (Asked(cl.conn) => Asked(cl.conn)') /\ (Replied(cl.conn) => Replied(cl.conn)')
              /\ (Lost(cl.conn) => Lost(cl.conn)') /\ (Silent(cl.conn) => Silent(cl.conn)')
          BY <1>1, <1>4, <3>1, <3>2, <4>2 DEF Asked, Replied, Lost, Silent, Want, Key
        <5> QED
          BY <1>4, <2>1, <4>1, <4>2, <5>1 DEF Right, Paired
      <4>3. CASE cl.conn = NoConn
        <5>1. Now.f \notin Expecting
          BY <4>3 DEF Inv, Cables
        <5> QED
          BY <1>4, <4>3, <5>1 DEF Paired
      <4> QED
        BY <1>2, <4>2, <4>3
    <3>4. Exact'
      <4>1. SUFFICES ASSUME Up(cl.conn)', Now'.f # "reconnect"
                     PROVE  \A i \in Insts : Owned(i)' = Expected(i)'
        BY DEF Exact
      <4>2. cl.conn \in Conns /\ Up(cl.conn)
        BY <1>2, <3>1, <4>1 DEF Up
      <4>3. \A i \in Insts : Owned(i) = Expected(i)
        BY <1>4, <2>1, <4>1, <4>2 DEF Right, Exact
      <4>4. \A i \in Insts : Expected(i)' = Expected(i)
        BY <1>4, <3>1, <4>2 DEF Expected, Deleting
      <4> QED
        BY <2>1, <2>3, <4>3, <4>4
    <3> QED
      BY <2>1, <2>2, <3>3, <3>4 DEF Right
  <2>4. CASE c = cl.conn /\ Now.f = "reconnect"
    <3>1. Paired' /\ Exact'
      BY <1>4, <2>4 DEF Paired, Exact, Expecting
    <3> QED
      BY <2>1, <2>2, <3>1 DEF Right
  <2>5. CASE c = cl.conn /\ Now.f # "reconnect"
    <3>1. /\ Now.f \in Expecting /\ net[c].open /\ net[c].rep = <<>>
          /\ Tail(net[c].req) = <<>> /\ Key(Head(net[c].req)) = Want
          /\ Now.f = "recv_new" => Now.cmd = "NEW"
          /\ Now.f = "recv_icon" => Now.cmd = "FILE"
          /\ Now.f = "recv" => Now.cmd \in {"CALL", "RESET", "DEL", "LAST_RESET"}
      BY <2>1, <2>5, OnlyRequest
    <3>2. net'[c].req = <<>> /\ net'[c].rep = <<x>>
      <4>1. Append(<<>>, x) = <<x>>
        OBVIOUS
      <4> QED
        BY <1>3, <3>1, <4>1 DEF Wired
    <3>3. Head(net[c].req).cmd = Now.cmd
      BY <3>1 DEF Key, Want
    <3>4. Paired'
      <4>1. CASE srv'.wait = NoConn /\ Key(x) = Key(Head(net[c].req))
        <5>1. Replied(c)'
          BY <1>1, <1>4, <3>1, <3>2, <4>1 DEF Replied, Want, Key
        <5> QED
          BY <1>4, <2>5, <3>1, <5>1 DEF Paired, Expecting
      <4>2. CASE /\ srv'.wait = c /\ srv'.call = Head(net[c].req) /\ x = Text
                 /\ Head(net[c].req).cmd \in {"CALL", "RESET", "LAST_RESET"}
        <5>1. Now.f = "recv"
          BY <3>1, <3>3, <4>2 DEF Expecting
        <5>2. Asking(c)'
          BY <1>4, <3>1, <3>2, <4>2, <5>1 DEF Asking, Want, Key
        <5> QED
          BY <1>4, <2>5, <3>1, <5>2 DEF Paired, Expecting
      <4>3. CASE Head(net[c].req).cmd = "TEXT"
        BY <3>1, <3>3, <4>3 DEF Expecting
      <4> QED
        BY <4>1, <4>2, <4>3 DEF Outcome
    <3>5. Exact'
      BY <1>4, <2>1, <2>5, <3>2 DEF Exact
    <3> QED
      BY <2>1, <2>2, <3>4, <3>5 DEF Right
  <2> QED
    BY <2>3, <2>4, <2>5
<1> QED
  BY <1>4, <1>5, <1>6, <1>7 DEF Inv

\* The request the server takes.
LEMMA HeadFacts ==
  ASSUME Inv, NEW c \in Conns, Request(c)
  PROVE  /\ Head(net[c].req) \in Messages /\ net[c].req # <<>> /\ net[c].served
         /\ srv.up /\ srv.wait = NoConn /\ srv \in Servers /\ c # NoConn
         /\ Quiet => AddressOK(c, Head(net[c].req)) /\ Right
<1>1. /\ net[c].req # <<>> /\ net[c].served /\ srv.up /\ srv.wait = NoConn
      /\ srv \in Servers /\ c # NoConn /\ net \in [Conns -> Wires]
  BY EngineAssumption DEF Request, Free, Inv, Typed, NoConn, Conns
<1>2. net[c].req \in Seq(Messages)
  BY <1>1 DEF Wires
<1>3. Head(net[c].req) \in Messages
  BY <1>1, <1>2, SeqSplit
<1> QED
  BY <1>1, <1>3, AddressedHead DEF Inv, Right

\* A request that names its own instance does nothing wrong.
LEMMA ServedRight ==
  ASSUME Inv, Quiet, NEW c \in Conns, NEW r, AddressOK(c, r), Served(r),
         r.cmd \in {"CALL", "RESET", "DEL", "LAST_RESET"}
  PROVE  NoneWrong'
<1>1. NoneWrong
  BY DEF Inv, Right
<1>2. CASE r.cmd = "LAST_RESET"
  BY <1>1, <1>2 DEF Served, Note, NoneWrong
<1>3. CASE r.cmd # "LAST_RESET"
  <2>1. srv.inst[r.siid].for \in {r.who, Nobody}
    BY <1>3 DEF AddressOK, NoInst
  <2> QED
    BY <1>1, <1>3, <2>1 DEF Served, Note, NoneWrong
<1> QED
  BY <1>2, <1>3

\* The books are as they were.
LEMMA KeptAsBefore ==
  ASSUME Inv, srv'.inst = srv.inst, srv'.count = srv.count
  PROVE  /\ Kept /\ (\A i \in Insts : cl' = cl => Owned(i)' = Owned(i))
         /\ \A d \in Conns, r \in Messages : AddressOK(d, r) => AddressOK(d, r)'
<1>1. Kept
  BY DEF Kept, Inv, Cables
<1>2. \A i \in Insts : cl' = cl => Owned(i)' = Owned(i)
  BY DEF Owned
<1>3. \A d \in Conns, r \in Messages : AddressOK(d, r) => AddressOK(d, r)'
  BY DEF AddressOK
<1> QED
  BY <1>1, <1>2, <1>3

\* A call of an instance, and what comes of it.
LEMMA CallInstanceInv ==
  ASSUME Inv, NEW c \in Conns, socket_call_instance(c)
  PROVE  Inv'
<1> DEFINE r == Head(net[c].req)
<1>1. /\ Request(c) /\ r.cmd \in {"CALL", "RESET", "LAST_RESET"}
      /\ net' = Reply(Done(c), c, r) /\ Served(r) /\ cl' = cl /\ srv' = srv /\ UNCHANGED fault
  BY DEF socket_call_instance, fault
<1>2. /\ r \in Messages /\ srv \in Servers /\ srv.wait = NoConn
      /\ Quiet => AddressOK(c, r) /\ Right
  BY <1>1, HeadFacts
<1>3. Outcome(c, r)
  BY <1>1, <1>2 DEF Outcome
<1>4. /\ Kept /\ \A i \in Insts : Owned(i)' = Owned(i)
      /\ \A d \in Conns, m \in Messages : AddressOK(d, m) => AddressOK(d, m)'
  BY <1>1, KeptAsBefore
<1>5. Quiet => NoneWrong'
  BY <1>1, <1>2, ServedRight
<1>6. ASSUME Quiet, c = cl.conn, Now.f # "reconnect", Now' = Now
      PROVE  \A i \in Insts : Owned(i)' = Expected(i)'
  <2>1. /\ Now.f \in Expecting /\ Key(r) = Want /\ OpOK(Now, cl.live)
        /\ Now.f = "recv_new" => Now.cmd = "NEW"
        /\ Now.f = "recv_icon" => Now.cmd = "FILE"
    BY <1>1, <1>6, OnlyRequest
  <2>2. Now.f = "recv" /\ Now.cmd # "DEL"
    BY <1>1, <2>1 DEF Key, Want, Expecting
  <2>3. \A i \in Insts : Owned(i) = Expected(i)
    BY <1>1, <1>2, <1>6, HeadFacts DEF Right, Exact, Up
  <2>4. \A i \in Insts : Expected(i)' = Expected(i)
    BY <1>1, <1>6, <2>2 DEF Expected, Deleting, Pending
  <2> QED
    BY <1>4, <2>3, <2>4
<1> QED
  BY <1>1, <1>2, <1>3, <1>4, <1>5, <1>6, ServeInv

\* The server asks back.
LEMMA AskInv ==
  ASSUME Inv, NEW c \in Conns, get_surrounding_text(c)
  PROVE  Inv'
<1> DEFINE r == Head(net[c].req)
<1>1. /\ Request(c) /\ r.cmd \in {"CALL", "RESET", "LAST_RESET"}
      /\ net' = Reply(Done(c), c, Text) /\ Served(r) /\ cl' = cl /\ UNCHANGED fault
      /\ srv' = [srv EXCEPT !.wait = c, !.call = r]
  BY DEF get_surrounding_text, fault, Text
<1>2. /\ r \in Messages /\ srv \in Servers /\ srv.wait = NoConn
      /\ Quiet => AddressOK(c, r) /\ Right
  BY <1>1, HeadFacts
<1>3. /\ srv' \in Servers /\ srv'.up = srv.up /\ srv'.wait = c /\ srv'.call = r
      /\ srv'.count = srv.count /\ srv'.inst = srv.inst
  <2> DEFINE z == [srv EXCEPT !.wait = c, !.call = r]
  <2>1. z \in Servers /\ z.up = srv.up /\ z.wait = c /\ z.call = r
        /\ z.count = srv.count /\ z.inst = srv.inst
    BY <1>2 DEF Servers
  <2> QED
    BY <1>1, <2>1
<1>4. Outcome(c, Text) /\ Text \in Messages
  BY <1>1, <1>3, ConstantTypes DEF Outcome
<1>5. /\ Kept /\ \A i \in Insts : Owned(i)' = Owned(i)
      /\ \A d \in Conns, m \in Messages : AddressOK(d, m) => AddressOK(d, m)'
  BY <1>1, <1>3, KeptAsBefore
<1>6. Quiet => NoneWrong'
  BY <1>1, <1>2, ServedRight
<1>7. ASSUME Quiet, c = cl.conn, Now.f # "reconnect", Now' = Now
      PROVE  \A i \in Insts : Owned(i)' = Expected(i)'
  <2>1. /\ Now.f \in Expecting /\ Key(r) = Want
        /\ Now.f = "recv_new" => Now.cmd = "NEW"
        /\ Now.f = "recv_icon" => Now.cmd = "FILE"
    BY <1>1, <1>7, OnlyRequest
  <2>2. Now.f = "recv" /\ Now.cmd # "DEL"
    BY <1>1, <2>1 DEF Key, Want, Expecting
  <2>3. \A i \in Insts : Owned(i) = Expected(i)
    BY <1>1, <1>2, <1>7, HeadFacts DEF Right, Exact, Up
  <2>4. \A i \in Insts : Expected(i)' = Expected(i)
    BY <1>1, <1>7, <2>2 DEF Expected, Deleting, Pending
  <2> QED
    BY <1>5, <2>3, <2>4
<1> HIDE DEF r
<1> QED
  BY <1>1, <1>3, <1>4, <1>5, <1>6, <1>7, ServeInv

\* A file, or what the factory is asked for.
LEMMA LoadFileInv ==
  ASSUME Inv, NEW c \in Conns, socket_load_file(c)
  PROVE  Inv'
<1> DEFINE r == Head(net[c].req)
<1>1. /\ Request(c) /\ r.cmd \in {"FILE", "FACTORY"}
      /\ net' = Reply(Done(c), c, r) /\ cl' = cl /\ srv' = srv /\ wrong' = wrong
      /\ UNCHANGED fault
  BY DEF socket_load_file, fault
<1>2. /\ r \in Messages /\ srv \in Servers /\ srv.wait = NoConn
      /\ Quiet => Right
  BY <1>1, HeadFacts
<1>3. Outcome(c, r)
  BY <1>1, <1>2 DEF Outcome
<1>4. /\ Kept /\ \A i \in Insts : Owned(i)' = Owned(i)
      /\ \A d \in Conns, m \in Messages : AddressOK(d, m) => AddressOK(d, m)'
  BY <1>1, KeptAsBefore
<1>5. Quiet => NoneWrong'
  BY <1>1, <1>2 DEF Right, NoneWrong
<1>6. ASSUME Quiet, c = cl.conn, Now.f # "reconnect", Now' = Now
      PROVE  \A i \in Insts : Owned(i)' = Expected(i)'
  <2>1. /\ Now.f \in Expecting /\ Key(r) = Want
        /\ Now.f = "recv_new" => Now.cmd = "NEW"
        /\ Now.f = "recv" => Now.cmd \in {"CALL", "RESET", "DEL", "LAST_RESET"}
    BY <1>1, <1>6, OnlyRequest
  <2>2. Now.f = "recv_icon"
    BY <1>1, <2>1 DEF Key, Want, Expecting
  <2>3. \A i \in Insts : Owned(i) = Expected(i)
    BY <1>1, <1>2, <1>6, HeadFacts DEF Right, Exact, Up
  <2>4. \A i \in Insts : Expected(i)' = Expected(i)
    BY <1>1, <1>6, <2>2 DEF Expected, Deleting, Pending
  <2> QED
    BY <1>4, <2>3, <2>4
<1> QED
  BY <1>1, <1>2, <1>3, <1>4, <1>5, <1>6, ServeInv

\* A request the server does not know.
LEMMA UnknownInv ==
  ASSUME Inv, NEW c \in Conns, UnknownRequest(c)
  PROVE  Inv'
<1> DEFINE r == Head(net[c].req)
           x == Req("FAIL", NoPeer, Nobody)
<1>1. /\ Request(c) /\ r.cmd = "TEXT"
      /\ net' = Reply(Done(c), c, x) /\ cl' = cl /\ srv' = srv /\ wrong' = wrong
      /\ UNCHANGED fault
  BY DEF UnknownRequest, fault
<1>2. /\ srv \in Servers /\ srv.wait = NoConn /\ (Quiet => Right)
  BY <1>1, HeadFacts
<1>3. Outcome(c, x) /\ x \in Messages
  BY <1>1, <1>2, ConstantTypes DEF Outcome
<1>4. /\ Kept /\ \A i \in Insts : Owned(i)' = Owned(i)
      /\ \A d \in Conns, m \in Messages : AddressOK(d, m) => AddressOK(d, m)'
  BY <1>1, KeptAsBefore
<1>5. Quiet => NoneWrong'
  BY <1>1, <1>2 DEF Right, NoneWrong
<1>6. ASSUME Quiet, c = cl.conn, Now.f # "reconnect" PROVE FALSE
  <2>1. /\ Now.f \in Expecting /\ Key(r) = Want
        /\ Now.f = "recv_new" => Now.cmd = "NEW"
        /\ Now.f = "recv_icon" => Now.cmd = "FILE"
        /\ Now.f = "recv" => Now.cmd \in {"CALL", "RESET", "DEL", "LAST_RESET"}
    BY <1>1, <1>6, OnlyRequest
  <2> QED
    BY <1>1, <2>1 DEF Key, Want, Expecting
<1> HIDE DEF x
<1> QED
  BY <1>1, <1>2, <1>3, <1>4, <1>5, <1>6, ServeInv

\* An instance is created, or the factory is not there.
LEMMA NewInstanceInv ==
  ASSUME Inv, NEW c \in Conns, socket_new_instance(c)
  PROVE  Inv'
<1> DEFINE r == Head(net[c].req)
           x == [r EXCEPT !.siid = srv.count]
           n == srv.count
           e == [conn |-> c, for |-> r.who]
<1>1. /\ Request(c) /\ r.cmd = "NEW" /\ cl' = cl /\ wrong' = wrong /\ UNCHANGED fault
  BY DEF socket_new_instance, fault
<1>2. /\ r \in Messages /\ srv \in Servers /\ srv.wait = NoConn
      /\ Quiet => AddressOK(c, r) /\ Right
  BY <1>1, HeadFacts
<1>3. Quiet => NoneWrong'
  BY <1>1, <1>2 DEF Right, NoneWrong
<1>4. ASSUME Quiet, c = cl.conn, Now.f # "reconnect"
      PROVE  /\ Now.f = "recv_new" /\ r.who = Now.i /\ net[c].rep = <<>>
             /\ \A i \in Insts : Owned(i) = IF i = Now.i THEN {} ELSE Expected(i)
  <2>1. /\ Now.f \in Expecting /\ Key(r) = Want /\ net[c].rep = <<>>
        /\ Now.f = "recv_icon" => Now.cmd = "FILE"
        /\ Now.f = "recv" => Now.cmd \in {"CALL", "RESET", "DEL", "LAST_RESET"}
    BY <1>1, <1>4, OnlyRequest
  <2>2. Now.f = "recv_new" /\ r.who = Now.i
    BY <1>1, <2>1 DEF Key, Want, Expecting
  <2>3. \A i \in Insts : Owned(i) = Expected(i)
    BY <1>1, <1>2, <1>4, HeadFacts DEF Right, Exact, Up
  <2>4. \A i \in Insts : i = Now.i => Expected(i) = {}
    BY <1>4, <2>1, <2>2 DEF Expected, Siid
  <2> QED
    BY <2>1, <2>2, <2>3, <2>4
<1>5. CASE ~srv.has
  <2>1. net' = Reply(Done(c), c, r) /\ srv' = srv
    BY <1>5 DEF socket_new_instance
  <2>2. /\ Kept /\ \A i \in Insts : Owned(i)' = Owned(i)
        /\ \A d \in Conns, m \in Messages : AddressOK(d, m) => AddressOK(d, m)'
    BY <1>1, <2>1, KeptAsBefore
  <2>3. Outcome(c, r)
    BY <1>2, <2>1 DEF Outcome
  <2>4. ASSUME Quiet, c = cl.conn, Now.f # "reconnect", Now' = Now, net'[c].rep = <<r>>
        PROVE  \A i \in Insts : Owned(i)' = Expected(i)'
    <3>1. Siid(<<r>>) = {}
      <4>1. r.siid = NoPeer /\ NoPeer \notin Siids
        BY <1>1, <1>2, <2>4, EngineAssumption DEF AddressOK, NoPeer, Siids
      <4>2. Head(<<r>>) = r
        OBVIOUS
      <4> HIDE DEF r
      <4> QED
        BY <4>1, <4>2 DEF Siid
    <3>2. \A i \in Insts : Expected(i)' = IF i = Now.i THEN Siid(<<r>>) ELSE Expected(i)
      BY <1>1, <1>4, <2>4 DEF Expected, Deleting, Pending
    <3> QED
      BY <1>4, <2>2, <2>4, <3>1, <3>2
  <2> QED
    BY <1>1, <1>2, <1>3, <2>1, <2>2, <2>3, <2>4, ServeInv
<1>6. CASE srv.has
  <2>1. /\ n < MaxSiid /\ net' = Reply(Done(c), c, x)
        /\ srv' = [srv EXCEPT !.count = n + 1, !.inst[n] = e]
    BY <1>6 DEF socket_new_instance
  <2>2. n \in Nat /\ n \in Siids /\ n + 1 \in 0..MaxSiid
    <3>1. n \in 0..MaxSiid
      BY <1>2 DEF Servers
    <3> QED
      BY <2>1, <3>1, EngineAssumption DEF Siids
  <2>3. e \in Engines
    BY <1>2 DEF Engines, Messages
  <2>4. x \in Messages /\ x.cmd = r.cmd /\ x.who = r.who /\ x.siid = n
    BY <1>2, <2>2 DEF Messages
  <2> HIDE DEF x
  <2>5. /\ srv' \in Servers /\ srv'.up = srv.up /\ srv'.wait = srv.wait /\ srv'.count = n + 1
        /\ srv'.inst = [srv.inst EXCEPT ![n] = e] /\ srv.inst \in [Siids -> Engines]
    <3> DEFINE m == n + 1
    <3>1. srv' = [srv EXCEPT !.count = m, !.inst[n] = e] /\ m \in 0..MaxSiid
      BY <2>1, <2>2
    <3> HIDE DEF e, n, m
    <3> DEFINE f == [srv.inst EXCEPT ![n] = e]
    <3>2. srv.inst \in [Siids -> Engines] /\ f \in [Siids -> Engines]
      BY <1>2, <2>2, <2>3 DEF Servers
    <3>3. srv' = [srv EXCEPT !.count = m, !.inst = f]
      BY <3>1
    <3> HIDE DEF f
    <3>4. /\ srv' \in Servers /\ srv'.up = srv.up /\ srv'.wait = srv.wait /\ srv'.count = m
          /\ srv'.inst = f
      BY <1>2, <3>1, <3>2, <3>3 DEF Servers
    <3> QED
      BY <3>2, <3>4 DEF m, f
  <2>6. \A s \in Siids : srv'.inst[s] = IF s = n THEN e ELSE srv.inst[s]
    BY <2>5
  <2>7. srv.inst[n] = NoInst
    BY <2>2 DEF Inv, Cables
  <2>8. Kept
    <3> SUFFICES ASSUME NEW s \in Siids, srv'.inst[s] # NoInst
                 PROVE  /\ s < srv'.count /\ srv'.inst[s].conn \in Conns
                        /\ net[srv'.inst[s].conn].served
      BY DEF Kept
    <3>1. CASE s = n
      <4>1. srv'.inst[s].conn = c /\ s < n + 1
        BY <2>2, <2>6, <3>1
      <4> QED
        BY <1>1, <2>5, <4>1 DEF Request
    <3>2. CASE s # n
      <4>1. srv'.inst[s] = srv.inst[s] /\ s < n
        BY <2>6, <3>2 DEF Inv, Cables
      <4>2. s < n + 1
        BY <2>2, <4>1 DEF Siids
      <4> QED
        BY <2>5, <4>1, <4>2 DEF Inv, Cables
    <3> QED
      BY <3>1, <3>2
  <2>9. \A d \in Conns, m \in Messages : AddressOK(d, m) => AddressOK(d, m)'
    <3> SUFFICES ASSUME NEW d \in Conns, NEW m \in Messages, AddressOK(d, m)
                 PROVE  AddressOK(d, m)'
      OBVIOUS
    <3>1. m.siid \in Siids \cup {NoPeer}
      BY DEF Messages
    <3>2. ASSUME m.cmd \in {"CALL", "RESET", "DEL"}
          PROVE  /\ m.siid < srv'.count
                 /\ srv'.inst[m.siid] \in {NoInst, [conn |-> d, for |-> m.who]}
      <4>1. m.siid < n /\ m.siid \in Siids
        BY <3>1, <3>2 DEF AddressOK
      <4>2. m.siid < n + 1 /\ m.siid # n
        BY <2>2, <4>1 DEF Siids
      <4> QED
        BY <2>5, <2>6, <3>2, <4>1, <4>2 DEF AddressOK
    <3> QED
      BY <3>2 DEF AddressOK
  <2>10. Outcome(c, x)
    BY <1>2, <2>4, <2>5 DEF Outcome, Key
  <2>11. ASSUME NEW i \in Insts
         PROVE  Owned(i)' = IF c = cl.conn /\ i = r.who THEN Owned(i) \cup {n} ELSE Owned(i)
    <3>1. [conn |-> cl.conn, for |-> i] # NoInst
      BY EngineAssumption DEF NoInst
    <3>2. Owned(i)' = {s \in Siids : srv'.inst[s] = [conn |-> cl.conn, for |-> i]}
      BY <1>1 DEF Owned
    <3>3. e = [conn |-> cl.conn, for |-> i] <=> c = cl.conn /\ i = r.who
      OBVIOUS
    <3> HIDE DEF e
    <3> QED
      BY <2>2, <2>6, <2>7, <3>1, <3>2, <3>3 DEF Owned
  <2>12. ASSUME Quiet, c = cl.conn, Now.f # "reconnect", Now' = Now, net'[c].rep = <<x>>
         PROVE  \A i \in Insts : Owned(i)' = Expected(i)'
    <3>1. Siid(<<x>>) = {n}
      <4>1. Head(<<x>>) = x /\ <<x>> # <<>>
        OBVIOUS
      <4> QED
        BY <2>2, <2>4, <4>1 DEF Siid
    <3>2. \A i \in Insts : Expected(i)' = IF i = Now.i THEN Siid(<<x>>) ELSE Expected(i)
      BY <1>1, <1>4, <2>12 DEF Expected, Deleting, Pending
    <3> QED
      BY <1>4, <2>11, <2>12, <3>1, <3>2
  <2>13. Quiet /\ c # cl.conn => \A i \in Insts : Owned(i)' = Owned(i)
    BY <2>11
  <2> HIDE DEF n, e
  <2> QED
    BY <1>1, <1>3, <2>1, <2>4, <2>5, <2>8, <2>9, <2>10, <2>12, <2>13, ServeInv
<1> QED
  BY <1>5, <1>6

\* An instance is deleted.
LEMMA DeleteInstanceInv ==
  ASSUME Inv, NEW c \in Conns, socket_delete_instance(c)
  PROVE  Inv'
<1> DEFINE r == Head(net[c].req)
           q == r.siid
<1>1. /\ Request(c) /\ r.cmd = "DEL" /\ cl' = cl /\ UNCHANGED fault
      /\ net' = Reply(Done(c), c, r) /\ Served(r)
      /\ srv' = [srv EXCEPT !.inst[q] = NoInst]
  BY DEF socket_delete_instance, fault
<1>2. /\ r \in Messages /\ srv \in Servers /\ srv.wait = NoConn
      /\ Quiet => AddressOK(c, r) /\ Right
  BY <1>1, HeadFacts
<1>3. Quiet => NoneWrong'
  BY <1>1, <1>2, ServedRight
<1>4. /\ srv' \in Servers /\ srv'.up = srv.up /\ srv'.wait = srv.wait /\ srv'.count = srv.count
      /\ \A s \in Siids : srv'.inst[s] = IF s = q THEN NoInst ELSE srv.inst[s]
  <2>1. NoInst \in Engines /\ NoCall \in Messages /\ NoConn \in Conns \cup {NoConn}
    BY ConstantTypes
  <2>2. srv.inst \in [Siids -> Engines]
    BY <1>2 DEF Servers
  <2> HIDE DEF q
  <2>3. CASE q \in Siids
    <3> DEFINE f == [srv.inst EXCEPT ![q] = NoInst]
    <3>1. f \in [Siids -> Engines] /\ \A s \in Siids : f[s] = IF s = q THEN NoInst ELSE srv.inst[s]
      BY <2>1, <2>2, <2>3
    <3>2. srv' = [srv EXCEPT !.inst = f]
      BY <1>1
    <3> HIDE DEF f
    <3>3. /\ srv' \in Servers /\ srv'.up = srv.up /\ srv'.wait = srv.wait
          /\ srv'.count = srv.count /\ srv'.inst = f
      BY <1>2, <3>1, <3>2 DEF Servers
    <3> QED
      BY <3>1, <3>3
  <2>4. CASE q \notin Siids
    <3>1. [srv.inst EXCEPT ![q] = NoInst] = srv.inst
      BY <2>2, <2>4
    <3> DEFINE f == [srv.inst EXCEPT ![q] = NoInst]
    <3>2. srv' = [srv EXCEPT !.inst = f]
      BY <1>1
    <3> HIDE DEF f
    <3>3. f = srv.inst
      BY <3>1 DEF f
    <3>4. srv' = srv
      BY <1>2, <3>2, <3>3 DEF Servers
    <3> QED
      BY <1>2, <2>4, <3>4
  <2> QED
    BY <2>3, <2>4
<1>5. Kept
  BY <1>4 DEF Kept, Inv, Cables
<1>6. \A d \in Conns, m \in Messages : AddressOK(d, m) => AddressOK(d, m)'
  <2> SUFFICES ASSUME NEW d \in Conns, NEW m \in Messages, AddressOK(d, m)
               PROVE  AddressOK(d, m)'
    OBVIOUS
  <2>1. m.siid \in Siids \cup {NoPeer}
    BY DEF Messages
  <2> QED
    BY <1>4, <2>1 DEF AddressOK
<1>7. Outcome(c, r)
  BY <1>2, <1>4 DEF Outcome
<1>8. ASSUME NEW i \in Insts PROVE Owned(i)' = Owned(i) \ {q}
  <2>1. [conn |-> cl.conn, for |-> i] # NoInst
    BY EngineAssumption DEF NoInst
  <2> QED
    BY <1>1, <1>4, <2>1 DEF Owned
<1>9. ASSUME Quiet, c # cl.conn PROVE \A i \in Insts : Owned(i)' = Owned(i)
  <2> SUFFICES ASSUME NEW i \in Insts PROVE q \notin Owned(i)
    BY <1>8
  <2>1. srv.inst[q] \in {NoInst, [conn |-> c, for |-> r.who]}
    BY <1>1, <1>2, <1>9 DEF AddressOK
  <2>2. [conn |-> cl.conn, for |-> i] # NoInst
    BY EngineAssumption DEF NoInst
  <2> QED
    BY <1>9, <2>1, <2>2 DEF Owned
<1>10. ASSUME Quiet, c = cl.conn, Now.f # "reconnect", Now' = Now, net'[c].req = <<>>
       PROVE  \A i \in Insts : Owned(i)' = Expected(i)'
  <2>1. /\ Now.f \in Expecting /\ Key(r) = Want /\ OpOK(Now, cl.live)
        /\ Now.f = "recv_new" => Now.cmd = "NEW"
        /\ Now.f = "recv_icon" => Now.cmd = "FILE"
        /\ net[c].req = <<r>>
    BY <1>1, <1>10, OnlyRequest
  <2>2. Now.f = "recv" /\ Now.cmd = "DEL" /\ r.who = Now.i
    BY <1>1, <2>1 DEF Key, Want, Expecting
  <2>3. Now.i \notin cl.live
    BY <2>1, <2>2 DEF OpOK
  <2>4. \A i : ~Pending(i)
    BY <2>2, NonePending DEF Inv, Typed, Clients, Planned, Pending, Now, Making
  <2>5. Siid(net[c].req) = {q} \cap Siids /\ Siid(<<>>) = {}
    <3>1. Head(<<r>>) = r /\ <<r>> # <<>>
      OBVIOUS
    <3> QED
      BY <2>1, <3>1 DEF Siid
  <2>6. \A i \in Insts : Owned(i) = Expected(i)
    BY <1>1, <1>2, <1>10, HeadFacts DEF Right, Exact, Up
  <2>7. ASSUME NEW i \in Insts PROVE Owned(i)' = Expected(i)'
    <3>1. CASE i = Now.i
      <4>1. Expected(i) = {q} \cap Siids
        BY <1>10, <2>2, <2>3, <2>4, <2>5, <3>1 DEF Expected, Deleting
      <4>2. Expected(i)' = {}
        BY <1>1, <1>10, <2>2, <2>3, <2>4, <2>5, <3>1 DEF Expected, Deleting, Pending
      <4> QED
        BY <1>8, <2>6, <4>1, <4>2
    <3>2. CASE i # Now.i
      <4>1. Expected(i)' = Expected(i)
        BY <1>1, <1>10, <2>2, <2>4, <3>2 DEF Expected, Deleting, Pending
      <4>2. srv.inst[q] \in {NoInst, [conn |-> c, for |-> r.who]}
        BY <1>1, <1>2, <1>10 DEF AddressOK
      <4>3. [conn |-> cl.conn, for |-> i] # NoInst
        BY EngineAssumption DEF NoInst
      <4>4. q \notin Owned(i)
        BY <2>2, <3>2, <4>2, <4>3 DEF Owned
      <4> QED
        BY <1>8, <2>6, <4>1, <4>4
    <3> QED
      BY <3>1, <3>2
  <2> QED
    BY <2>7
<1> HIDE DEF q
<1> QED
  BY <1>1, <1>2, <1>3, <1>4, <1>5, <1>6, <1>7, <1>9, <1>10, ServeInv

-----------------------------------------------------------------------------
(* The server's question, a closed connection, and the server's death.     *)

\* A reply is sent without a request being taken.
LEMMA LateWired ==
  ASSUME net \in [Conns -> Wires], NEW c \in Conns, net[c].open, NEW r \in Messages
  PROVE  Wired(Reply(net, c, r), c, net[c].req, Append(net[c].rep, r),
               net[c].open, net[c].served)
<1>1. net[c] \in Wires
  OBVIOUS
<1>2. Append(net[c].rep, r) \in Seq(Messages)
  BY <1>1 DEF Wires
<1> DEFINE w == [net[c] EXCEPT !.rep = Append(net[c].rep, r)]
<1>3. w \in Wires
  BY <1>1, <1>2 DEF Wires
<1>4. /\ w.req = net[c].req /\ w.rep = Append(net[c].rep, r)
      /\ w.open = net[c].open /\ w.served = net[c].served
  BY <1>1 DEF Wires
<1>5. Reply(net, c, r) = [net EXCEPT ![c] = w]
  BY DEF Reply
<1> HIDE DEF w
<1> QED
  BY <1>3, <1>4, <1>5 DEF Wired

\* When a request is taken, the others are still addressed as they were.
LEMMA AddressedTaken ==
  ASSUME Typed, Addressed, srv'.inst = srv.inst, srv'.count = srv.count,
         NEW c \in Conns, net[c].req # <<>>, net'[c].req = Tail(net[c].req),
         \A d \in Conns : d # c => net'[d].req = net[d].req
  PROVE  Addressed'
<1>1. ASSUME NEW d \in Conns, NEW k \in 1..Len(net[d].req)'
      PROVE  AddressOK(d, net[d].req[k])'
  <2>1. CASE d = c
    <3>1. AddressOK(c, Tail(net[c].req)[k])
      BY <1>1, <2>1, AddressedTail
    <3> QED
      BY <2>1, <3>1 DEF AddressOK
  <2>2. CASE d # c
    <3>1. AddressOK(d, net[d].req[k])
      BY <1>1, <2>2 DEF Addressed
    <3> QED
      BY <2>2, <3>1 DEF AddressOK
  <2> QED
    BY <2>1, <2>2
<1> QED
  BY <1>1 DEF Addressed

\* A question asked back ends.
LEMMA TextAnsweredInv ==
  ASSUME Inv, TextAnswered
  PROVE  Inv'
<1> DEFINE A(c) == net[c].req # <<>> /\ net' = Reply(Done(c), c, srv.call) /\ UNCHANGED fault
           B(c) == net[c].req = <<>> /\ ~net[c].open /\ UNCHANGED <<net, plan, faults>>
           C(c) == /\ net[c].req = <<>> /\ net[c].open /\ Fault("slow_text")
                   /\ net' = Reply(net, c, srv.call)
<1>1. PICK c \in Conns : c = srv.wait
  BY DEF TextAnswered, Inv, Typed, Servers
<1>2. /\ c # NoConn /\ NoConn \notin Conns /\ (A(c) \/ B(c) \/ C(c))
      /\ srv' = [srv EXCEPT !.wait = NoConn, !.call = NoCall]
      /\ cl' = cl /\ wrong' = wrong /\ net[c].served
  BY <1>1, EngineAssumption DEF TextAnswered, NoConn, Conns, Inv, Cables
<1>3. /\ net \in [Conns -> Wires] /\ cl.conn \in Conns \cup {NoConn} /\ srv \in Servers
      /\ srv.call \in Messages
  BY DEF Inv, Typed, Clients, Servers
<1>4. /\ srv' \in Servers /\ srv'.up = srv.up /\ srv'.wait = NoConn
      /\ srv'.count = srv.count /\ srv'.inst = srv.inst
  <2>1. NoCall \in Messages
    BY ConstantTypes
  <2> QED
    BY <1>2, <1>3, <2>1 DEF Servers
<1>5. /\ net' \in [Conns -> Wires] /\ \A d \in Conns : d # c => net'[d] = net[d]
      /\ net'[c].open = net[c].open /\ net'[c].served = net[c].served
      /\ ~net[c].open => net'[c].rep = net[c].rep
      /\ A(c) => net'[c].req = Tail(net[c].req)
                 /\ (net[c].open => net'[c].rep = Append(net[c].rep, srv.call))
      /\ ~A(c) => net'[c].req = net[c].req
  <2>1. CASE A(c)
    <3>1. Wired(net', c, Tail(net[c].req),
                IF net[c].open THEN Append(net[c].rep, srv.call) ELSE net[c].rep,
                net[c].open, net[c].served)
      BY <1>3, <2>1, ReplyWired
    <3> QED
      BY <2>1, <3>1 DEF Wired
  <2>2. CASE B(c)
    BY <1>3, <2>2
  <2>3. CASE C(c)
    <3>1. Wired(net', c, net[c].req, Append(net[c].rep, srv.call),
                net[c].open, net[c].served)
      BY <1>3, <2>3, LateWired
    <3> QED
      BY <2>3, <3>1 DEF Wired
  <2> QED
    BY <1>2, <2>1, <2>2, <2>3
<1>6. Now' = Now /\ Planned' /\ \A i : Pending(i)' <=> Pending(i)
  BY <1>2 DEF Now, Inv, Planned, Pending
<1>7. Typed'
  <2>1. plan' \cup faults' = plan \cup faults
    BY <1>2, FaultKeeps DEF fault, Faults
  <2> QED
    BY <1>2, <1>4, <1>5, <2>1 DEF Inv, Typed
<1>8. Cables'
  <2>1. \A d \in Conns : /\ net'[d].open = net[d].open /\ net'[d].served = net[d].served
                         /\ ~net[d].open => net'[d].rep = <<>>
                         /\ ~net[d].served => net'[d].req = <<>>
    BY <1>2, <1>5 DEF Inv, Cables
  <2>2. /\ Now.f \in Expecting => cl.conn # NoConn
        /\ Now.f = "connect" => cl.conn = NoConn
    BY DEF Inv, Cables
  <2>3. \A s \in Siids : srv'.inst[s] # NoInst =>
          /\ s < srv'.count /\ srv'.inst[s].conn \in Conns
          /\ net[srv'.inst[s].conn].served
    BY <1>4 DEF Inv, Cables
  <2> QED
    BY <1>2, <1>4, <1>6, <2>1, <2>2, <2>3, CablesKeep DEF Inv
<1>9. ASSUME Quiet' PROVE Right'
  <2>1. A(c) \/ B(c)
    BY <1>2, <1>9 DEF Quiet, Fault, KeepsConnection
  <2>2. Quiet /\ Right
    BY <1>9, <2>1 DEF Quiet, fault, Inv
  <2>3. Addressed'
    <3>1. CASE A(c)
      BY <1>4, <1>5, <2>2, <3>1, AddressedTaken DEF Inv, Right
    <3>2. CASE ~A(c)
      BY <1>4, <1>5, <2>2, <3>2, AddressedKeep DEF Right
    <3> QED
      BY <3>1, <3>2
  <2>4. \A i \in Insts : Owned(i)' = Owned(i)
    BY <1>2, <1>4 DEF Owned
  <2>5. CASE c # cl.conn
    <3>1. cl.conn \in Conns => net'[cl.conn] = net[cl.conn]
      BY <1>5, <2>5
    <3>2. Paired'
      <4>1. CASE cl.conn \in Conns
        <5>1. ~Asking(cl.conn) /\ ~Answered(cl.conn)
          BY <1>1, <2>5 DEF Asking, Answered
        <5>2. /\ Asked(cl.conn) => Asked(cl.conn)'
              /\ Replied(cl.conn) => Replied(cl.conn)'
              /\ Lost(cl.conn) => Lost(cl.conn)'
              /\ Silent(cl.conn) => Silent(cl.conn)'
          BY <1>2, <1>4, <1>6, <3>1, <4>1 DEF Asked, Replied, Lost, Silent, Want, Key
        <5> QED
          BY <1>2, <1>6, <2>2, <4>1, <5>1, <5>2 DEF Right, Paired
      <4>2. CASE cl.conn = NoConn
        <5>1. Now.f \notin Expecting
          BY <4>2 DEF Inv, Cables
        <5> QED
          BY <1>2, <1>6, <4>2, <5>1 DEF Paired
      <4> QED
        BY <1>3, <4>1, <4>2
    <3>3. Exact'
      <4>1. SUFFICES ASSUME Up(cl.conn)', Now'.f # "reconnect"
                     PROVE  \A i \in Insts : Owned(i)' = Expected(i)'
        BY DEF Exact
      <4>2. cl.conn \in Conns /\ Up(cl.conn)
        BY <1>2, <1>3, <3>1, <4>1 DEF Up
      <4>3. \A i \in Insts : Owned(i) = Expected(i)
        BY <1>6, <2>2, <4>1, <4>2 DEF Right, Exact
      <4>4. \A i \in Insts : Expected(i)' = Expected(i)
        BY <1>2, <1>6, <3>1, <4>2 DEF Expected, Deleting
      <4> QED
        BY <2>4, <4>3, <4>4
    <3> QED
      BY <1>2, <2>2, <2>3, <3>2, <3>3 DEF Right, NoneWrong
  <2>6. CASE c = cl.conn /\ Now.f = "reconnect"
    <3>1. Paired' /\ Exact'
      BY <1>6, <2>6 DEF Paired, Exact, Expecting
    <3> QED
      BY <1>2, <2>2, <2>3, <3>1 DEF Right, NoneWrong
  <2>7. CASE c = cl.conn /\ Now.f # "reconnect"
    <3>1. net[c].open /\ net[c].req # <<>> /\ A(c)
      BY <1>1, <1>2, <2>1, <2>7 DEF Inv, Cables
    <3>2. Answered(c)
      BY <1>1, <1>2, <2>2, <2>7, <3>1
         DEF Right, Paired, Silent, Asked, Replied, Asking, Lost
    <3>3. net'[c].req = <<>> /\ net'[c].rep = <<srv.call>>
      <4>1. Tail(<<Text>>) = <<>> /\ Append(<<>>, srv.call) = <<srv.call>>
        OBVIOUS
      <4> QED
        BY <1>5, <3>1, <3>2, <4>1 DEF Answered
    <3>4. Now.f = "recv" /\ Key(srv.call) = Want
      BY <3>2 DEF Answered
    <3>5. Replied(c)'
      BY <1>2, <1>3, <1>4, <1>6, <3>3, <3>4 DEF Replied, Want, Key
    <3>6. Paired'
      BY <1>2, <1>6, <2>7, <3>4, <3>5 DEF Paired, Expecting
    <3>7. Exact'
      <4>1. \A i \in Insts : Owned(i) = Expected(i)
        BY <1>2, <2>2, <2>7 DEF Right, Exact, Up
      <4>2. Siid(net[c].req) = {} /\ Siid(<<>>) = {}
        <5>1. Head(<<Text>>).siid = NoPeer /\ NoPeer \notin Siids /\ <<Text>> # <<>>
          BY EngineAssumption DEF Text, Req, NoPeer, Siids
        <5> QED
          BY <3>2, <5>1 DEF Siid, Answered
      <4>3. \A i : Expected(i)' = Expected(i)
        BY <1>2, <1>6, <2>7, <3>3, <3>4, <4>2 DEF Expected, Deleting
      <4> QED
        BY <2>4, <4>1, <4>3 DEF Exact
    <3> QED
      BY <1>2, <2>2, <2>3, <3>6, <3>7 DEF Right, NoneWrong
  <2> QED
    BY <2>5, <2>6, <2>7
<1> QED
  BY <1>6, <1>7, <1>8, <1>9 DEF Inv

\* The server learns that a connection is closed, and deletes its instances.
LEMMA CloseConnectionInv ==
  ASSUME Inv, NEW c \in Conns, socket_close_connection(c)
  PROVE  Inv'
<1> DEFINE f == [s \in Siids |-> IF srv.inst[s].conn = c THEN NoInst ELSE srv.inst[s]]
<1>1. /\ srv.wait = NoConn /\ net[c].served /\ ~net[c].open /\ net[c].req = <<>>
      /\ net' = [net EXCEPT ![c] = Closed] /\ srv' = [srv EXCEPT !.inst = f]
      /\ cl' = cl /\ wrong' = wrong /\ UNCHANGED fault /\ c # cl.conn
  BY DEF socket_close_connection, Free, fault, Inv, Cables
<1>2. /\ net \in [Conns -> Wires] /\ cl.conn \in Conns \cup {NoConn} /\ srv \in Servers
      /\ srv.inst \in [Siids -> Engines]
  BY DEF Inv, Typed, Clients, Servers
<1>3. f \in [Siids -> Engines]
  BY <1>2, ConstantTypes
<1>4. \A s \in Siids : f[s] = IF srv.inst[s].conn = c THEN NoInst ELSE srv.inst[s]
  OBVIOUS
<1> HIDE DEF f
<1>5. /\ srv' \in Servers /\ srv'.up = srv.up /\ srv'.wait = NoConn
      /\ srv'.count = srv.count /\ srv'.inst = f
  BY <1>1, <1>2, <1>3 DEF Servers
<1>6. Wired(net', c, <<>>, <<>>, FALSE, FALSE)
  BY <1>1, <1>2, ConstantTypes, PutWired DEF Closed
<1>7. Now' = Now /\ Planned' /\ \A i : Pending(i)' <=> Pending(i)
  BY <1>1 DEF Now, Inv, Planned, Pending
<1>8. Typed'
  BY <1>1, <1>5, <1>6 DEF Inv, Typed, fault, Wired
<1>9. Cables'
  <2>1. \A d \in Conns : (d = cl'.conn) <=> net'[d].open
    BY <1>1, <1>6 DEF Wired, Inv, Cables
  <2>2. \A d \in Conns : (~net'[d].open => net'[d].rep = <<>>)
                        /\ (~net'[d].served => net'[d].req = <<>>)
    BY <1>6 DEF Wired, Inv, Cables
  <2>3. ~srv'.up => \A d \in Conns : ~net'[d].served
    BY <1>5, <1>6 DEF Wired, Inv, Cables
  <2>4. \A s \in Siids : srv'.inst[s] # NoInst =>
          /\ s < srv'.count /\ srv'.inst[s].conn \in Conns
          /\ net'[srv'.inst[s].conn].served
    <3> SUFFICES ASSUME NEW s \in Siids, srv'.inst[s] # NoInst
                 PROVE  /\ s < srv'.count /\ srv'.inst[s].conn \in Conns
                        /\ net'[srv'.inst[s].conn].served
      OBVIOUS
    <3>1. srv.inst[s].conn # c /\ srv'.inst[s] = srv.inst[s]
      BY <1>4, <1>5
    <3> QED
      BY <1>5, <1>6, <3>1 DEF Wired, Inv, Cables
  <2>5. /\ Now.f \in Expecting => cl.conn # NoConn
        /\ Now.f = "connect" => cl.conn = NoConn
    BY DEF Inv, Cables
  <2> QED
    BY <1>1, <1>5, <1>7, <2>1, <2>2, <2>3, <2>4, <2>5 DEF Cables
<1>10. ASSUME Quiet' PROVE Right'
  <2>1. Quiet /\ Right
    BY <1>1, <1>10 DEF Quiet, fault, Inv
  <2>2. cl.conn \in Conns => net'[cl.conn] = net[cl.conn]
    BY <1>1, <1>6 DEF Wired
  <2>3. Addressed'
    <3>1. ASSUME NEW d \in Conns, NEW k \in 1..Len(net[d].req)'
          PROVE  AddressOK(d, net[d].req[k])'
      <4>1. CASE d = c
        BY <1>6, <3>1, <4>1 DEF Wired
      <4>2. CASE d # c
        <5>1. net'[d] = net[d] /\ net[d].req \in Seq(Messages)
          BY <1>2, <1>6, <4>2 DEF Wired, Wires
        <5>2. AddressOK(d, net[d].req[k]) /\ net[d].req[k] \in Messages
          BY <2>1, <3>1, <5>1 DEF Right, Addressed
        <5>3. PICK r \in Messages : r = net[d].req[k]
          BY <5>2
        <5>4. r.siid \in Siids \cup {NoPeer} /\ AddressOK(d, r)
          BY <5>2, <5>3 DEF Messages
        <5>5. ASSUME r.cmd \in {"CALL", "RESET", "DEL"}
              PROVE  /\ r.siid < srv'.count
                     /\ srv'.inst[r.siid] \in {NoInst, [conn |-> d, for |-> r.who]}
          BY <1>4, <1>5, <5>4, <5>5 DEF AddressOK
        <5>6. AddressOK(d, r)'
          BY <5>4, <5>5 DEF AddressOK
        <5> QED
          BY <5>1, <5>3, <5>6 DEF AddressOK
      <4> QED
        BY <4>1, <4>2
    <3> QED
      BY <3>1 DEF Addressed
  <2>4. Paired'
    <3>1. CASE cl.conn \in Conns
      <4>1. ~Asking(cl.conn) /\ ~Answered(cl.conn)
        BY <1>1, <3>1, EngineAssumption DEF Asking, Answered, Conns, NoConn
      <4>2. /\ Asked(cl.conn) => Asked(cl.conn)'
            /\ Replied(cl.conn) => Replied(cl.conn)'
            /\ Lost(cl.conn) => Lost(cl.conn)'
            /\ Silent(cl.conn) => Silent(cl.conn)'
        BY <1>1, <1>5, <1>7, <2>2, <3>1 DEF Asked, Replied, Lost, Silent, Want, Key
      <4> QED
        BY <1>1, <1>7, <2>1, <3>1, <4>1, <4>2 DEF Right, Paired
    <3>2. CASE cl.conn = NoConn
      <4>1. Now.f \notin Expecting
        BY <3>2 DEF Inv, Cables
      <4> QED
        BY <1>1, <1>7, <3>2, <4>1 DEF Paired
    <3> QED
      BY <1>2, <3>1, <3>2
  <2>5. Exact'
    <3>1. SUFFICES ASSUME Up(cl.conn)', Now'.f # "reconnect", NEW i \in Insts
                   PROVE  Owned(i)' = Expected(i)'
      BY DEF Exact
    <3>2. cl.conn \in Conns /\ Up(cl.conn)
      BY <1>1, <1>2, <2>2, <3>1 DEF Up
    <3>3. Owned(i) = Expected(i)
      BY <1>7, <2>1, <3>1, <3>2 DEF Right, Exact
    <3>4. Expected(i)' = Expected(i)
      BY <1>1, <1>7, <2>2, <3>2 DEF Expected, Deleting
    <3>5. Owned(i)' = Owned(i)
      <4>1. [conn |-> cl.conn, for |-> i] # NoInst /\ [conn |-> cl.conn, for |-> i].conn # c
        BY <1>1, EngineAssumption DEF NoInst
      <4> QED
        BY <1>1, <1>4, <1>5, <4>1 DEF Owned
    <3> QED
      BY <3>3, <3>4, <3>5
  <2> QED
    BY <1>1, <2>1, <2>3, <2>4, <2>5 DEF Right, NoneWrong
<1> QED
  BY <1>7, <1>8, <1>9, <1>10 DEF Inv

\* The server dies: what it has sent can still be read, nothing else is left.
LEMMA CrashInv ==
  ASSUME Inv, Crash
  PROVE  Inv'
<1> DEFINE none == [s \in Siids |-> NoInst]
           x == [up |-> FALSE, has |-> srv.has, inst |-> none,
                 count |-> 0, wait |-> NoConn, call |-> NoCall]
           left == [c \in Conns |-> IF net[c].open
                               THEN [net[c] EXCEPT !.req = <<>>, !.served = FALSE] ELSE Closed]
<1>1. srv' = x /\ net' = left /\ cl' = cl /\ wrong' = wrong /\ Fault("crash")
  BY Zenon DEF Crash
<1> HIDE DEF x, left
<1>2. net \in [Conns -> Wires] /\ srv \in Servers /\ cl.conn \in Conns \cup {NoConn}
  BY DEF Inv, Typed, Clients
<1>3. plan' \cup faults' = plan \cup faults /\ (Quiet' => Quiet)
  BY <1>1, FaultKeeps DEF Faults
<1>4. none \in [Siids -> Engines] /\ \A s \in Siids : none[s] = NoInst
  BY ConstantTypes
<1> HIDE DEF none
<1>5. /\ srv' \in Servers /\ srv'.up = FALSE /\ srv'.wait = NoConn /\ srv'.inst = none
  <2>1. NoCall \in Messages /\ 0 \in 0..MaxSiid /\ srv.has \in BOOLEAN
    BY <1>2, ConstantTypes, EngineAssumption DEF Servers
  <2> QED
    BY <1>1, <1>4, <2>1 DEF Servers, x
<1>6. \A d \in Conns :
        /\ net'[d] \in Wires /\ net'[d].req = <<>> /\ net'[d].served = FALSE
        /\ net'[d].open <=> net[d].open
        /\ net'[d].rep = IF net[d].open THEN net[d].rep ELSE <<>>
  <2> SUFFICES ASSUME NEW d \in Conns
               PROVE  /\ net'[d] \in Wires /\ net'[d].req = <<>> /\ net'[d].served = FALSE
                      /\ net'[d].open <=> net[d].open
                      /\ net'[d].rep = IF net[d].open THEN net[d].rep ELSE <<>>
    OBVIOUS
  <2>1. net[d] \in Wires /\ <<>> \in Seq(Messages)
    BY <1>2
  <2>2. CASE net[d].open
    <3>1. net'[d] = [net[d] EXCEPT !.req = <<>>, !.served = FALSE]
      BY <1>1, <2>2, Zenon DEF left
    <3> QED
      BY <2>1, <2>2, <3>1 DEF Wires
  <2>3. CASE ~net[d].open
    <3>1. net'[d] = Closed
      BY <1>1, <2>3, Zenon DEF left
    <3> QED
      BY <2>3, <3>1, ConstantTypes DEF Closed
  <2> QED
    BY <2>2, <2>3
<1>7. net' \in [Conns -> Wires]
  <2>1. net' = [c \in Conns |-> net'[c]]
    BY <1>1, Zenon DEF left
  <2> QED
    BY <1>6, <2>1
<1>8. Now' = Now /\ Planned'
  BY <1>1 DEF Now, Inv, Planned
<1>9. Typed'
  BY <1>1, <1>3, <1>5, <1>7 DEF Inv, Typed
<1>10. Cables'
  <2>1. \A d \in Conns : /\ (d = cl'.conn) <=> net'[d].open
                         /\ ~net'[d].open => net'[d].rep = <<>>
                         /\ ~net'[d].served /\ net'[d].req = <<>>
    BY <1>1, <1>6 DEF Inv, Cables
  <2>2. /\ Now.f \in Expecting => cl.conn # NoConn
        /\ Now.f = "connect" => cl.conn = NoConn
    BY DEF Inv, Cables
  <2> QED
    BY <1>1, <1>4, <1>5, <1>8, <2>1, <2>2 DEF Cables
<1>11. ASSUME Quiet' PROVE Right'
  <2>1. Quiet /\ Right
    BY <1>3, <1>11 DEF Inv
  <2>2. Addressed'
    <3>1. ASSUME NEW d \in Conns, NEW k \in 1..Len(net[d].req)' PROVE FALSE
      BY <1>6, <3>1
    <3> QED
      BY <3>1 DEF Addressed
  <2>3. Exact'
    <3>1. ~Up(cl.conn)'
      BY <1>1, <1>2, <1>6 DEF Up
    <3> QED
      BY <3>1 DEF Exact
  <2>4. Paired'
    <3>1. CASE cl.conn \in Conns
      <4>1. net[cl.conn].open /\ cl.conn # NoConn
        BY <3>1, EngineAssumption DEF Inv, Cables, Conns, NoConn
      <4>2. /\ net'[cl.conn].req = <<>> /\ net'[cl.conn].rep = net[cl.conn].rep
            /\ ~net'[cl.conn].served /\ srv'.wait # cl.conn
        BY <1>5, <1>6, <3>1, <4>1
      <4>3. /\ Asked(cl.conn) => Lost(cl.conn)'
            /\ Replied(cl.conn) => Replied(cl.conn)'
            /\ Asking(cl.conn) => Lost(cl.conn)'
            /\ Answered(cl.conn) => Lost(cl.conn)'
            /\ Lost(cl.conn) => Lost(cl.conn)'
            /\ Silent(cl.conn) => Silent(cl.conn)'
        BY <1>1, <1>8, <4>2 DEF Asked, Replied, Asking, Answered, Lost, Silent, Want, Key
      <4> QED
        BY <1>1, <1>8, <2>1, <4>1, <4>3 DEF Right, Paired
    <3>2. CASE cl.conn = NoConn
      <4>1. Now.f \notin Expecting
        BY <3>2 DEF Inv, Cables
      <4> QED
        BY <1>1, <1>8, <3>2, <4>1 DEF Paired
    <3> QED
      BY <1>2, <3>1, <3>2
  <2> QED
    BY <1>1, <2>1, <2>2, <2>3, <2>4 DEF Right, NoneWrong
<1> QED
  BY <1>8, <1>9, <1>10, <1>11 DEF Inv

\* Another server is started.
LEMMA RestartInv ==
  ASSUME Inv, Restart
  PROVE  Inv'
<1>1. /\ ~srv.up /\ cl' = cl /\ net' = net /\ wrong' = wrong
      /\ UNCHANGED fault \/ Fault("gone")
      /\ srv' = [srv EXCEPT !.up = TRUE] \/ srv' = [srv EXCEPT !.up = TRUE, !.has = FALSE]
  BY DEF Restart
<1>2. srv \in Servers /\ cl.conn \in Conns \cup {NoConn}
  BY DEF Inv, Typed, Clients
<1>3. plan' \cup faults' = plan \cup faults /\ (Quiet' => Quiet)
  BY <1>1, FaultKeeps DEF Faults
<1>4. /\ srv' \in Servers /\ srv'.up = TRUE /\ srv'.wait = srv.wait /\ srv'.call = srv.call
      /\ srv'.count = srv.count /\ srv'.inst = srv.inst
  BY <1>1, <1>2 DEF Servers
<1>5. Typed'
  BY <1>1, <1>3, <1>4 DEF Inv, Typed
<1>6. Now' = Now /\ Planned' /\ \A i : Pending(i)' <=> Pending(i)
  BY <1>1 DEF Now, Inv, Planned, Pending
<1>7. Cables'
  BY <1>1, <1>4, <1>6 DEF Inv, Cables
<1>8. ASSUME Quiet' PROVE Right'
  <2>1. Quiet /\ Right
    BY <1>3, <1>8 DEF Inv
  <2>2. Addressed'
    BY <1>1, <1>4, <2>1, AddressedKeep DEF Right
  <2>3. ~Up(cl.conn)'
    BY <1>1, <1>2 DEF Up, Inv, Cables
  <2>4. Exact'
    BY <2>3 DEF Exact
  <2>5. Paired'
    <3>1. /\ Asked(cl.conn)' <=> Asked(cl.conn)
          /\ Replied(cl.conn)' <=> Replied(cl.conn)
          /\ Asking(cl.conn)' <=> Asking(cl.conn)
          /\ Answered(cl.conn)' <=> Answered(cl.conn)
          /\ Lost(cl.conn)' <=> Lost(cl.conn)
          /\ Silent(cl.conn)' <=> Silent(cl.conn)
      BY <1>1, <1>4, <1>6 DEF Asked, Replied, Asking, Answered, Lost, Silent, Want, Key
    <3> QED
      BY <1>1, <1>6, <2>1, <3>1 DEF Right, Paired
  <2> QED
    BY <1>1, <2>1, <2>2, <2>4, <2>5 DEF Right, NoneWrong
<1> QED
  BY <1>5, <1>6, <1>7, <1>8 DEF Inv

-----------------------------------------------------------------------------
(* The invariant holds throughout.                                         *)

\* At first nothing is asked and nobody has a peer.
LEMMA InitInv == Init => Inv
<1> SUFFICES ASSUME Init PROVE Inv
  OBVIOUS
<1> DEFINE late == IF faults = {} THEN <<>> ELSE <<Req("FACTORY", NoPeer, Nobody)>>
           w == [Closed EXCEPT !.open = TRUE, !.served = TRUE, !.req = late]
           none == [s \in Siids |-> NoInst]
           mine == [i \in Insts |-> NoPeer]
           wires == [c \in Conns |-> IF c = 1 THEN w ELSE Closed]
           x == [up |-> TRUE, has |-> TRUE, inst |-> none, count |-> 0,
                 wait |-> NoConn, call |-> NoCall]
           y == [peer |-> mine, live |-> {}, conn |-> 1, todo |-> <<>>]
<1>1. cl = y /\ net = wires /\ srv = x /\ wrong = {}
  BY Zenon DEF Init
<1>20. plan \cup faults \in Plans /\ faults \subseteq {"slow_factory"}
  <2>1. PICK p \in Plans : plan = p \ {"slow_factory"} /\ faults = p \cap {"slow_factory"}
    BY DEF Init
  <2>2. plan \cup faults = p
    BY <2>1
  <2> QED
    BY <2>1, <2>2
<1>21. Quiet => faults = {}
  BY <1>20 DEF Quiet, KeepsConnection
<1>22. late \in Seq(Messages) /\ (Quiet => late = <<>>)
  <2> DEFINE m == Req("FACTORY", NoPeer, Nobody)
  <2>1. m \in Messages
    BY DEF Req, Messages
  <2> HIDE DEF m
  <2>2. <<m>> \in Seq(Messages) /\ <<>> \in Seq(Messages)
    BY <2>1
  <2> QED
    BY <1>21, <2>2 DEF m
<1> HIDE DEF late
<1>2. 1 \in Conns /\ NoConn \notin Conns
  BY EngineAssumption DEF Conns, NoConn
<1>3. w \in Wires /\ w.req = late /\ w.rep = <<>> /\ w.open = TRUE /\ w.served = TRUE
  BY <1>22, ConstantTypes DEF Wires, Closed
<1>4. /\ Closed \in Wires /\ Closed.req = <<>> /\ Closed.rep = <<>>
      /\ Closed.open = FALSE /\ Closed.served = FALSE
  BY ConstantTypes DEF Closed
<1>5. none \in [Siids -> Engines] /\ \A s \in Siids : none[s] = NoInst
  BY ConstantTypes
<1>6. mine \in [Insts -> Siids \cup {NoPeer}]
  OBVIOUS
<1> HIDE DEF w, none, mine
<1>7. wires \in [Conns -> Wires] /\ \A c \in Conns : wires[c] = IF c = 1 THEN w ELSE Closed
  BY <1>3, <1>4
<1> HIDE DEF wires
<1>8. x \in Servers /\ x.up = TRUE /\ x.wait = NoConn /\ x.count = 0 /\ x.inst = none
  <2>1. NoCall \in Messages /\ 0 \in 0..MaxSiid
    BY ConstantTypes, EngineAssumption
  <2> QED
    BY <1>5, <2>1 DEF Servers
<1>9. y \in Clients /\ y.live = {} /\ y.conn = 1 /\ y.todo = <<>>
  BY <1>2, <1>6 DEF Clients
<1> HIDE DEF x, y
<1>10. Now = NoOp /\ (\A i : ~Pending(i)) /\ NoOp.f = "none" /\ cl.conn = 1
  BY <1>1, <1>9, Idle DEF NoOp, Op
<1>11. Typed
  BY <1>1, <1>7, <1>8, <1>9, <1>20 DEF Typed
<1>12. Planned
  BY <1>1, <1>9 DEF Planned, PlanOK
<1>13. \A c \in Conns :
         /\ Quiet \/ c # 1 => net[c].req = <<>>
         /\ net[c].rep = <<>>
         /\ net[c].open <=> c = 1
         /\ net[c].served <=> c = 1
  BY <1>1, <1>3, <1>4, <1>7, <1>22
<1>14. /\ srv.wait = NoConn /\ srv.up /\ \A s \in Siids : srv.inst[s] = NoInst
  BY <1>1, <1>5, <1>8
<1>15. Cables
  BY <1>10, <1>13, <1>14 DEF Cables, Expecting
<1>16. Quiet => Paired
  BY <1>2, <1>10, <1>13, <1>14 DEF Paired, Silent, Expecting
<1>17. Quiet => Addressed
  <2>1. ASSUME Quiet, NEW c \in Conns, NEW k \in 1..Len(net[c].req) PROVE FALSE
    BY <1>13, <2>1
  <2> QED
    BY <2>1 DEF Addressed
<1>18. Exact
  <2>1. ASSUME NEW i \in Insts PROVE Owned(i) = Expected(i)
    <3>1. Owned(i) = {}
      <4>1. [conn |-> cl.conn, for |-> i] # NoInst
        BY <1>2, <1>10 DEF NoInst
      <4> QED
        BY <1>14, <4>1 DEF Owned
    <3>2. Expected(i) = {}
      BY <1>1, <1>9, <1>10 DEF Expected, Deleting
    <3> QED
      BY <3>1, <3>2
  <2> QED
    BY <2>1 DEF Exact
<1>19. NoneWrong
  BY <1>1 DEF NoneWrong
<1> QED
  BY <1>11, <1>12, <1>15, <1>16, <1>17, <1>18, <1>19 DEF Inv, Right

\* A step that changes nothing.
LEMMA StutterInv == Inv /\ UNCHANGED vars => Inv'
<1> SUFFICES ASSUME Inv, UNCHANGED vars PROVE Inv'
  OBVIOUS
<1>1. /\ cl' = cl /\ net' = net /\ srv' = srv /\ plan' = plan /\ faults' = faults
      /\ wrong' = wrong
  BY DEF vars
<1>2. Typed' /\ Planned' /\ Cables' /\ (Quiet' <=> Quiet)
  BY <1>1 DEF Inv, Typed, Planned, Cables, Now, Quiet
<1>3. ASSUME Right PROVE Right'
  <2>1. Paired'
    BY <1>1, <1>3 DEF Right, Paired, Asked, Replied, Asking, Answered, Lost, Silent, Want, Now
  <2>2. Addressed'
    BY <1>1, <1>3 DEF Right, Addressed, AddressOK
  <2>3. Exact'
    <3>1. \A i : Owned(i)' = Owned(i) /\ Expected(i)' = Expected(i)
      BY <1>1 DEF Owned, Expected, Deleting, Pending, Now
    <3> QED
      BY <1>1, <1>3, <3>1 DEF Right, Exact, Up, Now
  <2> QED
    BY <1>1, <1>3, <2>1, <2>2, <2>3 DEF Right, NoneWrong
<1> QED
  BY <1>2, <1>3 DEF Inv

\* Every step keeps the invariant.
LEMMA NextInv == Inv /\ [Next]_vars => Inv'
<1> SUFFICES ASSUME Inv, [Next]_vars PROVE Inv'
  OBVIOUS
<1>1. ASSUME NEW i \in Insts, create_instance(i) PROVE Inv'
  BY <1>1, CreateInstanceInv
<1>2. ASSUME NEW i \in Insts, Call(i) PROVE Inv'
  BY <1>2, CallInv
<1>3. ASSUME NEW i \in Insts, Destroy(i) PROVE Inv'
  BY <1>3, DestroyInv
<1>4. CASE dead
  BY <1>4, DeadInv
<1>5. CASE commit_transaction
  BY <1>5, CommitInv
<1>6. CASE do_transaction
  BY <1>6, TransactionInv
<1>7. CASE close_connection
  BY <1>7, CloseInv
<1>8. CASE create_connection
  BY <1>8, ConnectInv
<1>9. CASE create_peer_instance
  BY <1>9, CreatePeerInv
<1>10. CASE receive_peer
  BY <1>10, ReceivePeerInv
<1>11. CASE ReceiveFails
  BY <1>11, ReceiveFailsInv
<1>12. CASE NoPeerCreated
  BY <1>12, NoPeerCreatedInv
<1>13. ASSUME NEW c \in Conns, socket_new_instance(c) PROVE Inv'
  BY <1>13, NewInstanceInv
<1>14. ASSUME NEW c \in Conns, socket_delete_instance(c) PROVE Inv'
  BY <1>14, DeleteInstanceInv
<1>15. ASSUME NEW c \in Conns, socket_call_instance(c) PROVE Inv'
  BY <1>15, CallInstanceInv
<1>16. ASSUME NEW c \in Conns, get_surrounding_text(c) PROVE Inv'
  BY <1>16, AskInv
<1>17. ASSUME NEW c \in Conns, UnknownRequest(c) PROVE Inv'
  BY <1>17, UnknownInv
<1>18. ASSUME NEW c \in Conns, socket_close_connection(c) PROVE Inv'
  BY <1>18, CloseConnectionInv
<1>19. CASE TextAnswered
  BY <1>19, TextAnsweredInv
<1>20. CASE Crash
  BY <1>20, CrashInv
<1>21. CASE Restart
  BY <1>21, RestartInv
<1>22. CASE load_icon
  BY <1>22, LoadIconInv
<1>23. CASE receive_icon
  BY <1>23, ReceiveIconInv
<1>24. CASE NoIcon
  BY <1>24, NoIconInv
<1>25. ASSUME NEW c \in Conns, socket_load_file(c) PROVE Inv'
  BY <1>25, LoadFileInv
<1>26. CASE UNCHANGED vars
  BY <1>26, StutterInv
<1> QED
  BY <1>1, <1>2, <1>3, <1>4, <1>5, <1>6, <1>7, <1>8, <1>9, <1>10, <1>11, <1>12, <1>13,
     <1>14, <1>15, <1>16, <1>17, <1>18, <1>19, <1>20, <1>21, <1>22, <1>23, <1>24, <1>25,
     <1>26 DEF Next, Client, Server

\* The server's instances and the messages under way are what the client takes
\* them for, whatever is lost, restarted and connected anew.
THEOREM AlwaysInv == Spec => []Inv
<1>1. Init => Inv
  BY InitInv
<1>2. Inv /\ [Next]_vars => Inv'
  BY NextInv
<1> QED
  BY <1>1, <1>2, PTL DEF Spec

\* The client, the connections and the server keep their types, and an instance
\* belongs to a connection the server has not closed.
THEOREM EngineTypes == Spec => []TypeOK
<1>1. Inv => TypeOK
  <2> SUFFICES ASSUME Inv PROVE TypeOK
    OBVIOUS
  <2>1. cl.peer \in [Insts -> Siids \cup {NoPeer}] /\ cl.live \subseteq Insts
        /\ cl.conn \in Conns \cup {NoConn}
    BY DEF Inv, Typed, Clients
  <2>2. ASSUME NEW c \in Conns,
               NEW r \in {net[c].req[k] : k \in 1..Len(net[c].req)}
                          \cup {net[c].rep[k] : k \in 1..Len(net[c].rep)}
        PROVE  r \in Messages
    <3>1. net[c].req \in Seq(Messages) /\ net[c].rep \in Seq(Messages)
      BY DEF Inv, Typed, Wires
    <3> QED
      BY <2>2, <3>1
  <2>3. srv.count \in 0..MaxSiid /\ plan \cup faults \in Plans
    BY DEF Inv, Typed, Servers
  <2>4. \A s \in Siids : srv.inst[s] # NoInst => net[srv.inst[s].conn].served
    BY DEF Inv, Cables
  <2> QED
    BY <2>1, <2>2, <2>3, <2>4 DEF TypeOK
<1> QED
  BY <1>1, AlwaysInv, PTL

\* The reply a call takes is the reply to this call, after whatever timeouts,
\* reconnects and questions asked back.
THEOREM ReplyAlwaysMatches == Spec => []ReplyMatches
<1>1. Inv => ReplyMatches
  BY DEF Inv, Right, NoneWrong, ReplyMatches, Quiet, Unshifted
<1> QED
  BY <1>1, AlwaysInv, PTL

\* A call reaches the peer of the instance that made it or none, also after a
\* restarted server has counted from 0 again.
THEOREM RightInstanceAlways == Spec => []RightInstance
<1>1. Inv => RightInstance
  BY DEF Inv, Right, NoneWrong, RightInstance, Quiet, Unshifted
<1> QED
  BY <1>1, AlwaysInv, PTL

\* With a client at rest and a server that has nothing left to do, the server's
\* instances are exactly the client's peers.
THEOREM PeersAlwaysExact == Spec => []PeersExact
<1>1. Inv => PeersExact
  <2> SUFFICES ASSUME Inv, cl.todo = <<>>, Up(cl.conn), Free,
                      \A c \in Conns : c # cl.conn => ~net[c].served, Quiet,
                      NEW s \in Siids, NEW i \in Insts
               PROVE  (srv.inst[s].for = i) <=> (i \in cl.live /\ cl.peer[i] = s)
    BY DEF PeersExact, Quiet, Unshifted
  <2>1. Now.f = "none" /\ ~Pending(i)
    BY Idle DEF NoOp, Op
  <2>2. Owned(i) = Expected(i)
    BY <2>1 DEF Inv, Right, Exact
  <2>3. Expected(i) = IF i \in cl.live THEN {cl.peer[i]} \cap Siids ELSE {}
    BY <2>1, RestingExpects DEF Expecting, Deleting
  <2>4. (srv.inst[s].for = i) <=> s \in Owned(i)
    <3>1. CASE srv.inst[s] = NoInst
      BY <3>1, EngineAssumption DEF NoInst, Owned
    <3>2. CASE srv.inst[s] # NoInst
      <4>1. srv.inst[s].conn = cl.conn
        BY <3>2 DEF Inv, Cables
      <4>2. srv.inst[s] \in Engines
        BY DEF Inv, Typed, Servers
      <4>3. (srv.inst[s].for = i) <=> srv.inst[s] = [conn |-> cl.conn, for |-> i]
        BY <4>1, <4>2 DEF Engines
      <4> QED
        BY <4>3 DEF Owned
    <3> QED
      BY <3>1, <3>2
  <2> QED
    BY <2>2, <2>3, <2>4
<1> QED
  BY <1>1, AlwaysInv, PTL
=============================================================================
