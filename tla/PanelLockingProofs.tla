------------------------- MODULE PanelLockingProofs -------------------------
(***************************************************************************)
(* The locks of the panel's two threads, for every set of clients.         *)
(*                                                                         *)
(* What a thread has left to do is a path: every operation is legal with   *)
(* what the thread holds when it comes to it, and at the end it holds      *)
(* nothing.  A thread leaves its path only by the accidents: the socket    *)
(* thread keeps the GDK lock of an abandoned transaction, and an           *)
(* interrupted thread waits for a lock of its own.                         *)
(***************************************************************************)
EXTENDS PanelLocking, Integers, SequenceTheorems, TLAPS

Ops == {"lock", "unlock", "enter", "leave", "clear", "write", "draw", "exit", "connect",
        "check", "add", "erase", "await", "answer", "commands", "quit", "main", "join"}

\* What a thread can hold, and what else decides of its operations.
Marks == {"gdk", "agent", "trans", "abandoned", "gui"}

\* The operations a thread with x may come to: the agent's lock is taken
\* without it, the GDK lock without both; what is shared needs the GDK lock; and
\* only a GUI thread that holds nothing waits for the other's end.
Legal(x, op) ==
  /\ op = "lock" => "agent" \notin x
  /\ op = "unlock" => "agent" \in x
  /\ op = "enter" => "agent" \notin x /\ ("gdk" \in x => "abandoned" \in x)
  /\ op \in {"leave", "commands"} => "gdk" \in x /\ "agent" \notin x /\ "trans" \notin x
  /\ op \in {"clear", "draw"} => "gdk" \in x
  /\ op = "join" => "gui" \in x /\ "gdk" \notin x /\ "agent" \notin x

After(x, op) ==
  CASE op = "lock"   -> x \cup {"agent"}
    [] op = "unlock" -> x \ {"agent"}
    [] op = "enter"  -> x \cup {"gdk"}
    [] op = "leave"  -> x \ {"gdk"}
    [] op = "clear"  -> x \cup {"trans"}
    [] op = "write"  -> x \ {"trans"}
    [] OTHER         -> x

\* The operations of s lead from x to y.
Path(s, x, y) ==
  \E h \in [1..(Len(s) + 1) -> SUBSET Marks] :
    /\ h[1] = x /\ h[Len(s) + 1] = y
    /\ \A k \in 1..Len(s) : Legal(h[k], s[k]) /\ h[k + 1] = After(h[k], s[k])

LEMMA AfterType ==
  ASSUME NEW x \in SUBSET Marks, NEW op
  PROVE  After(x, op) \in SUBSET Marks
BY DEF After, Marks

\* Nothing to do.
LEMMA PathEmpty ==
  ASSUME NEW x \in SUBSET Marks
  PROVE  Path(<<>>, x, x)
<1> DEFINE h == [k \in 1..1 |-> x]
<1>1. h \in [1..(Len(<<>>) + 1) -> SUBSET Marks] /\ h[1] = x /\ h[Len(<<>>) + 1] = x  OBVIOUS
<1>2. 1..Len(<<>>) = {}  OBVIOUS
<1> HIDE DEF h
<1>3. QED  BY <1>1, <1>2 DEF Path

\* One operation.
LEMMA PathOne ==
  ASSUME NEW x \in SUBSET Marks, NEW op \in Ops, Legal(x, op)
  PROVE  Path(<<op>>, x, After(x, op))
<1> DEFINE h == [k \in 1..2 |-> IF k = 1 THEN x ELSE After(x, op)]
<1>0. Len(<<op>>) = 1 /\ <<op>>[1] = op  OBVIOUS
<1>1. h \in [1..2 -> SUBSET Marks] /\ h[1] = x /\ h[2] = After(x, op)  BY AfterType
<1> HIDE DEF h
<1>2. h \in [1..(Len(<<op>>) + 1) -> SUBSET Marks] /\ h[Len(<<op>>) + 1] = After(x, op)
  BY <1>0, <1>1
<1>3. \A k \in 1..Len(<<op>>) : Legal(h[k], <<op>>[k]) /\ h[k + 1] = After(h[k], <<op>>[k])
  BY <1>0, <1>1
<1>4. QED  BY <1>1, <1>2, <1>3 DEF Path

\* Two paths, one after the other.
LEMMA PathConcat ==
  ASSUME NEW s \in Seq(Ops), NEW u \in Seq(Ops),
         NEW x, NEW y, NEW z, Path(s, x, y), Path(u, y, z)
  PROVE  Path(s \o u, x, z)
<1>1. PICK h \in [1..(Len(s) + 1) -> SUBSET Marks] :
        /\ h[1] = x /\ h[Len(s) + 1] = y
        /\ \A k \in 1..Len(s) : Legal(h[k], s[k]) /\ h[k + 1] = After(h[k], s[k])
  BY DEF Path
<1>2. PICK g \in [1..(Len(u) + 1) -> SUBSET Marks] :
        /\ g[1] = y /\ g[Len(u) + 1] = z
        /\ \A k \in 1..Len(u) : Legal(g[k], u[k]) /\ g[k + 1] = After(g[k], u[k])
  BY DEF Path
<1> DEFINE m == Len(s)  n == Len(u)
           f == [k \in 1..(m + n + 1) |-> IF k <= m THEN h[k] ELSE g[k - m]]
<1>3. m \in Nat /\ n \in Nat /\ Len(s \o u) = m + n  OBVIOUS
<1>4. f \in [1..(m + n + 1) -> SUBSET Marks]  BY <1>3
<1>5. f[1] = x /\ f[m + n + 1] = z  BY <1>1, <1>2, <1>3
<1>6. ASSUME NEW k \in 1..(m + n)
      PROVE  Legal(f[k], (s \o u)[k]) /\ f[k + 1] = After(f[k], (s \o u)[k])
  <2>1. CASE k < m
    <3>1. k \in 1..m /\ k + 1 \in 1..m /\ (s \o u)[k] = s[k]  BY <2>1, <1>3
    <3>2. f[k] = h[k] /\ f[k + 1] = h[k + 1]  BY <3>1, <1>3
    <3>3. QED  BY <3>1, <3>2, <1>1
  <2>2. CASE k = m
    <3>1. k \in 1..m /\ (s \o u)[k] = s[k]  BY <2>2, <1>3
    <3>2. f[k] = h[k] /\ f[k + 1] = g[1]  BY <2>2, <3>1, <1>3
    <3>3. h[k + 1] = y  BY <2>2, <1>1
    <3>4. QED  BY <3>1, <3>2, <3>3, <1>1, <1>2
  <2>3. CASE k > m
    <3>1. k - m \in 1..n /\ (s \o u)[k] = u[k - m]  BY <2>3, <1>3
    <3>2. f[k] = g[k - m] /\ f[k + 1] = g[(k - m) + 1]  BY <2>3, <3>1, <1>3
    <3>3. QED  BY <3>1, <3>2, <1>2
  <2>4. QED  BY <2>1, <2>2, <2>3, <1>3
<1> HIDE DEF f
<1>7. QED  BY <1>3, <1>4, <1>5, <1>6 DEF Path

\* The first operation of a path is legal, and what is left is a path.
LEMMA PathPop ==
  ASSUME NEW s \in Seq(Ops), s # <<>>, NEW x, NEW y, Path(s, x, y)
  PROVE  Legal(x, Head(s)) /\ Path(Tail(s), After(x, Head(s)), y)
<1>1. PICK h \in [1..(Len(s) + 1) -> SUBSET Marks] :
        /\ h[1] = x /\ h[Len(s) + 1] = y
        /\ \A k \in 1..Len(s) : Legal(h[k], s[k]) /\ h[k + 1] = After(h[k], s[k])
  BY DEF Path
<1> DEFINE n == Len(s)  f == [k \in 1..n |-> h[k + 1]]
<1>2. n \in Nat \ {0} /\ Len(Tail(s)) = n - 1 /\ Head(s) = s[1]
      /\ \A k \in 1..(n - 1) : Tail(s)[k] = s[k + 1]
  OBVIOUS
<1>3. Legal(x, Head(s)) /\ h[2] = After(x, Head(s))  BY <1>1, <1>2
<1>4. f \in [1..n -> SUBSET Marks] /\ f[1] = h[2] /\ f[n] = y  BY <1>1, <1>2
<1>5. \A k \in 1..(n - 1) : Legal(f[k], Tail(s)[k]) /\ f[k + 1] = After(f[k], Tail(s)[k])
  <2> TAKE k \in 1..(n - 1)
  <2>1. k \in 1..n /\ k + 1 \in 1..n  BY <1>2
  <2>2. f[k] = h[k + 1] /\ f[k + 1] = h[(k + 1) + 1]  BY <2>1
  <2> HIDE DEF f
  <2>3. Legal(h[k + 1], s[k + 1]) /\ h[(k + 1) + 1] = After(h[k + 1], s[k + 1])  BY <1>1, <2>1
  <2>4. QED  BY <1>2, <2>2, <2>3
<1> HIDE DEF f
<1>6. Path(Tail(s), h[2], y)
  <2> DEFINE u == Tail(s)  m == Len(u)
  <2>1. m + 1 = n /\ m = n - 1  BY <1>2
  <2>2. f \in [1..(m + 1) -> SUBSET Marks] /\ f[1] = h[2] /\ f[m + 1] = y  BY <1>4, <2>1
  <2>3. \A k \in 1..m : Legal(f[k], u[k]) /\ f[k + 1] = After(f[k], u[k])  BY <1>5, <2>1
  <2> HIDE DEF u
  <2>4. QED  BY <2>2, <2>3 DEF Path, u
<1>7. QED  BY <1>3, <1>6

\* Sequences written out.
LEMMA PathTwo ==
  ASSUME NEW x \in SUBSET Marks, NEW a \in Ops, NEW b \in Ops,
         Legal(x, a), Legal(After(x, a), b)
  PROVE  Path(<<a, b>>, x, After(After(x, a), b))
<1>1. <<a>> \in Seq(Ops) /\ <<b>> \in Seq(Ops) /\ <<a, b>> \in Seq(Ops)  OBVIOUS
<1>2. Len(<<a>> \o <<b>>) = 2 /\ (<<a>> \o <<b>>)[1] = a /\ (<<a>> \o <<b>>)[2] = b  OBVIOUS
<1>3. <<a>> \o <<b>> \in Seq(Ops)  BY <1>1
<1>4. <<a, b>> = <<a>> \o <<b>>
  <2> DEFINE s == <<a, b>>  t == <<a>> \o <<b>>
  <2>1. s \in Seq(Ops) /\ t \in Seq(Ops) /\ Len(s) = Len(t)  BY <1>1, <1>2, <1>3
  <2>2. \A i \in 1..Len(s) : s[i] = t[i]  BY <1>2
  <2> HIDE DEF s, t
  <2>3. s = t  BY <2>1, <2>2, SeqEqual
  <2>4. QED  BY <2>3 DEF s, t
<1>5. QED  BY <1>1, <1>4, PathOne, PathConcat, AfterType

LEMMA PathThree ==
  ASSUME NEW x \in SUBSET Marks, NEW a \in Ops, NEW b \in Ops, NEW c \in Ops,
         Legal(x, a), Legal(After(x, a), b), Legal(After(After(x, a), b), c)
  PROVE  Path(<<a, b, c>>, x, After(After(After(x, a), b), c))
<1>1. <<a, b, c>> = <<a, b>> \o <<c>> /\ <<a, b>> \in Seq(Ops) /\ <<c>> \in Seq(Ops)  OBVIOUS
<1>2. QED  BY <1>1, PathOne, PathTwo, PathConcat, AfterType

LEMMA PathFour ==
  ASSUME NEW x \in SUBSET Marks, NEW a \in Ops, NEW b \in Ops, NEW c \in Ops, NEW d \in Ops,
         Legal(x, a), Legal(After(x, a), b), Legal(After(After(x, a), b), c),
         Legal(After(After(After(x, a), b), c), d)
  PROVE  Path(<<a, b, c, d>>, x, After(After(After(After(x, a), b), c), d))
<1>1. /\ <<a, b, c, d>> = <<a, b>> \o <<c, d>>
      /\ <<a, b>> \in Seq(Ops) /\ <<c, d>> \in Seq(Ops)
  OBVIOUS
<1>2. QED  BY <1>1, PathTwo, PathConcat, AfterType

-----------------------------------------------------------------------------
(* The handlers are paths, from what their thread holds back to it.        *)

\* Loop(s, x): a sequence of operations that gives back what it takes.
Loop(s, x) == s \in Seq(Ops) /\ Path(s, x, x)

LEMMA LoopConcat ==
  ASSUME NEW x \in SUBSET Marks, NEW s, NEW u, Loop(s, x), Loop(u, x)
  PROVE  Loop(s \o u, x)
BY PathConcat DEF Loop

LEMMA LoopEmpty ==
  ASSUME NEW x \in SUBSET Marks
  PROVE  Loop(<<>>, x)
BY PathEmpty DEF Loop

\* A section of the agent's lock around an operation that only changes data.
LEMMA SectionLoop ==
  ASSUME NEW x \in SUBSET Marks, "agent" \notin x
  PROVE  /\ Loop(Tables, x)
         /\ \A op \in {"check", "add", "erase"} : Loop(<<"lock", op, "unlock">>, x)
<1>1. Legal(x, "lock") /\ After(x, "lock") = x \cup {"agent"}  BY DEF Legal, After
<1>2. Legal(x \cup {"agent"}, "unlock") /\ After(x \cup {"agent"}, "unlock") = x
  BY DEF Legal, After
<1>3. Path(Tables, x, x)  BY <1>1, <1>2, PathTwo DEF Ops, Tables
<1>4. ASSUME NEW op \in {"check", "add", "erase"}
      PROVE  Path(<<"lock", op, "unlock">>, x, x) /\ <<"lock", op, "unlock">> \in Seq(Ops)
  <2>1. op \in Ops /\ "lock" \in Ops /\ "unlock" \in Ops  BY DEF Ops
  <2>2. Legal(x \cup {"agent"}, op) /\ After(x \cup {"agent"}, op) = x \cup {"agent"}
    BY DEF Legal, After
  <2>3. Path(<<"lock", op, "unlock">>, x, x)  BY <1>1, <1>2, <2>1, <2>2, PathThree
  <2>4. QED  BY <2>1, <2>3
<1>5. Tables \in Seq(Ops)  BY DEF Tables, Ops
<1>6. QED  BY <1>3, <1>4, <1>5 DEF Loop

\* stop (), by the user or by a signal, whatever else is held.
LEMMA StopLoop ==
  ASSUME NEW x \in SUBSET Marks, "agent" \notin x
  PROVE  Loop(stop, x)
<1> DEFINE y == x \cup {"agent"}
<1>1. Legal(x, "lock") /\ After(x, "lock") = y  BY DEF Legal, After
<1>2. Legal(y, "exit") /\ After(y, "exit") = y  BY DEF Legal, After
<1>3. Legal(y, "unlock") /\ After(y, "unlock") = x  BY DEF Legal, After
<1>4. Legal(x, "connect") /\ After(x, "connect") = x  BY DEF Legal, After
<1>5. {"lock", "exit", "unlock", "connect"} \subseteq Ops  BY DEF Ops
<1> HIDE DEF y
<1>6. Path(stop, x, x)  BY <1>1, <1>2, <1>3, <1>4, <1>5, PathFour DEF stop
<1>7. stop \in Seq(Ops)  BY <1>5 DEF stop
<1>8. QED  BY <1>6, <1>7 DEF Loop

\* A message is built with the GDK lock held.
LEMMA MessageLoop ==
  ASSUME NEW x \in SUBSET Marks, "gdk" \in x, "agent" \notin x, "trans" \notin x
  PROVE  /\ Loop(Message, x) /\ Loop(<<"clear", "write">>, x) /\ Loop(<<"draw">>, x)
         /\ Loop(<<"clear", "write", "answer">>, x) /\ Loop(<<"await">>, x)
         /\ Loop(<<"draw", "clear", "write", "answer">>, x)
<1> DEFINE y == x \cup {"agent"}  z == y \cup {"trans"}  w == x \cup {"trans"}
<1>1. Legal(x, "lock") /\ After(x, "lock") = y  BY DEF Legal, After
<1>2. Legal(y, "clear") /\ After(y, "clear") = z  BY DEF Legal, After
<1>3. Legal(z, "write") /\ After(z, "write") = y  BY DEF Legal, After
<1>4. Legal(y, "unlock") /\ After(y, "unlock") = x  BY DEF Legal, After
<1>5. Legal(x, "clear") /\ After(x, "clear") = w  BY DEF Legal, After
<1>6. Legal(w, "write") /\ After(w, "write") = x  BY DEF Legal, After
<1>7. /\ Legal(x, "answer") /\ After(x, "answer") = x
      /\ Legal(x, "await") /\ After(x, "await") = x
      /\ Legal(x, "draw") /\ After(x, "draw") = x
  BY DEF Legal, After
<1>8. {"lock", "clear", "write", "unlock", "answer", "await", "draw"} \subseteq Ops  BY DEF Ops
<1> HIDE DEF y, z, w
<1>9. Path(Message, x, x)  BY <1>1, <1>2, <1>3, <1>4, <1>8, PathFour DEF Message
<1>10. Path(<<"clear", "write">>, x, x)  BY <1>5, <1>6, <1>8, PathTwo
<1>11. Path(<<"clear", "write", "answer">>, x, x)  BY <1>5, <1>6, <1>7, <1>8, PathThree
<1>12. Path(<<"draw", "clear", "write", "answer">>, x, x)
  BY <1>5, <1>6, <1>7, <1>8, PathFour
<1>13. Path(<<"draw">>, x, x) /\ Path(<<"await">>, x, x)  BY <1>7, <1>8, PathOne
<1>14. /\ Message \in Seq(Ops) /\ <<"clear", "write">> \in Seq(Ops) /\ <<"draw">> \in Seq(Ops)
       /\ <<"clear", "write", "answer">> \in Seq(Ops) /\ <<"await">> \in Seq(Ops)
       /\ <<"draw", "clear", "write", "answer">> \in Seq(Ops)
  BY <1>8 DEF Message
<1>15. QED  BY <1>9, <1>10, <1>11, <1>12, <1>13, <1>14 DEF Loop

\* The commands of every kind of client, inside a transaction.
LEMMA CommandLoop ==
  ASSUME NEW x \in SUBSET Marks, "gdk" \in x, "agent" \notin x, "trans" \notin x,
         NEW kind, NEW ops \in Commands(kind)
  PROVE  Loop(ops, x)
<1>1. /\ Loop(Message, x) /\ Loop(<<"clear", "write">>, x) /\ Loop(<<"draw">>, x)
      /\ Loop(<<"clear", "write", "answer">>, x) /\ Loop(<<"await">>, x)
      /\ Loop(<<"draw", "clear", "write", "answer">>, x)
  BY MessageLoop
<1>2. Loop(Tables, x) /\ Loop(<<>>, x)  BY SectionLoop, LoopEmpty
<1>3. /\ Loop(Tables \o <<"draw">>, x) /\ Loop(<<"draw">> \o Message, x)
      /\ Loop(Message \o <<"draw">>, x) /\ Loop(<<"await">> \o Message, x)
      /\ Loop(<<"await">> \o Tables, x)
  BY <1>1, <1>2, LoopConcat
<1>4. ASSUME NEW o \in FrontEndCommands PROVE Loop(o, x)
  BY <1>1, <1>2, <1>3 DEF FrontEndCommands
<1>5. ASSUME NEW o \in HelperCommands PROVE Loop(o, x)  BY <1>1, <1>3 DEF HelperCommands
<1>6. ASSUME NEW o \in ControllerCommands PROVE Loop(o, x)
  BY <1>1, <1>3 DEF ControllerCommands, ControllerRequests
<1>7. ops \in FrontEndCommands \/ ops \in HelperCommands \/ ops \in ControllerCommands
  BY DEF Commands
<1>8. QED  BY <1>4, <1>5, <1>6, <1>7

\* A thread between two handlers: it holds nothing, but for an abandoned lock.
Rests(x) ==
  /\ x \in SUBSET Marks /\ "agent" \notin x /\ "trans" \notin x
  /\ "gdk" \in x => "abandoned" \in x

\* The operations of s lead from x to such a rest.
Ends(s, x) == s \in Seq(Ops) /\ \E y : Rests(y) /\ Path(s, x, y)

LEMMA EndsConcat ==
  ASSUME NEW x, NEW y, NEW s \in Seq(Ops), NEW u, Path(s, x, y), Ends(u, y)
  PROVE  Ends(s \o u, x)
<1>1. PICK z : Rests(z) /\ Path(u, y, z)  BY DEF Ends
<1>2. u \in Seq(Ops)  BY DEF Ends
<1>3. Path(s \o u, x, z)  BY <1>1, <1>2, PathConcat
<1>4. QED  BY <1>1, <1>2, <1>3 DEF Ends

LEMMA LoopEnds ==
  ASSUME NEW x, Rests(x), NEW s, Loop(s, x)
  PROVE  Ends(s, x)
BY DEF Loop, Ends

\* The GDK lock taken for one operation.
LEMMA EnterEnds ==
  ASSUME NEW x, Rests(x), NEW op \in {"draw", "commands", "quit", "main"}
  PROVE  /\ Path(<<"enter", op, "leave">>, x, x \ {"gdk"}) /\ Rests(x \ {"gdk"})
         /\ Ends(<<"enter", op, "leave">>, x)
<1> DEFINE y == x \cup {"gdk"}
<1>1. Legal(x, "enter") /\ After(x, "enter") = y  BY DEF Rests, Legal, After
<1>2. Legal(y, op) /\ After(y, op) = y  BY DEF Rests, Legal, After
<1>3. Legal(y, "leave") /\ After(y, "leave") = x \ {"gdk"}  BY DEF Rests, Legal, After
<1>4. "enter" \in Ops /\ op \in Ops /\ "leave" \in Ops  BY DEF Ops
<1>5. x \in SUBSET Marks  BY DEF Rests
<1> HIDE DEF y
<1>6. Path(<<"enter", op, "leave">>, x, x \ {"gdk"})
  <2>1. After(After(After(x, "enter"), op), "leave") = x \ {"gdk"}  BY <1>1, <1>2, <1>3
  <2>2. /\ Legal(x, "enter") /\ Legal(After(x, "enter"), op)
        /\ Legal(After(After(x, "enter"), op), "leave")
    BY <1>1, <1>2, <1>3
  <2>3. Path(<<"enter", op, "leave">>, x, After(After(After(x, "enter"), op), "leave"))
    BY <1>4, <1>5, <2>2, PathThree
  <2>4. QED  BY <2>1, <2>3
<1>7. <<"enter", op, "leave">> \in Seq(Ops)  BY <1>4
<1>8. Rests(x \ {"gdk"})  BY DEF Rests
<1>9. QED  BY <1>6, <1>7, <1>8 DEF Ends

\* The callbacks of the server.
LEMMA ServerEnds ==
  ASSUME NEW x, Rests(x)
  PROVE  /\ Ends(socket_accept_callback, x) /\ Ends(socket_open_connection, x)
         /\ Ends(socket_receive_callback, x)
BY SectionLoop, LoopEnds, EnterEnds
   DEF Rests, socket_accept_callback, socket_open_connection, socket_receive_callback

LEMMA CloseEnds ==
  ASSUME NEW x, Rests(x), NEW kind, NEW current \in BOOLEAN, NEW last \in BOOLEAN
  PROVE  Ends(socket_close_connection(kind, current, last), x)
<1> DEFINE E == <<"lock", "erase", "unlock">>  D == <<"enter", "draw", "leave">>
           X == x \ {"gdk"}
           A == IF current THEN Tables \o D ELSE <<>>
           B == IF last THEN Tables ELSE <<>>
<1>1. Rests(X) /\ Path(D, x, X) /\ Ends(D, x)  BY EnterEnds
<1>2. x \in SUBSET Marks /\ "agent" \notin x /\ X \in SUBSET Marks /\ "agent" \notin X
  BY DEF Rests
<1>3. Loop(E, x) /\ Loop(Tables, x) /\ Loop(Tables, X) /\ Loop(<<>>, x) /\ Loop(<<>>, X)
  BY <1>2, SectionLoop, LoopEmpty
<1>4. D \in Seq(Ops) /\ E \in Seq(Ops) /\ Tables \in Seq(Ops)  BY <1>1, <1>3 DEF Ends, Loop
<1> HIDE DEF D, E, X
<1>5. Ends(Tables \o D, x) /\ Path(Tables \o D, x, X)
  BY <1>1, <1>2, <1>3, <1>4, EndsConcat, PathConcat DEF Loop
<1>6. Ends(B, x) /\ Ends(B, X)  BY <1>1, <1>3, LoopEnds
<1>7. Ends(A \o B, x)
  <2>0. Tables \o D \in Seq(Ops)  BY <1>4
  <2>1. CASE current
    <3>1. Ends((Tables \o D) \o B, x)  BY <2>0, <1>5, <1>6, EndsConcat
    <3>2. QED  BY <2>1, <3>1
  <2>2. CASE ~current  BY <2>2, <1>3, <1>6, EndsConcat DEF Loop
  <2>3. QED  BY <2>1, <2>2
<1>8. Ends(<<>>, x)  BY <1>3, LoopEnds
<1> HIDE DEF A, B
<1>9. Ends(E \o (A \o B), x) /\ Ends(E \o (Tables \o D), x) /\ Ends(E \o <<>>, x)
  BY <1>3, <1>5, <1>7, <1>8, EndsConcat DEF Loop
<1>10. CASE kind = "FrontEnd"
  BY <1>9, <1>10 DEF socket_close_connection, A, B, D, E
<1>11. CASE kind = "Helper"
  BY <1>9, <1>11 DEF socket_close_connection, D, E
<1>12. CASE kind \notin {"FrontEnd", "Helper"}
  BY <1>9, <1>12 DEF socket_close_connection, E
<1>13. QED  BY <1>10, <1>11, <1>12

\* What the GUI thread does: callbacks, main () and its way out.
LEMMA CallbackEnds ==
  ASSUME NEW x, Rests(x), "gdk" \notin x, NEW ops \in Callbacks
  PROVE  Ends(<<"enter">> \o ops \o <<"leave">>, x)
<1> DEFINE y == x \cup {"gdk"}
<1>1. /\ x \in SUBSET Marks /\ y \in SUBSET Marks
      /\ "gdk" \in y /\ "agent" \notin y /\ "trans" \notin y
  BY DEF Rests, Marks
<1>2. Legal(x, "enter") /\ After(x, "enter") = y  BY DEF Rests, Legal, After
<1>3. Legal(y, "leave") /\ After(y, "leave") = x  BY DEF Rests, Legal, After
<1>4. "enter" \in Ops /\ "leave" \in Ops  BY DEF Ops
<1> HIDE DEF y
<1>5. Loop(Message, y) /\ Loop(Tables, y) /\ Loop(<<"draw">>, y) /\ Loop(stop, y)
  BY <1>1, MessageLoop, SectionLoop, StopLoop
<1>6. Loop(exit, y)  BY <1>1, <1>5, LoopConcat DEF exit
<1>7. Loop(ops, y)  BY <1>5, <1>6 DEF Callbacks
<1>8. Path(<<"enter">>, x, y) /\ Path(<<"leave">>, y, x)  BY <1>1, <1>2, <1>3, <1>4, PathOne
<1>9. <<"enter">> \in Seq(Ops) /\ <<"leave">> \in Seq(Ops) /\ ops \in Seq(Ops)
  BY <1>4, <1>7 DEF Loop
<1>10. Path(<<"enter">> \o ops, x, y) /\ <<"enter">> \o ops \in Seq(Ops)
  <2>1. Path(ops, y, y)  BY <1>7 DEF Loop
  <2>2. Path(<<"enter">> \o ops, x, y)  BY <2>1, <1>8, <1>9, PathConcat
  <2>3. <<"enter">> \o ops \in Seq(Ops)  BY <1>9, ConcatProperties
  <2>4. QED  BY <2>2, <2>3
<1>11. Path((<<"enter">> \o ops) \o <<"leave">>, x, x)  BY <1>8, <1>9, <1>10, PathConcat
<1>12. QED  BY <1>9, <1>10, <1>11 DEF Ends

LEMMA MainEnds ==
  ASSUME NEW x, Rests(x), "gdk" \notin x, "gui" \in x
  PROVE  Ends(main_function, x) /\ Ends(<<"enter", "leave", "join">>, x)
<1>1. Ends(main_function, x)
  <2>1. Loop(Tables, x)  BY SectionLoop DEF Rests
  <2>2. Ends(<<"enter", "main", "leave">>, x)  BY EnterEnds
  <2>3. QED  BY <2>1, <2>2, EndsConcat DEF main_function, Loop
<1> DEFINE y == x \cup {"gdk"}
<1>2. Legal(x, "enter") /\ After(x, "enter") = y  BY DEF Rests, Legal, After
<1>3. Legal(y, "leave") /\ After(y, "leave") = x  BY DEF Rests, Legal, After
<1>4. Legal(x, "join") /\ After(x, "join") = x  BY DEF Rests, Legal, After
<1>5. "enter" \in Ops /\ "leave" \in Ops /\ "join" \in Ops  BY DEF Ops
<1> HIDE DEF y
<1>6. Path(<<"enter", "leave", "join">>, x, x)
  BY <1>2, <1>3, <1>4, <1>5, PathThree DEF Rests
<1>7. <<"enter", "leave", "join">> \in Seq(Ops)  BY <1>5
<1>8. QED  BY <1>1, <1>6, <1>7 DEF Ends

-----------------------------------------------------------------------------
(* The invariant.                                                          *)

\* What thread t holds.
Holds(t) ==
  {m \in Marks : \/ m = "gdk" /\ gdk = t
                 \/ m = "agent" /\ agent = t
                 \/ m = "trans" /\ t \in filling
                 \/ m = "abandoned" /\ t = "sock" /\ "abandoned" \in accidents
                 \/ m = "gui" /\ t = "gui"}

\* An interrupted thread waits for a lock that it holds itself.
Stuck(t) == Doing(t, "lock") /\ agent = t /\ "interrupted" \in accidents

LockType ==
  /\ todo \in [Threads -> Seq(Ops)]
  /\ gdk \in Threads \cup {Nobody} /\ agent \in Threads \cup {Nobody}
  /\ filling \subseteq Threads

\* A message is built with the GDK lock; and the threads are on their paths.
LockInv ==
  /\ LockType
  /\ \A t \in filling : gdk = t
  /\ \A t \in Threads : Stuck(t) \/ Ends(todo[t], Holds(t))

LEMMA HoldsType == ASSUME NEW t PROVE Holds(t) \in SUBSET Marks
BY DEF Holds

\* A thread without operations left rests; the GUI thread never with a lock.
LEMMA RestsWhenDone ==
  ASSUME LockInv, NEW t \in Threads, todo[t] = <<>>
  PROVE  Rests(Holds(t))
<1>1. ~Stuck(t)  BY DEF Stuck, Doing
<1>2. PICK y : Rests(y) /\ Path(<<>>, Holds(t), y)  BY <1>1 DEF LockInv, Ends
<1>3. y = Holds(t)
  <2>1. PICK h \in [1..(Len(<<>>) + 1) -> SUBSET Marks] : h[1] = Holds(t) /\ h[Len(<<>>) + 1] = y
    BY <1>2 DEF Path
  <2>2. QED  BY <2>1
<1>4. QED  BY <1>2, <1>3

LEMMA GuiRests ==
  ASSUME LockInv, todo["gui"] = <<>>
  PROVE  Rests(Holds("gui")) /\ "gdk" \notin Holds("gui") /\ "gui" \in Holds("gui")
<1>1. Rests(Holds("gui"))  BY RestsWhenDone DEF Threads
<1>2. "abandoned" \notin Holds("gui") /\ "gui" \in Holds("gui")  BY DEF Holds, Marks
<1>3. QED  BY <1>1, <1>2 DEF Rests

\* A thread that carries out an operation does so legally, and stays on its path.
LEMMA OnPath ==
  ASSUME LockInv, NEW t \in Threads, NEW op \in Ops, Do(t, op), op = "lock" => agent = Nobody
  PROVE  /\ Legal(Holds(t), op)
         /\ Ends(todo'[t], After(Holds(t), op)) /\ todo' \in [Threads -> Seq(Ops)]
         /\ \A u \in Threads \ {t} : todo'[u] = todo[u]
<1>1. /\ todo[t] \in Seq(Ops) /\ todo[t] # <<>> /\ Head(todo[t]) = op
      /\ todo' = [todo EXCEPT ![t] = Tail(@)]
  BY DEF Do, LockInv, LockType
<1>2. ~Stuck(t)  BY <1>1 DEF Stuck, Doing, Threads, Nobody
<1>3. PICK y : Rests(y) /\ Path(todo[t], Holds(t), y)  BY <1>2 DEF LockInv, Ends
<1>4. Legal(Holds(t), op) /\ Path(Tail(todo[t]), After(Holds(t), op), y)
  BY <1>1, <1>3, PathPop
<1>5. Tail(todo[t]) \in Seq(Ops) /\ todo'[t] = Tail(todo[t])
  BY <1>1 DEF LockInv, LockType
<1>6. QED  BY <1>1, <1>3, <1>4, <1>5 DEF Ends, LockInv, LockType

\* A thread keeps to its path when neither its operations nor what it holds change.
LEMMA StaysOn ==
  ASSUME LockInv, NEW t \in Threads, todo'[t] = todo[t], Holds(t)' = Holds(t),
         accidents \subseteq accidents'
  PROVE  (Stuck(t) \/ Ends(todo[t], Holds(t)))'
<1>1. agent' = t <=> agent = t  BY DEF Holds, Marks
<1>2. CASE Stuck(t)  BY <1>1, <1>2 DEF Stuck, Doing
<1>3. CASE Ends(todo[t], Holds(t))
  <2>1. Ends(todo'[t], Holds(t)')  BY <1>3
  <2>2. QED  BY <2>1
<1>4. QED  BY <1>2, <1>3 DEF LockInv

\* A step of t that leaves what the other thread holds alone.
LEMMA OperationStep ==
  ASSUME LockInv, NEW t \in Threads, NEW op \in Ops, Do(t, op), op = "lock" => agent = Nobody,
         Holds(t)' = After(Holds(t), op), accidents \subseteq accidents',
         \A u \in Threads \ {t} : Holds(u)' = Holds(u)
  PROVE  \A u \in Threads : (Stuck(u) \/ Ends(todo[u], Holds(u)))'
<1>1. Ends(todo'[t], After(Holds(t), op)) /\ \A u \in Threads \ {t} : todo'[u] = todo[u]
  BY OnPath
<1>2. Ends(todo[t], Holds(t))'  BY <1>1
<1>3. \A u \in Threads \ {t} : (Stuck(u) \/ Ends(todo[u], Holds(u)))'  BY <1>1, StaysOn
<1>4. QED  BY <1>2, <1>3

-----------------------------------------------------------------------------
(* The steps.                                                              *)

\* An operation that takes and releases nothing.
LEMMA QuietStep ==
  ASSUME LockInv, NEW t \in Threads, NEW op \in Ops, Do(t, op),
         op \notin {"lock", "unlock", "enter", "leave", "clear", "write"},
         UNCHANGED <<gdk, agent, filling>>, accidents \subseteq accidents',
         "abandoned" \in accidents' => "abandoned" \in accidents
  PROVE  LockInv'
<1>1. \A u \in Threads : Holds(u)' = Holds(u)  BY DEF Holds
<1>2. After(Holds(t), op) = Holds(t)  BY DEF After
<1>3. \A u \in Threads : (Stuck(u) \/ Ends(todo[u], Holds(u)))'  BY <1>1, <1>2, OperationStep
<1>4. LockType'  BY OnPath DEF LockInv, LockType
<1>5. (\A u \in filling : gdk = u)'  BY DEF LockInv
<1>6. QED  BY <1>3, <1>4, <1>5 DEF LockInv

\* A thread puts operations on top of, or in the place of, what it had to do.
LEMMA HandlerStep ==
  ASSUME LockInv, NEW t \in Threads, NEW s, todo' = [todo EXCEPT ![t] = s],
         Ends(s, Holds(t)), UNCHANGED <<gdk, agent, filling>>, accidents \subseteq accidents',
         "abandoned" \in accidents' => "abandoned" \in accidents
  PROVE  LockInv'
<1>1. \A u \in Threads : Holds(u)' = Holds(u)  BY DEF Holds
<1>2. s \in Seq(Ops)  BY DEF Ends
<1>3. todo'[t] = s /\ \A u \in Threads \ {t} : todo'[u] = todo[u]  BY DEF LockInv, LockType
<1>4. Ends(todo[t], Holds(t))'  BY <1>1, <1>3
<1>5. \A u \in Threads \ {t} : (Stuck(u) \/ Ends(todo[u], Holds(u)))'  BY <1>1, <1>3, StaysOn
<1>6. LockType'  BY <1>2 DEF LockInv, LockType
<1>7. (\A u \in filling : gdk = u)'  BY DEF LockInv
<1>8. QED  BY <1>4, <1>5, <1>6, <1>7 DEF LockInv

\* Locks are taken and released, messages begun and written.
LEMMA SharedStep ==
  ASSUME LockInv, NEW t \in Threads, Shared(t)
  PROVE  LockInv'
<1> USE DEF locks, agents, panel
<1>1. CASE gdk_threads_enter(t)
  <2>1. /\ Do(t, "enter") /\ gdk = Nobody /\ gdk' = t /\ UNCHANGED <<agent, filling, accidents>>
        /\ "enter" \in Ops
    BY <1>1 DEF gdk_threads_enter, Ops
  <2>2. Holds(t)' = After(Holds(t), "enter")  BY <2>1 DEF Holds, After, Marks
  <2>3. \A u \in Threads \ {t} : Holds(u)' = Holds(u)
    BY <2>1 DEF Holds, Threads, Nobody
  <2>4. filling = {}  BY <2>1 DEF LockInv, LockType, Threads, Nobody
  <2>5. LockType'  BY <2>1, OnPath DEF LockInv, LockType
  <2>6. QED  BY <2>1, <2>2, <2>3, <2>4, <2>5, OperationStep DEF LockInv
<1>2. CASE gdk_threads_leave(t)
  <2>1. /\ Do(t, "leave") /\ gdk' = Nobody /\ UNCHANGED <<agent, filling, accidents>>
        /\ "leave" \in Ops
    BY <1>2 DEF gdk_threads_leave, Ops
  <2>2. gdk = t /\ t \notin filling
    <3>1. Legal(Holds(t), "leave")  BY <2>1, OnPath
    <3>2. QED  BY <3>1 DEF Legal, Holds, Marks
  <2>3. Holds(t)' = After(Holds(t), "leave")
    BY <2>1, <2>2 DEF Holds, After, Threads, Nobody
  <2>4. \A u \in Threads \ {t} : Holds(u)' = Holds(u)
    BY <2>1, <2>2 DEF Holds, Threads, Nobody
  <2>5. filling = {}  BY <2>2 DEF LockInv, LockType
  <2>6. LockType'  BY <2>1, OnPath DEF LockInv, LockType
  <2>7. QED  BY <2>1, <2>3, <2>4, <2>5, <2>6, OperationStep DEF LockInv
<1>3. CASE slot_lock(t)
  <2>1. /\ Do(t, "lock") /\ agent = Nobody /\ agent' = t /\ UNCHANGED <<gdk, filling, accidents>>
        /\ "lock" \in Ops
    BY <1>3 DEF slot_lock, Ops
  <2>2. Holds(t)' = After(Holds(t), "lock")  BY <2>1 DEF Holds, After, Marks
  <2>3. \A u \in Threads \ {t} : Holds(u)' = Holds(u)
    BY <2>1 DEF Holds, Threads, Nobody
  <2>4. LockType'  BY <2>1, OnPath DEF LockInv, LockType
  <2>5. QED  BY <2>1, <2>2, <2>3, <2>4, OperationStep DEF LockInv
<1>4. CASE slot_unlock(t)
  <2>1. /\ Do(t, "unlock") /\ agent' = Nobody /\ UNCHANGED <<gdk, filling, accidents>>
        /\ "unlock" \in Ops
    BY <1>4 DEF slot_unlock, Ops
  <2>2. agent = t
    <3>1. Legal(Holds(t), "unlock")  BY <2>1, OnPath
    <3>2. QED  BY <3>1 DEF Legal, Holds, Marks
  <2>3. Holds(t)' = After(Holds(t), "unlock")
    BY <2>1, <2>2 DEF Holds, After, Threads, Nobody
  <2>4. \A u \in Threads \ {t} : Holds(u)' = Holds(u)
    BY <2>1, <2>2 DEF Holds, Threads, Nobody
  <2>5. LockType'  BY <2>1, OnPath DEF LockInv, LockType
  <2>6. QED  BY <2>1, <2>3, <2>4, <2>5, OperationStep DEF LockInv
<1>5. CASE Fill(t)
  <2>1. /\ Do(t, "clear") /\ filling' = filling \cup {t} /\ UNCHANGED <<gdk, agent, accidents>>
        /\ "clear" \in Ops
    BY <1>5 DEF Fill, Ops
  <2>2. gdk = t
    <3>1. Legal(Holds(t), "clear")  BY <2>1, OnPath
    <3>2. QED  BY <3>1 DEF Legal, Holds, Marks
  <2>3. Holds(t)' = After(Holds(t), "clear")  BY <2>1 DEF Holds, After, Marks
  <2>4. \A u \in Threads \ {t} : Holds(u)' = Holds(u)  BY <2>1 DEF Holds
  <2>5. LockType'  BY <2>1, OnPath DEF LockInv, LockType
  <2>6. QED  BY <2>1, <2>2, <2>3, <2>4, <2>5, OperationStep DEF LockInv
<1>6. CASE Write(t)
  <2>1. /\ Do(t, "write") /\ filling' = filling \ {t} /\ UNCHANGED <<gdk, agent, accidents>>
        /\ "write" \in Ops
    BY <1>6 DEF Write, Ops
  <2>2. Holds(t)' = After(Holds(t), "write")  BY <2>1 DEF Holds, After
  <2>3. \A u \in Threads \ {t} : Holds(u)' = Holds(u)  BY <2>1 DEF Holds
  <2>4. LockType'  BY <2>1, OnPath DEF LockInv, LockType
  <2>5. QED  BY <2>1, <2>2, <2>3, <2>4, OperationStep DEF LockInv
<1>7. CASE Draw(t) \/ SetExit(t) \/ Connect(t)
  <2>1. PICK op \in {"draw", "exit", "connect"} :
          Do(t, op) /\ UNCHANGED <<gdk, agent, filling, accidents>>
    BY <1>7 DEF Draw, SetExit, Connect
  <2>2. op \in Ops  BY DEF Ops
  <2>3. QED  BY <2>1, <2>2, QuietStep
<1>8. QED  BY <1>1, <1>2, <1>3, <1>4, <1>5, <1>6, <1>7 DEF Shared

\* The socket thread: its own operations, the commands of a transaction, the
\* next callback, and the end of run ().
LEMMA SocketStep ==
  ASSUME LockInv, SocketThread
  PROVE  LockInv'
<1> USE DEF locks, agents, panel
<1>0. "sock" \in Threads /\ todo \in [Threads -> Seq(Ops)]
  BY DEF Threads, LockInv, LockType
<1>1. CASE CheckExit \/ Add \/ Erase \/ Await \/ Answer \/ EndCommands \/ gtk_main_quit
  <2>1. PICK op \in {"check", "add", "erase", "await", "answer", "commands", "quit"} :
          /\ Do("sock", op) /\ UNCHANGED <<gdk, agent, filling>>
          /\ accidents \subseteq accidents' /\ accidents' \subseteq accidents \cup {"early"}
    BY <1>1 DEF CheckExit, Add, Erase, Await, Answer, EndCommands, gtk_main_quit, Sock
  <2>2. op \in Ops  BY DEF Ops
  <2>3. QED  BY <1>0, <2>1, <2>2, QuietStep
<1>2. CASE Command
  <2>1. PICK ops \in Commands(peer) : todo' = [todo EXCEPT !["sock"] = ops \o @]
    BY <1>2 DEF Command
  <2>2. todo["sock"] # <<>> /\ Head(todo["sock"]) = "commands" /\ UNCHANGED <<locks, filling, panel>>
    BY <1>2 DEF Command
  <2>3. ~Stuck("sock")  BY <2>2 DEF Stuck, Doing
  <2>4. Ends(todo["sock"], Holds("sock"))  BY <1>0, <2>3 DEF LockInv
  <2>5. Legal(Holds("sock"), "commands")
    <3>1. PICK y : Path(todo["sock"], Holds("sock"), y)  BY <2>4 DEF Ends
    <3>2. QED  BY <1>0, <2>2, <3>1, PathPop
  <2>6. Loop(ops, Holds("sock"))  BY <2>5, HoldsType, CommandLoop DEF Legal
  <2>7. Ends(ops \o todo["sock"], Holds("sock"))  BY <2>4, <2>6, EndsConcat DEF Loop
  <2>8. QED  BY <1>0, <2>1, <2>2, <2>7, HandlerStep
<1>3. CASE IgnoreCommand
  <2>1. /\ todo["sock"] # <<>> /\ Head(todo["sock"]) = "commands"
        /\ todo' = [todo EXCEPT !["sock"] = <<>>] /\ UNCHANGED <<gdk, agent, filling>>
        /\ accidents' = accidents \cup {"abandoned"}
    BY <1>3 DEF IgnoreCommand
  <2>2. ~Stuck("sock")  BY <2>1 DEF Stuck, Doing
  <2>3. PICK y : Path(todo["sock"], Holds("sock"), y)  BY <1>0, <2>2 DEF LockInv, Ends
  <2>4. Legal(Holds("sock"), "commands")  BY <1>0, <2>1, <2>3, PathPop
  <2>5. Rests(Holds("sock"))'
    BY <2>1, <2>4 DEF Rests, Legal, Holds, Marks
  <2>6. Ends(<<>>, Holds("sock")')  BY <2>5, LoopEmpty, LoopEnds DEF Rests
  <2>7. todo'["sock"] = <<>> /\ todo'["gui"] = todo["gui"] /\ "gui" \in Threads
    BY <1>0, <2>1 DEF Threads
  <2>8. Holds("gui")' = Holds("gui")  BY <2>1 DEF Holds
  <2>9. (Stuck("gui") \/ Ends(todo["gui"], Holds("gui")))'  BY <2>1, <2>7, <2>8, StaysOn
  <2>10. Ends(todo["sock"], Holds("sock"))'  BY <2>6, <2>7
  <2>11. LockType'
    <3>1. <<>> \in Seq(Ops)  OBVIOUS
    <3>2. QED  BY <3>1, <1>0, <2>1 DEF LockInv, LockType
  <2>12. QED  BY <2>1, <2>9, <2>10, <2>11 DEF LockInv, Threads
<1>4. ASSUME NEW s, Serve(s), Ends(s, Holds("sock")) PROVE LockInv'
  BY <1>0, <1>4, HandlerStep DEF Serve
<1>5. CASE \/ Accept \/ AcceptWake
           \/ \E k \in Kinds : Open(k) \/ Receive(k) \/ Close(k)
  <2>1. Ready  BY <1>5 DEF Accept, AcceptWake, Open, Receive, Close, Serve
  <2>2. Rests(Holds("sock"))  BY <1>0, <2>1, RestsWhenDone DEF Ready
  <2>3. CASE Accept \/ AcceptWake  BY <2>2, <2>3, <1>4, ServerEnds DEF Accept, AcceptWake
  <2>4. ASSUME NEW k \in Kinds, Open(k) \/ Receive(k) PROVE LockInv'
    BY <2>2, <2>4, <1>4, ServerEnds DEF Open, Receive
  <2>5. ASSUME NEW k \in Kinds, Close(k) PROVE LockInv'
    <3>1. PICK current \in BOOLEAN, last \in BOOLEAN :
            Serve(socket_close_connection(k, current, last))
      BY <2>5 DEF Close
    <3>2. Ends(socket_close_connection(k, current, last), Holds("sock"))  BY <2>2, CloseEnds
    <3>3. QED  BY <3>1, <3>2, <1>4
  <2>6. QED  BY <1>5, <2>3, <2>4, <2>5
<1>6. CASE RunReturned
  <2>1. /\ todo["sock"] = <<>> /\ UNCHANGED <<gdk, agent, filling, accidents>>
        /\ todo' = [todo EXCEPT !["sock"] = <<"enter", "quit", "leave">>]
    BY <1>6 DEF RunReturned
  <2>2. Rests(Holds("sock"))  BY <1>0, <2>1, RestsWhenDone
  <2>3. Ends(<<"enter", "quit", "leave">>, Holds("sock"))  BY <2>2, EnterEnds
  <2>4. QED  BY <1>0, <2>1, <2>3, HandlerStep
<1>7. QED  BY <1>1, <1>2, <1>3, <1>5, <1>6 DEF SocketThread

\* The GUI thread.
LEMMA GuiStep ==
  ASSUME LockInv, GuiThread
  PROVE  LockInv'
<1> USE DEF locks, agents, panel
<1>0. "gui" \in Threads  BY DEF Threads
<1>1. CASE gtk_main \/ g_thread_join
  <2>1. PICK op \in {"main", "join"} :
          Do("gui", op) /\ UNCHANGED <<gdk, agent, filling, accidents>>
    BY <1>1 DEF gtk_main, g_thread_join
  <2>2. op \in Ops  BY DEF Ops
  <2>3. QED  BY <1>0, <2>1, <2>2, QuietStep
<1>2. CASE Callback
  <2>1. PICK ops \in Callbacks :
          todo' = [todo EXCEPT !["gui"] = <<"enter">> \o ops \o <<"leave">>]
    BY <1>2 DEF Callback
  <2>2. todo["gui"] = <<>> /\ UNCHANGED <<gdk, agent, filling, accidents>>
    BY <1>2 DEF Callback
  <2>3. Rests(Holds("gui")) /\ "gdk" \notin Holds("gui")  BY <2>2, GuiRests
  <2>4. Ends(<<"enter">> \o ops \o <<"leave">>, Holds("gui"))  BY <2>3, CallbackEnds
  <2>5. QED  BY <1>0, <2>1, <2>2, <2>4, HandlerStep
<1>3. CASE MainReturns
  <2>1. /\ todo["gui"] = <<>> /\ UNCHANGED <<gdk, agent, filling, accidents>>
        /\ todo' = [todo EXCEPT !["gui"] = <<"enter", "leave", "join">>]
    BY <1>3 DEF MainReturns
  <2>2. Ends(<<"enter", "leave", "join">>, Holds("gui"))  BY <2>1, GuiRests, MainEnds
  <2>3. QED  BY <1>0, <2>1, <2>2, HandlerStep
<1>4. QED  BY <1>1, <1>2, <1>3 DEF GuiThread

\* A signal puts stop () on top of a thread; with the agent's lock the thread is
\* stuck.
LEMMA SignalStep ==
  ASSUME LockInv, NEW t \in Threads, signalhandler(t)
  PROVE  LockInv'
<1> USE DEF locks, agents, panel
<1>1. /\ todo' = [todo EXCEPT ![t] = stop \o @] /\ UNCHANGED <<gdk, agent, filling>>
      /\ accidents' = IF agent = t THEN accidents \cup {"interrupted"} ELSE accidents
  BY DEF signalhandler
<1>2. todo \in [Threads -> Seq(Ops)] /\ todo[t] \in Seq(Ops)  BY DEF LockInv, LockType
<1>3. stop \in Seq(Ops)  BY DEF stop, Ops
<1>4. CASE agent = t
  <2>1. accidents' = accidents \cup {"interrupted"}  BY <1>1, <1>4
  <2>2. todo'[t] = stop \o todo[t] /\ \A u \in Threads \ {t} : todo'[u] = todo[u]
    BY <1>1, <1>2
  <2>3. stop \o todo[t] # <<>> /\ Head(stop \o todo[t]) = "lock"  BY <1>2 DEF stop
  <2>4. Stuck(t)'  BY <1>1, <1>4, <2>1, <2>2, <2>3 DEF Stuck, Doing
  <2>5. \A u \in Threads : Holds(u)' = Holds(u)  BY <1>1, <2>1 DEF Holds
  <2>6. \A u \in Threads \ {t} : (Stuck(u) \/ Ends(todo[u], Holds(u)))'
    BY <2>1, <2>2, <2>5, StaysOn
  <2>7. LockType'
    <3>1. stop \o todo[t] \in Seq(Ops)  BY <1>2, <1>3, ConcatProperties
    <3>2. QED  BY <3>1, <1>1, <1>2 DEF LockInv, LockType
  <2>8. QED  BY <1>1, <2>4, <2>6, <2>7 DEF LockInv
<1>5. CASE agent # t
  <2>1. ~Stuck(t) /\ "agent" \notin Holds(t)  BY <1>5 DEF Stuck, Holds
  <2>2. Ends(todo[t], Holds(t))  BY <2>1 DEF LockInv
  <2>3. Loop(stop, Holds(t))  BY <2>1, HoldsType, StopLoop
  <2>4. Ends(stop \o todo[t], Holds(t))  BY <1>3, <2>2, <2>3, EndsConcat DEF Loop
  <2>5. QED  BY <1>1, <1>5, <2>4, HandlerStep
<1>6. QED  BY <1>4, <1>5

LEMMA LockInit == Init => LockInv
<1> SUFFICES ASSUME Init PROVE LockInv  OBVIOUS
<1>1. Rests(Holds("gui")) /\ "gdk" \notin Holds("gui") /\ "gui" \in Holds("gui")
  BY DEF Init, Rests, Holds, Marks, Nobody
<1>2. Rests(Holds("sock"))  BY DEF Init, Rests, Holds, Marks, Nobody
<1>3. Ends(main_function, Holds("gui"))  BY <1>1, MainEnds
<1>4. Ends(<<>>, Holds("sock"))  BY <1>2, LoopEmpty, LoopEnds DEF Rests
<1>5. main_function \in Seq(Ops) /\ <<>> \in Seq(Ops)  BY <1>3 DEF Ends
<1>6. /\ todo = [t \in Threads |-> IF t = "gui" THEN main_function ELSE <<>>]
      /\ gdk = Nobody /\ agent = Nobody /\ filling = {}
  BY DEF Init
<1>7. LockType
  <2>1. todo \in [Threads -> Seq(Ops)]  BY <1>5, <1>6
  <2>2. QED  BY <1>6, <2>1 DEF LockType
<1>8. Ends(todo["gui"], Holds("gui")) /\ Ends(todo["sock"], Holds("sock"))
  BY <1>3, <1>4, <1>6 DEF Threads
<1>9. QED  BY <1>6, <1>7, <1>8 DEF LockInv, Threads

LEMMA LockStep == LockInv /\ [Next]_vars => LockInv'
<1> SUFFICES ASSUME LockInv, [Next]_vars PROVE LockInv'  OBVIOUS
<1>1. ASSUME NEW t \in Threads, Shared(t) \/ signalhandler(t) PROVE LockInv'
  BY <1>1, SharedStep, SignalStep
<1>2. CASE SocketThread  BY <1>2, SocketStep
<1>3. CASE GuiThread  BY <1>3, GuiStep
<1>4. CASE UNCHANGED vars
  <2>1. todo' = todo /\ UNCHANGED <<gdk, agent, filling, accidents>>  BY <1>4 DEF vars
  <2>2. \A t \in Threads : Holds(t)' = Holds(t)  BY <2>1 DEF Holds
  <2>3. \A t \in Threads : (Stuck(t) \/ Ends(todo[t], Holds(t)))'  BY <2>1, <2>2, StaysOn
  <2>4. LockType' /\ (\A t \in filling : gdk = t)'  BY <2>1 DEF LockInv, LockType
  <2>5. QED  BY <2>3, <2>4 DEF LockInv
<1>5. QED  BY <1>1, <1>2, <1>3, <1>4 DEF Next

LEMMA LocksKept == Spec => []LockInv
BY LockInit, LockStep, PTL DEF Spec

-----------------------------------------------------------------------------
(* What follows.                                                           *)

\* A thread that is not stuck comes to a legal operation.
LEMMA ComesLegally ==
  ASSUME LockInv, NEW t \in Threads, NEW op \in Ops, Doing(t, op), ~Stuck(t)
  PROVE  Legal(Holds(t), op)
<1>1. todo[t] \in Seq(Ops)  BY DEF LockInv, LockType
<1>2. PICK y : Path(todo[t], Holds(t), y)  BY DEF LockInv, Ends
<1>3. QED  BY <1>1, <1>2, PathPop DEF Doing

\* m_send_trans is filled by one thread at a time, and slots draw with the GDK lock
\* only, also after the accidents.
THEOREM SharedIsSafe == Spec => []SharedSafe
<1>1. LockInv => SharedSafe
  <2> SUFFICES ASSUME LockInv PROVE SharedSafe  OBVIOUS
  <2>1. filling # Threads  BY DEF LockInv, Threads
  <2>2. ASSUME NEW t \in Threads, Doing(t, "draw") PROVE gdk = t
    <3>1. ~Stuck(t) /\ "draw" \in Ops  BY <2>2 DEF Stuck, Doing, Ops
    <3>2. Legal(Holds(t), "draw")  BY <2>2, <3>1, ComesLegally
    <3>3. QED  BY <3>2 DEF Legal, Holds, Marks
  <2>3. QED  BY <2>1, <2>2 DEF SharedSafe
<1>2. QED  BY <1>1, LocksKept, PTL

\* Without accidents one of the threads can always go on: whoever waits for the
\* GDK lock has no lock, whoever waits for the agent's lock has not this one, and
\* whoever waits for the other thread's end has none.
THEOREM DeadlockFree == Spec => []NoDeadlock
<1>1. LockInv => NoDeadlock
  <2> SUFFICES ASSUME LockInv, accidents = {}, \A t \in Threads : Blocked(t) PROVE FALSE
    BY DEF NoDeadlock
  <2>1. \A t \in Threads : ~Stuck(t)  BY DEF Stuck
  <2>2. {"enter", "lock", "join"} \subseteq Ops  BY DEF Ops
  <2>3. \A t \in Threads : Doing(t, "enter") => gdk # t /\ agent # t
    <3> SUFFICES ASSUME NEW t \in Threads, Doing(t, "enter") PROVE gdk # t /\ agent # t
      OBVIOUS
    <3>1. Legal(Holds(t), "enter")  BY <2>1, <2>2, ComesLegally
    <3>2. QED  BY <3>1 DEF Legal, Holds, Marks
  <2>4. \A t \in Threads : Doing(t, "lock") => agent # t
    <3> SUFFICES ASSUME NEW t \in Threads, Doing(t, "lock") PROVE agent # t
      OBVIOUS
    <3>1. Legal(Holds(t), "lock")  BY <2>1, <2>2, ComesLegally
    <3>2. QED  BY <3>1 DEF Legal, Holds, Marks
  <2>5. \A t \in Threads : Doing(t, "join") => t = "gui" /\ gdk # t /\ agent # t
    <3> SUFFICES ASSUME NEW t \in Threads, Doing(t, "join")
                 PROVE  t = "gui" /\ gdk # t /\ agent # t
      OBVIOUS
    <3>1. Legal(Holds(t), "join")  BY <2>1, <2>2, ComesLegally
    <3>2. QED  BY <3>1 DEF Legal, Holds, Marks
  <2>6. gdk \in {"gui", "sock", Nobody} /\ agent \in {"gui", "sock", Nobody}
    BY DEF LockInv, LockType, Threads
  <2>7. Blocked("gui") /\ Blocked("sock")  BY DEF Threads
  <2>8. agent = Nobody \/ Doing("gui", "lock") \/ Doing("sock", "lock")
    BY <2>3, <2>5, <2>6, <2>7 DEF Blocked, Threads
  <2>9. QED  BY <2>3, <2>4, <2>5, <2>6, <2>7, <2>8 DEF Blocked, Threads, Doing
<1>2. QED  BY <1>1, LocksKept, PTL
=============================================================================
