-------------------------- MODULE ScimBridgeProofs --------------------------
(***************************************************************************)
(* The shared engine of scim-bridge serves one context that exists, a late *)
(* answer is never taken for the answer to another question, and an        *)
(* application that waits for nothing and the agent agree on its contexts, *)
(* for every number of applications, contexts, faults and questions.       *)
(***************************************************************************)
EXTENDS ScimBridge, FiniteSetTheorems, FunctionTheorems, SequenceTheorems, TLAPS

Requests == {"register", "deregister", "reset", "key", "in", "out", "got"}
Askers   == {"deregister", "reset", "key", "in", "out"}
Answers  == {"registered", "deregistered", "reseted", "handled", "focused", "get"}

\* Messages in both directions; W holds the ids that have been in use.
ToAgent(W)  == [k : Requests, id : W, q : Nat]
ToClient(W) == [k : Answers, id : W, q : Nat]

AgentFields == {"up", "lst", "tbl", "free", "size", "foc", "fdata", "rcv", "buf", "tmo",
                "intr", "due", "ask", "stray", "wrong"}

\* The agent's contexts, and the context that the engine serves.
Contexts(a) ==
  /\ DOMAIN a = AgentFields
  /\ a.tbl \in [Ids -> Clients \cup {None}] /\ a.foc \subseteq Ids
  /\ a.fdata \in Ids \cup {NoId}
  /\ a.fdata # NoId => a.tbl[a.fdata] # None
  /\ shared => a.stray \/ a.foc \subseteq {a.fdata}

Asks == [c : Clients \cup {None}, q : Nat, to : Clients \cup {None},
         k : Askers \cup {None}, poll : BOOLEAN]

Queues(a, W) ==
  /\ a.rcv \in [Clients -> Seq(ToAgent(W))] /\ a.buf \in [Clients -> Seq(ToAgent(W))]
  /\ a.ask \in Asks /\ (a.ask = NoAsk \/ a.ask.c \in Clients)
  /\ a.ask.to = None \/ a.ask.k \in Askers

\* From a to b only the contexts change.
Works(a, b) == Contexts(b) /\ b.rcv = a.rcv /\ b.buf = a.buf /\ b.ask = a.ask

LEMMA NoIdNotId == NoId \notin Ids
BY DEF NoId, Ids

LEMMA WorksSelf ==
  ASSUME NEW a, Contexts(a)
  PROVE  Works(a, a)
BY DEF Works

LEMMA WorksTrans ==
  ASSUME NEW a, NEW b, NEW c, Works(a, b), Works(b, c)
  PROVE  Works(a, c)
BY DEF Works

-----------------------------------------------------------------------------
(* The agent's operators.                                                  *)

LEMMA FocusOutWorks ==
  ASSUME NEW a, Contexts(a), NEW i
  PROVE  /\ Works(a, focus_out(a, i)) /\ focus_out(a, i).tbl = a.tbl
         /\ focus_out(a, i).fdata = a.fdata /\ focus_out(a, i).stray = a.stray
         /\ focus_out(a, i).foc = a.foc \ {i}
<1> DEFINE b == focus_out(a, i)
<1>1. /\ DOMAIN b = AgentFields /\ b.tbl = a.tbl /\ b.foc = a.foc \ {i} /\ b.fdata = a.fdata
      /\ b.stray = a.stray /\ b.rcv = a.rcv /\ b.buf = a.buf /\ b.ask = a.ask
  BY DEF focus_out, Contexts, AgentFields
<1> HIDE DEF b
<1>2. Contexts(b)  BY <1>1 DEF Contexts
<1>3. QED  BY <1>1, <1>2 DEF Works, b

LEMMA FocusInWorks ==
  ASSUME NEW a, Contexts(a), NEW i \in Ids, a.tbl[i] # None
  PROVE  Works(a, focus_in(a, i)) /\ focus_in(a, i).tbl = a.tbl
<1> DEFINE b == IF shared /\ a.fdata # NoId THEN focus_out(a, a.fdata) ELSE a
           t == [b EXCEPT !.fdata = IF shared THEN i ELSE @, !.foc = @ \cup {i}]
<1>1. Works(a, b) /\ b.tbl = a.tbl /\ b.stray = a.stray /\ b.fdata = a.fdata
      /\ b.foc \subseteq a.foc /\ (shared => b.stray \/ b.foc = {})
  <2>1. CASE shared /\ a.fdata # NoId
    <3>1. b = focus_out(a, a.fdata)  BY <2>1
    <3>2. /\ Works(a, b) /\ b.tbl = a.tbl /\ b.stray = a.stray /\ b.fdata = a.fdata
          /\ b.foc = a.foc \ {a.fdata}
      BY <3>1, FocusOutWorks
    <3> HIDE DEF b
    <3>3. QED  BY <2>1, <3>2 DEF Contexts
  <2>2. CASE ~(shared /\ a.fdata # NoId)
    <3>1. b = a  BY <2>2
    <3> HIDE DEF b
    <3>2. shared => a.stray \/ a.foc = {}  BY <2>2, NoIdNotId DEF Contexts
    <3>3. QED  BY <3>1, <3>2, WorksSelf
  <2>3. QED  BY <2>1, <2>2
<1>2. focus_in(a, i) = t  BY DEF focus_in
<1> HIDE DEF b
<1>3. /\ DOMAIN t = AgentFields /\ t.tbl = b.tbl /\ t.foc = b.foc \cup {i}
      /\ t.fdata = IF shared THEN i ELSE b.fdata
      /\ t.stray = b.stray /\ t.rcv = b.rcv /\ t.buf = b.buf /\ t.ask = b.ask
  BY <1>1 DEF Works, Contexts, AgentFields
<1> HIDE DEF t
<1>4. Contexts(t)  BY <1>1, <1>3 DEF Contexts, Works
<1>5. QED  BY <1>1, <1>2, <1>3, <1>4 DEF Works

LEMMA OpenWorks ==
  ASSUME NEW a, Contexts(a), NEW i \in Ids, a.tbl[i] # None, NEW f
  PROVE  Works(a, open_imengine(a, i, f))
<1> DEFINE b == focus_out(a, i)
           n == IF shared THEN i ELSE b.fdata
           r == b.stray \/ (shared /\ a.fdata \notin {i, NoId})
           c == [b EXCEPT !.fdata = n, !.stray = r]
<1>1. /\ Works(a, b) /\ b.tbl = a.tbl /\ b.fdata = a.fdata /\ b.stray = a.stray
      /\ b.foc = a.foc \ {i}
  BY FocusOutWorks
<1>2. open_imengine(a, i, f) = IF f = "same" THEN b ELSE focus_in(c, i)  BY DEF open_imengine
<1> HIDE DEF b
<1>3. /\ DOMAIN c = AgentFields /\ c.tbl = b.tbl /\ c.foc = b.foc /\ c.fdata = n
      /\ c.stray = r /\ c.rcv = b.rcv /\ c.buf = b.buf /\ c.ask = b.ask
  BY <1>1 DEF Works, Contexts, AgentFields
<1> HIDE DEF c
<1>4. shared => r \/ c.foc \subseteq {i}  BY <1>1, <1>3, NoIdNotId DEF Contexts
<1>5. Contexts(c)  BY <1>1, <1>3, <1>4 DEF Works, Contexts
<1>6. Works(b, c)  BY <1>3, <1>5 DEF Works
<1>7. Works(c, focus_in(c, i))  BY <1>1, <1>3, <1>5, FocusInWorks
<1>8. QED  BY <1>1, <1>2, <1>6, <1>7, WorksTrans

LEMMA DestroyWorks ==
  ASSUME NEW a, Contexts(a), NEW S
  PROVE  Works(a, Destroy(a, S))
<1> DEFINE b == Destroy(a, S)
           T == [i \in Ids |-> IF i \in S THEN None ELSE a.tbl[i]]
<1>1. /\ DOMAIN b = AgentFields /\ b.tbl = T /\ b.foc = a.foc \ S
      /\ b.fdata = IF a.fdata \in S THEN NoId ELSE a.fdata
      /\ b.stray = a.stray /\ b.rcv = a.rcv /\ b.buf = a.buf /\ b.ask = a.ask
  BY DEF Destroy, Contexts, AgentFields
<1> HIDE DEF b
<1>2. T \in [Ids -> Clients \cup {None}]  BY DEF Contexts
<1>3. \A i \in Ids : i \notin S => T[i] = a.tbl[i]  OBVIOUS
<1> HIDE DEF T
<1>4. shared => b.stray \/ b.foc \subseteq {b.fdata}  BY <1>1 DEF Contexts
<1>5. b.fdata # NoId => b.tbl[b.fdata] # None  BY <1>1, <1>3 DEF Contexts
<1>6. Contexts(b)  BY <1>1, <1>2, <1>4, <1>5 DEF Contexts
<1>7. QED  BY <1>1, <1>6 DEF Works, b

LEMMA AllocWorks ==
  ASSUME NEW a, Contexts(a), NEW c \in Clients
  PROVE  Works(a, alloc_imcontext(a, c))
<1> DEFINE b == alloc_imcontext(a, c)
           T == [a.tbl EXCEPT ![NewId(a)] = c]
<1>1. b = [a EXCEPT !.tbl = T, !.size = IF a.free = <<>> THEN a.size + 1 ELSE a.size,
                    !.free = IF a.free = <<>> THEN a.free ELSE Front(a.free)]
  BY DEF alloc_imcontext, Contexts, AgentFields
<1> HIDE DEF b
<1>2. /\ DOMAIN b = AgentFields /\ b.tbl = T /\ b.foc = a.foc /\ b.fdata = a.fdata
      /\ b.stray = a.stray /\ b.rcv = a.rcv /\ b.buf = a.buf /\ b.ask = a.ask
  BY <1>1 DEF Contexts, AgentFields
<1>3. T \in [Ids -> Clients \cup {None}]  BY DEF Contexts
<1>4. \A i \in Ids : T[i] = a.tbl[i] \/ T[i] = c  BY DEF Contexts
<1>5. c # None  BY OwnerAssumption
<1> HIDE DEF T
<1>6. b.fdata # NoId => b.tbl[b.fdata] # None  BY <1>2, <1>4, <1>5 DEF Contexts
<1>7. Contexts(b)  BY <1>2, <1>3, <1>6 DEF Contexts
<1>8. QED  BY <1>2, <1>7 DEF Works, b

LEMMA FilterWorks ==
  ASSUME NEW a, Contexts(a), NEW i \in Ids, a.tbl[i] # None, NEW e
  PROVE  Works(a, filter_key_event(a, i, e))
BY OpenWorks, FocusInWorks, WorksSelf DEF filter_key_event

LEMMA TimeoutsWork ==
  ASSUME NEW a, Contexts(a), NEW x
  PROVE  Works(a, [a EXCEPT !.tmo = x])
<1> DEFINE b == [a EXCEPT !.tmo = x]
<1>1. /\ DOMAIN b = AgentFields /\ b.tbl = a.tbl /\ b.foc = a.foc /\ b.fdata = a.fdata
      /\ b.stray = a.stray /\ b.rcv = a.rcv /\ b.buf = a.buf /\ b.ask = a.ask
  BY DEF Contexts, AgentFields
<1> HIDE DEF b
<1>2. QED  BY <1>1 DEF Works, Contexts, b

\* Which of the cases of process_message a message is.
LEMMA ProcessCases ==
  ASSUME NEW a, NEW c, NEW m, NEW e
  PROVE  /\ m.k = "register" => process_message(a, c, m, e) = alloc_imcontext(a, c)
         /\ m.k = "deregister" => process_message(a, c, m, e) = free_imcontext(a, c, m.id)
         /\ m.k = "got" => process_message(a, c, m, e)
                             = [a EXCEPT !.tmo[c] = IF @ > 0 THEN @ - 1 ELSE 0]
         /\ m.k = "in" => process_message(a, c, m, e)
                            = IF Found(a, m.id) THEN focus_in(a, m.id) ELSE a
         /\ m.k = "out" => process_message(a, c, m, e)
                            = IF Found(a, m.id) THEN focus_out(a, m.id) ELSE a
         /\ m.k = "key" => process_message(a, c, m, e)
                            = IF Found(a, m.id) THEN filter_key_event(a, m.id, e) ELSE a
         /\ m.k = "reset" => process_message(a, c, m, e) = a
BY DEF process_message

LEMMA ProcessWorks ==
  ASSUME NEW a, Contexts(a), NEW c \in Clients, NEW m, m.k \in Requests, NEW e
  PROVE  Works(a, process_message(a, c, m, e))
<1>1. CASE m.k = "register"  BY <1>1, AllocWorks, ProcessCases
<1>2. CASE m.k = "deregister"
  <2>1. process_message(a, c, m, e) = free_imcontext(a, c, m.id)  BY <1>2, ProcessCases
  <2>2. Works(a, free_imcontext(a, c, m.id))  BY DestroyWorks, WorksSelf DEF free_imcontext
  <2>3. QED  BY <2>1, <2>2
<1>3. CASE m.k = "got"
  <2> DEFINE x == [a.tmo EXCEPT ![c] = IF @ > 0 THEN @ - 1 ELSE 0]
  <2>1. process_message(a, c, m, e) = [a EXCEPT !.tmo = x]
    BY <1>3, ProcessCases DEF Contexts, AgentFields
  <2> HIDE DEF x
  <2>2. QED  BY <2>1, TimeoutsWork
<1>4. CASE m.k \in {"reset", "key", "in", "out"} /\ ~Found(a, m.id)
  BY <1>4, WorksSelf, ProcessCases
<1>5. CASE m.k \in {"reset", "key", "in", "out"} /\ Found(a, m.id)
  <2>1. m.id \in Ids /\ a.tbl[m.id] # None  BY <1>5 DEF Found
  <2>2. CASE m.k = "in"  BY <1>5, <2>1, <2>2, FocusInWorks, ProcessCases
  <2>3. CASE m.k = "out"  BY <1>5, <2>3, FocusOutWorks, ProcessCases
  <2>4. CASE m.k = "key"  BY <1>5, <2>1, <2>4, FilterWorks, ProcessCases
  <2>5. CASE m.k = "reset"  BY <1>5, <2>5, WorksSelf, ProcessCases
  <2>6. QED  BY <1>5, <2>2, <2>3, <2>4, <2>5
<1>6. QED  BY <1>1, <1>2, <1>3, <1>4, <1>5 DEF Requests

-----------------------------------------------------------------------------
(* The invariant.                                                          *)

Lines(W) ==
  /\ toA \in [Clients -> Seq(ToAgent(W))] /\ toC \in [Clients -> Seq(ToClient(W))]
  /\ id \in [Ctxs -> W] /\ NoId \in W /\ Ids \subseteq W /\ asked.n \in Nat

BInv(W) == Contexts(ag) /\ Queues(ag, W) /\ Lines(W)

\* What the library sends, for a request, or in answer to a question.
LEMMA MsgTypes ==
  ASSUME NEW W, NEW i \in W
  PROVE  /\ \A k \in Requests, q \in Nat : Msg(k, i, q) \in ToAgent(W)
         /\ \A k \in Answers, q \in Nat : Msg(k, i, q) \in ToClient(W)
BY DEF Msg, ToAgent, ToClient

LEMMA AnswerTypes == \A k \in Requests \ {"got"} : AnswerTo(k) \in Answers
BY DEF AnswerTo, Requests, Answers

LEMMA Sent ==
  ASSUME NEW c \in Clients, NEW S, NEW f \in [Clients -> Seq(S)], NEW m \in S
  PROVE  [f EXCEPT ![c] = Append(@, m)] \in [Clients -> Seq(S)]
OBVIOUS

LEMMA Dropped ==
  ASSUME NEW c \in Clients, NEW S, NEW f \in [Clients -> Seq(S)]
  PROVE  [f EXCEPT ![c] = <<>>] \in [Clients -> Seq(S)]
OBVIOUS

LEMMA Taken ==
  ASSUME NEW c \in Clients, NEW S, NEW f \in [Clients -> Seq(S)], f[c] # <<>>
  PROVE  [f EXCEPT ![c] = Tail(@)] \in [Clients -> Seq(S)] /\ Head(f[c]) \in S
<1>1. f[c] \in Seq(S)  OBVIOUS
<1>2. Tail(f[c]) \in Seq(S) /\ Head(f[c]) \in S  BY <1>1
<1>3. QED  BY <1>2

LEMMA ReadSome ==
  ASSUME NEW S, NEW s \in Seq(S), NEW k \in 1..Len(s)
  PROVE  SubSeq(s, 1, k) \in Seq(S) /\ SubSeq(s, k + 1, Len(s)) \in Seq(S)
<1>1. Len(s) \in Nat /\ k \in Int /\ 1 <= k /\ k <= Len(s) /\ DOMAIN s = 1..Len(s)  OBVIOUS
<1>2. \A j \in 1..Len(s) : s[j] \in S  OBVIOUS
<1>3. SubSeq(s, 1, k) \in Seq(S)  BY <1>1, <1>2
<1>4. SubSeq(s, k + 1, Len(s)) \in Seq(S)  BY <1>1, <1>2
<1>5. QED  BY <1>3, <1>4

LEMMA AgentUnchanged ==
  ASSUME NEW W, Contexts(ag), Queues(ag, W), UNCHANGED <<ag, shared>>
  PROVE  Contexts(ag)' /\ Queues(ag, W)'
BY DEF Contexts, Queues

LEMMA CloseStep ==
  ASSUME NEW W, BInv(W), NEW c \in Clients, NEW keep, close_messenger(c, keep)
  PROVE  BInv(W)'
<1>1. /\ UNCHANGED <<ag, shared, asked>>
      /\ id' = [x \in Ctxs |-> IF x \in cl[c].list THEN NoId ELSE id[x]]
      /\ toA' = [toA EXCEPT ![c] = <<>>] /\ toC' = [toC EXCEPT ![c] = <<>>]
  BY DEF close_messenger
<1>2. Contexts(ag)' /\ Queues(ag, W)'  BY <1>1, AgentUnchanged DEF BInv
<1>3. toA' \in [Clients -> Seq(ToAgent(W))] /\ toC' \in [Clients -> Seq(ToClient(W))]
  BY <1>1, Dropped DEF BInv, Lines
<1>4. id' \in [Ctxs -> W]  BY <1>1 DEF BInv, Lines
<1>5. QED  BY <1>1, <1>2, <1>3, <1>4 DEF BInv, Lines

LEMMA RequestStep ==
  ASSUME NEW W, BInv(W), NEW c \in Clients, NEW k \in Requests, NEW i \in W, NEW x,
         Request(c, k, i, x)
  PROVE  BInv(W)'
<1>1. CASE conn[c] = "cut"  BY <1>1, CloseStep DEF Request
<1>2. CASE conn[c] # "cut"
  <2>1. toA' = [toA EXCEPT ![c] = Append(@, Msg(k, i, 0))] /\ UNCHANGED <<id, toC, ag, shared, asked>>
    BY <1>2 DEF Request
  <2>2. Contexts(ag)' /\ Queues(ag, W)'  BY <2>1, AgentUnchanged DEF BInv
  <2>3. Msg(k, i, 0) \in ToAgent(W)  BY MsgTypes
  <2>4. toA' \in [Clients -> Seq(ToAgent(W))]  BY <2>1, <2>3, Sent DEF BInv, Lines
  <2>5. QED  BY <2>1, <2>2, <2>4 DEF BInv, Lines
<1>3. QED  BY <1>1, <1>2

LEMMA DeregisterStep ==
  ASSUME NEW W, BInv(W), NEW x \in Ctxs, deregister_imcontext(x)
  PROVE  BInv(W)'
<1> DEFINE c == Owner[x]
<1>1. c \in Clients /\ id[x] \in W /\ NoId \in W  BY OwnerAssumption DEF BInv, Lines
<1>2. CASE conn[c] = "cut"  BY <1>1, <1>2, CloseStep DEF deregister_imcontext
<1>3. CASE conn[c] # "cut"
  <2>1. /\ toA' = [toA EXCEPT ![c] = Append(@, Msg("deregister", id[x], 0))]
        /\ id' = [id EXCEPT ![x] = NoId] /\ UNCHANGED <<toC, ag, shared, asked>>
    BY <1>3 DEF deregister_imcontext
  <2> HIDE DEF c
  <2>2. Contexts(ag)' /\ Queues(ag, W)'  BY <2>1, AgentUnchanged DEF BInv
  <2>3. Msg("deregister", id[x], 0) \in ToAgent(W)  BY <1>1, MsgTypes DEF Requests
  <2>4. toA' \in [Clients -> Seq(ToAgent(W))]  BY <1>1, <2>1, <2>3, Sent DEF BInv, Lines
  <2>5. id' \in [Ctxs -> W]  BY <1>1, <2>1 DEF BInv, Lines
  <2>6. QED  BY <2>1, <2>2, <2>4, <2>5 DEF BInv, Lines
<1>4. QED  BY <1>2, <1>3

LEMMA NewAgentWorks ==
  ASSUME NEW W
  PROVE  /\ Contexts(NewAgent) /\ Queues(NewAgent, W)
         /\ Contexts(NoAgent) /\ Queues(NoAgent, W)
<1> DEFINE T == [i \in Ids |-> None]  E == [c \in Clients |-> <<>>]
<1>1. /\ DOMAIN NewAgent = AgentFields /\ NewAgent.tbl = T /\ NewAgent.foc = {}
      /\ NewAgent.fdata = NoId /\ NewAgent.rcv = E /\ NewAgent.buf = E /\ NewAgent.ask = NoAsk
  BY DEF NewAgent, AgentFields
<1>2. /\ DOMAIN NoAgent = AgentFields /\ NoAgent.tbl = T /\ NoAgent.foc = {}
      /\ NoAgent.fdata = NoId /\ NoAgent.rcv = E /\ NoAgent.buf = E /\ NoAgent.ask = NoAsk
  BY <1>1 DEF NoAgent, AgentFields
<1>3. T \in [Ids -> Clients \cup {None}] /\ E \in [Clients -> Seq(ToAgent(W))]  OBVIOUS
<1>4. NoAsk \in Asks /\ NoAsk.to = None  BY DEF NoAsk, Asks
<1> HIDE DEF T, E
<1>5. QED  BY <1>1, <1>2, <1>3, <1>4 DEF Contexts, Queues

LEMMA OpenStep ==
  ASSUME NEW W, BInv(W), NEW c \in Clients, open_messenger(c)
  PROVE  BInv(W)'
<1>1. (ag' = ag \/ ag' = NewAgent) /\ UNCHANGED <<id, toA, toC, shared, asked>>
  BY DEF open_messenger
<1>2. Contexts(ag)' /\ Queues(ag, W)'
  <2>1. CASE ag' = ag  BY <1>1, <2>1, AgentUnchanged DEF BInv
  <2>2. CASE ag' = NewAgent
    <3>1. Contexts(NewAgent) /\ Queues(NewAgent, W)  BY NewAgentWorks
    <3>2. QED  BY <1>1, <2>2, <3>1 DEF Contexts, Queues
  <2>3. QED  BY <1>1, <2>1, <2>2
<1>3. QED  BY <1>1, <1>2 DEF BInv, Lines

LEMMA CallsStep ==
  ASSUME NEW W, BInv(W), NEW c \in Clients, Calls(c)
  PROVE  BInv(W)'
<1>1. CASE open_messenger(c)  BY <1>1, OpenStep
<1>2. ASSUME NEW x \in Ctxs,
             \/ register_imcontext(x) \/ deregister_imcontext(x)
             \/ reset_imcontext(x) \/ handle_key_event(x) \/ change_focus(x)
      PROVE  BInv(W)'
  <2>1. Owner[x] \in Clients /\ id[x] \in W /\ NoId \in W  BY OwnerAssumption DEF BInv, Lines
  <2>2. \A k \in {"register", "reset", "key", "in", "out"} : k \in Requests  BY DEF Requests
  <2>3. CASE register_imcontext(x)  BY <2>1, <2>2, <2>3, RequestStep DEF register_imcontext
  <2>4. CASE deregister_imcontext(x)  BY <2>4, DeregisterStep
  <2>5. CASE reset_imcontext(x)  BY <2>1, <2>2, <2>5, RequestStep DEF reset_imcontext
  <2>6. CASE handle_key_event(x)  BY <2>1, <2>2, <2>6, RequestStep DEF handle_key_event
  <2>7. CASE change_focus(x)
    <3>1. PICK k \in {"in", "out"} : Request(Owner[x], k, id[x], None)  BY <2>7 DEF change_focus
    <3>2. QED  BY <2>1, <2>2, <3>1, RequestStep
  <2>8. QED  BY <1>2, <2>3, <2>4, <2>5, <2>6, <2>7
<1>3. QED  BY <1>1, <1>2 DEF Calls

LEMMA DispatchStep ==
  ASSUME NEW W, BInv(W), NEW c \in Clients, read_and_dispatch(c)
  PROVE  BInv(W)'
<1> DEFINE m == Head(toC[c])
<1>1. toC[c] # <<>>  BY DEF read_and_dispatch
<1>2. m \in ToClient(W) /\ [toC EXCEPT ![c] = Tail(@)] \in [Clients -> Seq(ToClient(W))]
  BY <1>1, Taken DEF BInv, Lines
<1>3. m.id \in W /\ m.q \in Nat  BY <1>2 DEF ToClient
<1>4. CASE m.k = "get" /\ conn[c] = "cut"  BY <1>4, CloseStep DEF read_and_dispatch
<1>5. CASE ~(m.k = "get" /\ conn[c] = "cut")
  <2>1. toC' = [toC EXCEPT ![c] = Tail(@)] /\ UNCHANGED <<ag, shared, asked>>
    BY <1>5 DEF read_and_dispatch
  <2>2. \/ toA' = [toA EXCEPT ![c] = Append(@, Msg("got", m.id, m.q))] /\ UNCHANGED id
        \/ UNCHANGED toA /\ Answered(c, m)
    BY <1>5 DEF read_and_dispatch
  <2> HIDE DEF m
  <2>3. toA' \in [Clients -> Seq(ToAgent(W))]
    <3>1. Msg("got", m.id, m.q) \in ToAgent(W)  BY <1>3, MsgTypes DEF Requests
    <3>2. toA \in [Clients -> Seq(ToAgent(W))]  BY DEF BInv, Lines
    <3>3. [toA EXCEPT ![c] = Append(@, Msg("got", m.id, m.q))] \in [Clients -> Seq(ToAgent(W))]
      BY <3>1, <3>2, Sent
    <3>4. QED  BY <2>2, <3>2, <3>3
  <2>4. id' \in [Ctxs -> W]
    <3>1. Answered(c, m) => id' = id \/ \E x : id' = [id EXCEPT ![x] = m.id]  BY DEF Answered
    <3>2. id \in [Ctxs -> W]  BY DEF BInv, Lines
    <3>3. ASSUME NEW x  PROVE [id EXCEPT ![x] = m.id] \in [Ctxs -> W]  BY <1>3, <3>2
    <3>4. QED  BY <2>2, <3>1, <3>2, <3>3
  <2>5. Contexts(ag)' /\ Queues(ag, W)'  BY <2>1, AgentUnchanged DEF BInv
  <2>6. QED  BY <1>2, <2>1, <2>3, <2>4, <2>5 DEF BInv, Lines
<1>6. QED  BY <1>4, <1>5

LEMMA LibraryStep ==
  ASSUME NEW W, BInv(W), NEW c \in Clients, Library(c)
  PROVE  BInv(W)'
<1>1. CASE RegisterAgain(c)
  <2>1. PICK x \in cl[c].rem : Request(c, "register", NoId, x)  BY <1>1 DEF RegisterAgain
  <2>2. QED  BY <2>1, RequestStep DEF BInv, Lines, Requests
<1>2. CASE read_and_dispatch(c)  BY <1>2, DispatchStep
<1>3. CASE Disconnected(c)  BY <1>3, CloseStep DEF Disconnected
<1>4. QED  BY <1>1, <1>2, <1>3 DEF Library

LEMMA DiesStep ==
  ASSUME NEW W, BInv(W), NEW c \in Clients, ClientDies(c)
  PROVE  BInv(W)'
<1>1. /\ id' = [x \in Ctxs |-> IF Owner[x] = c THEN NoId ELSE id[x]]
      /\ toC' = [toC EXCEPT ![c] = <<>>] /\ UNCHANGED <<toA, ag, shared, asked>>
  BY DEF ClientDies
<1>2. toC' \in [Clients -> Seq(ToClient(W))]  BY <1>1, Dropped DEF BInv, Lines
<1>3. id' \in [Ctxs -> W]  BY <1>1 DEF BInv, Lines
<1>4. Contexts(ag)' /\ Queues(ag, W)'  BY <1>1, AgentUnchanged DEF BInv
<1>5. QED  BY <1>1, <1>2, <1>3, <1>4 DEF BInv, Lines

-----------------------------------------------------------------------------
(* The agent's steps.                                                      *)

\* From a to b the contexts stay, whatever happens to the queues.
Stays(a, b) ==
  DOMAIN b = AgentFields /\ b.tbl = a.tbl /\ b.foc = a.foc /\ b.fdata = a.fdata
  /\ b.stray = a.stray

LEMMA StaysContexts ==
  ASSUME NEW a, Contexts(a), NEW b, Stays(a, b)
  PROVE  Contexts(b)
BY DEF Contexts, Stays

\* The agent's next state, when nothing of W is new.
LEMMA Becomes ==
  ASSUME NEW W, BInv(W), NEW b, ag' = b, Contexts(b), Queues(b, W), UNCHANGED <<id, shared>>,
         toA' \in [Clients -> Seq(ToAgent(W))], toC' \in [Clients -> Seq(ToClient(W))],
         asked'.n \in Nat
  PROVE  BInv(W)'
<1>1. Contexts(ag)' /\ Queues(ag, W)'  BY DEF Contexts, Queues
<1>2. QED  BY <1>1 DEF BInv, Lines

LEMMA AcceptStep ==
  ASSUME NEW W, BInv(W), NEW c \in Clients, Accept(c)
  PROVE  BInv(W)'
<1> DEFINE b == [ag EXCEPT !.lst = @ \cup {c}]
<1>1. ag' = b /\ UNCHANGED <<id, shared, toA, toC, asked>>  BY DEF Accept, Keep
<1>2. Contexts(ag) /\ Queues(ag, W) /\ Lines(W)  BY DEF BInv
<1>3. Stays(ag, b) /\ b.rcv = ag.rcv /\ b.buf = ag.buf /\ b.ask = ag.ask
  BY <1>2 DEF Stays, Contexts, AgentFields
<1> HIDE DEF b
<1>4. Contexts(b) /\ Queues(b, W)  BY <1>2, <1>3, StaysContexts DEF Queues
<1>5. QED  BY <1>1, <1>2, <1>4, Becomes DEF Lines

LEMMA RoundStep ==
  ASSUME NEW W, BInv(W), Round \/ \E c \in Clients : EndVisit(c)
  PROVE  BInv(W)'
<1>1. PICK i, d : ag' = [ag EXCEPT !.intr = i, !.due = d]
  <2>1. Contexts(ag)  BY DEF BInv
  <2>2. CASE Round  BY <2>2 DEF Round
  <2>3. ASSUME NEW c \in Clients, EndVisit(c)
        PROVE  \E i, d : ag' = [ag EXCEPT !.intr = i, !.due = d]
    <3>1. ag' = [ag EXCEPT !.due = @ \ {c}]  BY <2>3 DEF EndVisit
    <3>2. ag' = [ag EXCEPT !.intr = ag.intr, !.due = ag.due \ {c}]
      BY <2>1, <3>1 DEF Contexts, AgentFields
    <3>3. QED  BY <3>2
  <2>4. QED  BY <2>2, <2>3
<1>2. UNCHANGED <<id, shared, toA, toC, asked>>  BY DEF Round, EndVisit, Keep
<1>3. Contexts(ag) /\ Queues(ag, W) /\ Lines(W)  BY DEF BInv
<1> DEFINE b == [ag EXCEPT !.intr = i, !.due = d]
<1>4. Stays(ag, b) /\ b.rcv = ag.rcv /\ b.buf = ag.buf /\ b.ask = ag.ask
  BY <1>3 DEF Stays, Contexts, AgentFields
<1>5. ag' = b  BY <1>1
<1> HIDE DEF b
<1>6. Contexts(b) /\ Queues(b, W)  BY <1>3, <1>4, StaysContexts DEF Queues
<1>7. QED  BY <1>2, <1>3, <1>5, <1>6, Becomes DEF Lines

LEMMA ReadStep ==
  ASSUME NEW W, BInv(W), NEW c \in Clients, Read(c)
  PROVE  BInv(W)'
<1>1. PICK k \in Chunk(c) :
        /\ ag' = [ag EXCEPT !.rcv[c] = @ \o ag.buf[c] \o SubSeq(toA[c], 1, k),
                            !.buf[c] = <<>>, !.intr = TRUE]
        /\ toA' = [toA EXCEPT ![c] = SubSeq(@, k + 1, Len(@))]
  BY DEF Read
<1>2. UNCHANGED <<id, shared, toC, asked>>  BY DEF Read, Keep
<1>3. Contexts(ag) /\ Queues(ag, W) /\ Lines(W)  BY DEF BInv
<1>4. toA[c] \in Seq(ToAgent(W)) /\ ag.rcv[c] \in Seq(ToAgent(W)) /\ ag.buf[c] \in Seq(ToAgent(W))
  BY <1>3 DEF Queues, Lines
<1> DEFINE r == ag.rcv[c] \o ag.buf[c] \o SubSeq(toA[c], 1, k)
           s == SubSeq(toA[c], k + 1, Len(toA[c]))
           R == [ag.rcv EXCEPT ![c] = r]
           B == [ag.buf EXCEPT ![c] = <<>>]
           b == [ag EXCEPT !.rcv = R, !.buf = B, !.intr = TRUE]
<1>5. k \in 1..Len(toA[c])  BY DEF Chunk
<1>6. SubSeq(toA[c], 1, k) \in Seq(ToAgent(W)) /\ s \in Seq(ToAgent(W))  BY <1>4, <1>5, ReadSome
<1>7. r \in Seq(ToAgent(W))  BY <1>4, <1>6
<1>8. ag' = b  BY <1>1, <1>3 DEF Contexts, AgentFields
<1>9. toA' = [toA EXCEPT ![c] = s]  BY <1>1, <1>3 DEF Lines
<1> HIDE DEF r, s
<1>10. toA' \in [Clients -> Seq(ToAgent(W))]  BY <1>3, <1>6, <1>9 DEF Lines
<1>11. R \in [Clients -> Seq(ToAgent(W))] /\ B \in [Clients -> Seq(ToAgent(W))]
  BY <1>3, <1>7, Dropped DEF Queues
<1> HIDE DEF R, B
<1>12. Stays(ag, b) /\ b.rcv = R /\ b.buf = B /\ b.ask = ag.ask
  BY <1>3 DEF Stays, Contexts, AgentFields
<1> HIDE DEF b
<1>13. Contexts(b) /\ Queues(b, W)  BY <1>3, <1>11, <1>12, StaysContexts DEF Queues
<1>14. QED  BY <1>2, <1>3, <1>8, <1>10, <1>13, Becomes DEF Lines

LEMMA RemoveStep ==
  ASSUME NEW W, BInv(W), NEW c \in Clients, remove_client_listener(c)
  PROVE  BInv(W)'
<1> DEFINE S == {i \in Ids : ag.tbl[i] = c}
           d == Destroy(ag, S)
           R == [d.rcv EXCEPT ![c] = <<>>]
           B == [d.buf EXCEPT ![c] = <<>>]
           T == [d.tmo EXCEPT ![c] = 0]
           b == [d EXCEPT !.lst = @ \ {c}, !.due = @ \ {c}, !.rcv = R, !.buf = B, !.tmo = T]
<1>1. Contexts(ag) /\ Queues(ag, W) /\ Lines(W)  BY DEF BInv
<1>2. Works(ag, d)  BY <1>1, DestroyWorks
<1>3. UNCHANGED <<id, shared, toC, asked>>  BY DEF remove_client_listener, Keep
<1>4. toA' = [x \in Clients |-> IF x = c \/ ag.lst = {c} THEN <<>> ELSE toA[x]]
  BY DEF remove_client_listener
<1>5. toA' \in [Clients -> Seq(ToAgent(W))]  BY <1>1, <1>4 DEF Lines
<1>6. ag' = NoAgent \/ ag' = [d EXCEPT !.lst = @ \ {c}, !.due = @ \ {c}, !.rcv[c] = <<>>,
                                       !.buf[c] = <<>>, !.tmo[c] = 0]
  BY DEF remove_client_listener
<1> HIDE DEF d, S
<1>7. ag' = NoAgent \/ ag' = b  BY <1>2, <1>6 DEF Works, Contexts, AgentFields
<1>8. R \in [Clients -> Seq(ToAgent(W))] /\ B \in [Clients -> Seq(ToAgent(W))]
  BY <1>1, <1>2, Dropped DEF Queues, Works
<1> HIDE DEF R, B, T
<1>9. Stays(d, b) /\ b.rcv = R /\ b.buf = B /\ b.ask = d.ask
  BY <1>2 DEF Stays, Works, Contexts, AgentFields
<1> HIDE DEF b
<1>10. Contexts(b) /\ Queues(b, W)
  BY <1>1, <1>2, <1>8, <1>9, StaysContexts DEF Queues, Works
<1>11. Contexts(NoAgent) /\ Queues(NoAgent, W)  BY NewAgentWorks
<1>12. QED  BY <1>1, <1>3, <1>5, <1>7, <1>10, <1>11, Becomes DEF Lines

LEMMA SendTypes ==
  ASSUME NEW W, Lines(W), NEW c \in Clients, NEW m \in ToClient(W), Send(c, m)
  PROVE  toC' \in [Clients -> Seq(ToClient(W))]
<1>1. toC \in [Clients -> Seq(ToClient(W))]  BY DEF Lines
<1>2. [toC EXCEPT ![c] = Append(@, m)] \in [Clients -> Seq(ToClient(W))]  BY <1>1, Sent
<1>3. QED  BY <1>1, <1>2 DEF Send

LEMMA AnswerStep ==
  ASSUME NEW W, Lines(W), NEW c \in Clients, NEW a, NewId(a) \in W,
         NEW m, m.k \in Requests \ {"got"}, Answer(a, c, m)
  PROVE  toC' \in [Clients -> Seq(ToClient(W))]
<1> DEFINE i == IF m.k = "register" THEN NewId(a) ELSE NoId
<1>1. i \in W  BY DEF Lines
<1>2. Send(c, Msg(AnswerTo(m.k), i, 0))  BY DEF Answer
<1> HIDE DEF i
<1>3. Msg(AnswerTo(m.k), i, 0) \in ToClient(W)  BY <1>1, AnswerTypes, MsgTypes
<1>4. QED  BY <1>2, <1>3, SendTypes

\* The question is over, whatever became of the queues; NoAsk is the next one.
LEMMA EndAskStep ==
  ASSUME NEW W, BInv(W), Waiting, NEW a, Stays(ag, a), Queues(a, W), EndAsk(a), Keep,
         UNCHANGED <<toA, asked>>
  PROVE  BInv(W)'
<1> DEFINE b == [a EXCEPT !.ask = NoAsk]
<1>1. Contexts(ag) /\ Queues(ag, W) /\ Lines(W)  BY DEF BInv
<1>2. ag.ask.c \in Clients  BY <1>1 DEF Waiting, Queues
<1>3. ag' = b  BY DEF EndAsk
<1>4. Stays(ag, b) /\ b.rcv = a.rcv /\ b.buf = a.buf /\ b.ask = NoAsk
  BY DEF Stays, AgentFields
<1> HIDE DEF b
<1>5. NoAsk \in Asks /\ NoAsk.to = None  BY DEF NoAsk, Asks
<1>6. Contexts(b) /\ Queues(b, W)  BY <1>1, <1>4, <1>5, StaysContexts DEF Queues
<1>7. toC' \in [Clients -> Seq(ToClient(W))]
  <2>1. CASE ag.ask.to # None
    <3>1. ag.ask.to \in Clients /\ ag.ask.k \in Askers  BY <1>1, <2>1 DEF Queues, Asks
    <3>2. AnswerTo(ag.ask.k) \in Answers  BY <3>1, AnswerTypes DEF Requests, Askers
    <3>3. Msg(AnswerTo(ag.ask.k), NoId, 0) \in ToClient(W)  BY <1>1, <3>2, MsgTypes DEF Lines
    <3>4. Send(ag.ask.to, Msg(AnswerTo(ag.ask.k), NoId, 0))  BY <2>1 DEF EndAsk
    <3>5. QED  BY <1>1, <3>1, <3>3, <3>4, SendTypes
  <2>2. CASE ag.ask.to = None  BY <1>1, <2>2 DEF EndAsk, Lines
  <2>3. QED  BY <2>1, <2>2
<1>8. UNCHANGED <<id, shared>>  BY DEF Keep
<1>9. QED  BY <1>1, <1>3, <1>6, <1>7, <1>8, Becomes DEF Lines

LEMMA AskReadStep ==
  ASSUME NEW W, BInv(W), AskRead
  PROVE  BInv(W)'
<1> DEFINE c == ag.ask.c
<1>1. Contexts(ag) /\ Queues(ag, W) /\ Lines(W)  BY DEF BInv
<1>2. c \in Clients  BY <1>1 DEF AskRead, Waiting, Queues
<1>3. PICK k \in Chunk(c) :
        /\ ag' = [ag EXCEPT !.buf[c] = @ \o SubSeq(toA[c], 1, k), !.ask.poll = TRUE]
        /\ toA' = [toA EXCEPT ![c] = SubSeq(@, k + 1, Len(@))]
  BY DEF AskRead
<1>4. UNCHANGED <<id, shared, toC>> /\ asked'.n = asked.n  BY DEF AskRead, Keep
<1> DEFINE r == ag.buf[c] \o SubSeq(toA[c], 1, k)
           s == SubSeq(toA[c], k + 1, Len(toA[c]))
           B == [ag.buf EXCEPT ![c] = r]
           q == [ag.ask EXCEPT !.poll = TRUE]
           b == [ag EXCEPT !.buf = B, !.ask = q]
<1>5. ag' = b  BY <1>1, <1>3 DEF Contexts, AgentFields
<1>6. toA' = [toA EXCEPT ![c] = s]  BY <1>1, <1>2, <1>3 DEF Lines
<1>7. k \in 1..Len(toA[c])  BY DEF Chunk
<1>8. ag.ask \in Asks /\ ag.ask.c = c  BY <1>1 DEF Queues
<1>9. q \in Asks  BY <1>8 DEF Asks
<1>10. q.c = c /\ q.to = ag.ask.to /\ q.k = ag.ask.k  BY <1>8 DEF Asks
<1> HIDE DEF q, c
<1>11. toA[c] \in Seq(ToAgent(W)) /\ ag.buf[c] \in Seq(ToAgent(W))
  BY <1>1, <1>2 DEF Queues, Lines
<1>12. SubSeq(toA[c], 1, k) \in Seq(ToAgent(W)) /\ s \in Seq(ToAgent(W))
  BY <1>7, <1>11, ReadSome
<1>13. r \in Seq(ToAgent(W))  BY <1>11, <1>12
<1> HIDE DEF r, s
<1>14. toA' \in [Clients -> Seq(ToAgent(W))]  BY <1>1, <1>2, <1>6, <1>12 DEF Lines
<1>15. B \in [Clients -> Seq(ToAgent(W))]  BY <1>1, <1>2, <1>13 DEF Queues
<1> HIDE DEF B
<1>16. Stays(ag, b) /\ b.rcv = ag.rcv /\ b.buf = B /\ b.ask = q
  BY <1>1 DEF Stays, Contexts, AgentFields
<1> HIDE DEF b
<1>17. Contexts(b) /\ Queues(b, W)
  BY <1>1, <1>2, <1>9, <1>10, <1>15, <1>16, StaysContexts DEF Queues
<1>18. QED  BY <1>1, <1>4, <1>5, <1>14, <1>17, Becomes DEF Lines

LEMMA AskPollStep ==
  ASSUME NEW W, BInv(W), AskPoll
  PROVE  BInv(W)'
<1> DEFINE c == ag.ask.c
           m == Head(ag.buf[c])
           B == [ag.buf EXCEPT ![c] = Tail(@)]
           a == [ag EXCEPT !.buf = B]
<1>1. Contexts(ag) /\ Queues(ag, W) /\ Lines(W)  BY DEF BInv
<1>2. Waiting /\ ag.buf[c] # <<>> /\ Keep /\ UNCHANGED <<toA, asked>>  BY DEF AskPoll
<1>3. c \in Clients  BY <1>1, <1>2 DEF Waiting, Queues
<1>4. [ag EXCEPT !.buf[c] = Tail(@)] = a  BY <1>1 DEF Contexts, AgentFields
<1>5. \/ m.k = "got" /\ EndAsk([a EXCEPT !.wrong = @ \/ m.q # ag.ask.q])
      \/ m.k = "got" /\ ag' = process_message(a, c, m, "none") /\ UNCHANGED toC
      \/ m.k = "reset" /\ ag' = process_message(a, c, m, "none") /\ Answer(a, c, m)
      \/ ag' = [a EXCEPT !.rcv[c] = Append(@, m)] /\ UNCHANGED toC
  BY <1>4 DEF AskPoll
<1> HIDE DEF c
<1>6. B \in [Clients -> Seq(ToAgent(W))] /\ m \in ToAgent(W)
  BY <1>1, <1>2, <1>3, Taken DEF Queues
<1>7. m.k \in Requests  BY <1>6 DEF ToAgent
<1> HIDE DEF m, B
<1>8. Stays(ag, a) /\ a.rcv = ag.rcv /\ a.buf = B /\ a.ask = ag.ask
  BY <1>1 DEF Stays, Contexts, AgentFields
<1>9. Contexts(a) /\ Queues(a, W)  BY <1>1, <1>6, <1>8, StaysContexts DEF Queues
<1> HIDE DEF a
<1>10. UNCHANGED <<id, shared>>  BY <1>2 DEF Keep
<1>11. CASE EndAsk([a EXCEPT !.wrong = @ \/ m.q # ag.ask.q])
  <2> DEFINE b == [a EXCEPT !.wrong = @ \/ m.q # ag.ask.q]
  <2>1. Stays(ag, b) /\ b.rcv = a.rcv /\ b.buf = a.buf /\ b.ask = a.ask
    BY <1>8 DEF Stays, AgentFields
  <2>2. EndAsk(b)  BY <1>11
  <2> HIDE DEF b
  <2>3. Queues(b, W)  BY <1>9, <2>1 DEF Queues
  <2>4. QED  BY <1>2, <2>1, <2>2, <2>3, EndAskStep
<1> DEFINE p == process_message(a, c, m, "none")
<1>12. Contexts(p) /\ Queues(p, W)
  <2>1. Works(a, p)  BY <1>3, <1>7, <1>9, ProcessWorks
  <2> HIDE DEF p
  <2>2. QED  BY <1>9, <2>1 DEF Works, Queues
<1>13. CASE ag' = p /\ UNCHANGED toC
  <2> HIDE DEF p
  <2>1. QED  BY <1>1, <1>2, <1>10, <1>12, <1>13, Becomes DEF Lines
<1>14. CASE m.k = "reset" /\ ag' = p /\ Answer(a, c, m)
  <2>1. Send(c, Msg(AnswerTo(m.k), NoId, 0))  BY <1>14 DEF Answer
  <2>2. AnswerTo(m.k) \in Answers  BY <1>14, AnswerTypes DEF Requests
  <2>3. Msg(AnswerTo(m.k), NoId, 0) \in ToClient(W)  BY <1>1, <2>2, MsgTypes DEF Lines
  <2>4. toC' \in [Clients -> Seq(ToClient(W))]  BY <1>1, <1>3, <2>1, <2>3, SendTypes
  <2> HIDE DEF p
  <2>5. QED  BY <1>1, <1>2, <1>10, <1>12, <1>14, <2>4, Becomes DEF Lines
<1>15. CASE ag' = [a EXCEPT !.rcv[c] = Append(@, m)] /\ UNCHANGED toC
  <2> DEFINE R == [a.rcv EXCEPT ![c] = Append(@, m)]  b == [a EXCEPT !.rcv = R]
  <2>1. ag' = b  BY <1>9, <1>15 DEF Contexts, AgentFields
  <2>2. R \in [Clients -> Seq(ToAgent(W))]  BY <1>3, <1>6, <1>9, Sent DEF Queues
  <2> HIDE DEF R
  <2>3. Stays(a, b) /\ b.rcv = R /\ b.buf = a.buf /\ b.ask = a.ask
    BY <1>9 DEF Stays, Contexts, AgentFields
  <2> HIDE DEF b
  <2>4. Contexts(b) /\ Queues(b, W)  BY <1>9, <2>2, <2>3, StaysContexts DEF Queues
  <2>5. QED  BY <1>1, <1>2, <1>10, <1>15, <2>1, <2>4, Becomes DEF Lines
<1>16. QED  BY <1>5, <1>11, <1>13, <1>14, <1>15

LEMMA AskOverStep ==
  ASSUME NEW W, BInv(W), AskPollEnd \/ AskTimeout \/ AskFails
  PROVE  BInv(W)'
<1>1. Contexts(ag) /\ Queues(ag, W) /\ Lines(W)  BY DEF BInv
<1>2. Waiting /\ ag.ask.c \in Clients /\ ag.ask \in Asks
  BY <1>1 DEF AskPollEnd, AskTimeout, AskFails, Waiting, Queues
<1>3. CASE AskPollEnd
  <2> DEFINE q == [ag.ask EXCEPT !.poll = FALSE]  b == [ag EXCEPT !.ask = q]
  <2>1. ag' = b  BY <1>1, <1>3 DEF AskPollEnd, Contexts, AgentFields
  <2>2. q \in Asks  BY <1>2 DEF Asks
  <2>3. q.c = ag.ask.c /\ q.to = ag.ask.to /\ q.k = ag.ask.k  BY <1>2 DEF Asks
  <2> HIDE DEF q
  <2>4. Stays(ag, b) /\ b.rcv = ag.rcv /\ b.buf = ag.buf /\ b.ask = q
    BY <1>1 DEF Stays, Contexts, AgentFields
  <2> HIDE DEF b
  <2>5. Contexts(b) /\ Queues(b, W)
    BY <1>1, <1>2, <2>2, <2>3, <2>4, StaysContexts DEF Queues
  <2>6. UNCHANGED <<id, shared, toA, toC, asked>>  BY <1>3 DEF AskPollEnd, Keep
  <2>7. QED  BY <1>1, <2>1, <2>5, <2>6, Becomes DEF Lines
<1>4. CASE AskTimeout
  <2> DEFINE T == [ag.tmo EXCEPT ![ag.ask.c] = @ + 1]  b == [ag EXCEPT !.tmo = T]
  <2>1. [ag EXCEPT !.tmo[ag.ask.c] = @ + 1] = b  BY <1>1 DEF Contexts, AgentFields
  <2>2. EndAsk(b) /\ Keep /\ UNCHANGED <<toA, asked>>  BY <1>4, <2>1 DEF AskTimeout
  <2> HIDE DEF T
  <2>3. Stays(ag, b) /\ b.rcv = ag.rcv /\ b.buf = ag.buf /\ b.ask = ag.ask
    BY <1>1 DEF Stays, Contexts, AgentFields
  <2> HIDE DEF b
  <2>4. Queues(b, W)  BY <1>1, <2>3 DEF Queues
  <2>5. QED  BY <1>2, <2>2, <2>3, <2>4, EndAskStep
<1>5. CASE AskFails
  <2>1. Stays(ag, ag)  BY <1>1 DEF Stays, Contexts
  <2>2. EndAsk(ag) /\ Keep /\ UNCHANGED <<toA, asked>>  BY <1>5 DEF AskFails
  <2>3. QED  BY <1>1, <1>2, <2>1, <2>2, EndAskStep
<1>6. QED  BY <1>3, <1>4, <1>5

\* Whoever may be asked about exists, and so does the context of the request.
LEMMA QuestionedFound ==
  ASSUME NEW a, NEW c, NEW m, NEW e, NEW j \in Questioned(a, c, m, e)
  PROVE  /\ m.k \in Askers /\ j \in Ids /\ a.tbl[j] # None
         /\ m.id \in Ids /\ a.tbl[m.id] # None
BY DEF Questioned, Found, Askers

\* A question about a context that exists.
LEMMA AsksStep ==
  ASSUME NEW W, BInv(W), NEW a, Contexts(a), Queues(a, W), NEW i \in Ids, ag.tbl[i] # None,
         NEW d \in Clients \cup {None}, NEW k \in Askers \cup {None}, d = None \/ k \in Askers,
         get_surrounding_string(a, i, d, k), Keep, UNCHANGED toA
  PROVE  BInv(W)'
<1> DEFINE c == ag.tbl[i]
           n == asked.n + 1
           q == [c |-> c, q |-> n, to |-> d, k |-> k, poll |-> FALSE]
           b == [a EXCEPT !.ask = q]
<1>1. Lines(W) /\ n \in Nat  BY DEF BInv, Lines
<1>2. c \in Clients  BY DEF BInv, Contexts
<1>3. ag' = b /\ asked'.n = n /\ Send(c, Msg("get", i, n))  BY DEF get_surrounding_string
<1> HIDE DEF n, c
<1>4. q \in Asks  BY <1>1, <1>2 DEF Asks
<1>5. q.c = c /\ q.to = d /\ q.k = k  OBVIOUS
<1> HIDE DEF q
<1>6. Stays(a, b) /\ b.rcv = a.rcv /\ b.buf = a.buf /\ b.ask = q
  BY DEF Stays, Contexts, AgentFields
<1> HIDE DEF b
<1>7. Contexts(b) /\ Queues(b, W)  BY <1>2, <1>4, <1>5, <1>6, StaysContexts DEF Queues
<1>8. i \in W  BY <1>1 DEF Lines
<1>9. Msg("get", i, n) \in ToClient(W)  BY <1>1, <1>8, MsgTypes DEF Answers
<1>10. toC' \in [Clients -> Seq(ToClient(W))]  BY <1>1, <1>2, <1>3, <1>9, SendTypes
<1>11. UNCHANGED <<id, shared>>  BY DEF Keep
<1>12. toA' \in [Clients -> Seq(ToAgent(W))]  BY <1>1 DEF Lines
<1>13. QED  BY <1>1, <1>3, <1>7, <1>10, <1>11, <1>12, Becomes

LEMMA ServeStep ==
  ASSUME NEW W, BInv(W), NEW c \in Clients, Serve(c),
         NewId([ag EXCEPT !.rcv[c] = Tail(@)]) \in W
  PROVE  BInv(W)'
<1> DEFINE m == Head(ag.rcv[c])
           R == [ag.rcv EXCEPT ![c] = Tail(@)]
           a == [ag EXCEPT !.rcv = R]
<1>1. Contexts(ag) /\ Queues(ag, W) /\ Lines(W)  BY DEF BInv
<1>2. ag.rcv[c] # <<>>  BY DEF Serve
<1>3. [ag EXCEPT !.rcv[c] = Tail(@)] = a  BY <1>1 DEF Contexts, AgentFields
<1>4. \/ remove_client_listener(c)
      \/ /\ m.k = "got" /\ ag' = process_message(a, c, m, "none")
         /\ Keep /\ UNCHANGED <<toA, toC, asked>>
      \/ /\ \E e : \E j \in Questioned(ag, c, m, e) :
              get_surrounding_string(process_message(a, c, m, e), j, c, m.k)
         /\ Keep /\ UNCHANGED toA
      \/ /\ m.k # "got" /\ \E e : ag' = process_message(a, c, m, e)
         /\ Answer(a, c, m)
         /\ Keep /\ UNCHANGED <<toA, asked>>
  BY <1>3 DEF Serve
<1>5. NewId(a) \in W  BY <1>3
<1>6. R \in [Clients -> Seq(ToAgent(W))] /\ m \in ToAgent(W)  BY <1>1, <1>2, Taken DEF Queues
<1>7. m.k \in Requests  BY <1>6 DEF ToAgent
<1> HIDE DEF m, R
<1>8. Stays(ag, a) /\ a.rcv = R /\ a.buf = ag.buf /\ a.ask = ag.ask
  BY <1>1 DEF Stays, Contexts, AgentFields
<1>9. Contexts(a) /\ Queues(a, W)  BY <1>1, <1>6, <1>8, StaysContexts DEF Queues
<1> HIDE DEF a
<1>10. ASSUME NEW e
       PROVE  Contexts(process_message(a, c, m, e)) /\ Queues(process_message(a, c, m, e), W)
  <2> DEFINE p == process_message(a, c, m, e)
  <2>1. Works(a, p)  BY <1>7, <1>9, ProcessWorks
  <2> HIDE DEF p
  <2>2. Contexts(p) /\ Queues(p, W)  BY <1>9, <2>1 DEF Works, Queues
  <2>3. QED  BY <2>2 DEF p
<1>11. CASE remove_client_listener(c)  BY <1>11, RemoveStep
<1>12. CASE /\ ag' = process_message(a, c, m, "none")
            /\ Keep /\ UNCHANGED <<toA, toC, asked>>
  <2> DEFINE p == process_message(a, c, m, "none")
  <2>1. ag' = p /\ Contexts(p) /\ Queues(p, W)  BY <1>10, <1>12
  <2> HIDE DEF p
  <2>2. QED  BY <1>1, <1>12, <2>1, Becomes DEF Keep, Lines
<1>13. CASE /\ \E e : \E j \in Questioned(ag, c, m, e) :
                 get_surrounding_string(process_message(a, c, m, e), j, c, m.k)
            /\ Keep /\ UNCHANGED toA
  <2>0. PICK e : \E j \in Questioned(ag, c, m, e) :
                   get_surrounding_string(process_message(a, c, m, e), j, c, m.k)
    BY <1>13
  <2>1. PICK j \in Questioned(ag, c, m, e) :
          get_surrounding_string(process_message(a, c, m, e), j, c, m.k)
    BY <2>0
  <2> DEFINE p == process_message(a, c, m, e)
  <2>2. Contexts(p) /\ Queues(p, W)  BY <1>10
  <2>3. m.k \in Askers /\ j \in Ids /\ ag.tbl[j] # None  BY QuestionedFound
  <2>4. get_surrounding_string(p, j, c, m.k)  BY <2>1
  <2> HIDE DEF p
  <2>5. QED  BY <1>13, <2>2, <2>3, <2>4, AsksStep
<1>14. CASE /\ m.k # "got" /\ \E e : ag' = process_message(a, c, m, e)
            /\ Answer(a, c, m)
            /\ Keep /\ UNCHANGED <<toA, asked>>
  <2>1. PICK e : ag' = process_message(a, c, m, e)  BY <1>14
  <2> DEFINE p == process_message(a, c, m, e)
  <2>2. ag' = p /\ Contexts(p) /\ Queues(p, W)  BY <1>10, <2>1
  <2> HIDE DEF p
  <2>3. toC' \in [Clients -> Seq(ToClient(W))]  BY <1>1, <1>5, <1>7, <1>14, AnswerStep
  <2>4. QED  BY <1>1, <1>14, <2>2, <2>3, Becomes DEF Keep, Lines
<1>15. QED  BY <1>4, <1>11, <1>12, <1>13, <1>14

\* The panel's events.
LEMMA PanelStep ==
  ASSUME NEW W, BInv(W), NEW i \in Ids, PanelChangeFactory(i) \/ PanelAsks(i)
  PROVE  BInv(W)'
<1>1. Contexts(ag) /\ Queues(ag, W) /\ Lines(W)  BY DEF BInv
<1>2. ag.tbl[i] # None  BY DEF PanelChangeFactory, PanelAsks, Found
<1>3. CASE PanelChangeFactory(i)
  <2>1. PICK f : \/ ag' = open_imengine(ag, i, f) /\ UNCHANGED <<toC, asked>>
                 \/ \E j \in Questioned(ag, None, Msg("key", i, 0), f) :
                      get_surrounding_string(open_imengine(ag, i, f), j, None, None)
    BY <1>3 DEF PanelChangeFactory
  <2> DEFINE b == open_imengine(ag, i, f)
  <2>2. Works(ag, b)  BY <1>1, <1>2, OpenWorks
  <2> HIDE DEF b
  <2>3. Contexts(b) /\ Queues(b, W)  BY <1>1, <2>2 DEF Works, Queues
  <2>4. Keep /\ UNCHANGED toA  BY <1>3 DEF PanelChangeFactory
  <2>5. CASE ag' = b /\ UNCHANGED <<toC, asked>>
    BY <1>1, <2>3, <2>4, <2>5, Becomes DEF Lines, Keep
  <2>6. ASSUME NEW j \in Questioned(ag, None, Msg("key", i, 0), f),
               get_surrounding_string(b, j, None, None)
        PROVE  BInv(W)'
    <3>1. j \in Ids /\ ag.tbl[j] # None  BY QuestionedFound
    <3>2. QED  BY <2>3, <2>4, <2>6, <3>1, AsksStep
  <2>7. QED  BY <2>1, <2>5, <2>6 DEF b
<1>4. CASE PanelAsks(i)
  <2>1. get_surrounding_string(ag, i, None, None) /\ Keep /\ UNCHANGED toA
    BY <1>4 DEF PanelAsks
  <2>2. QED  BY <1>1, <1>2, <2>1, AsksStep
<1>5. QED  BY <1>3, <1>4

LEMMA CrashStep ==
  ASSUME NEW W, BInv(W), AgentCrash
  PROVE  BInv(W)'
<1>1. /\ ag' = NoAgent /\ toA' = [c \in Clients |-> <<>>]
      /\ UNCHANGED <<id, toC, shared, asked>>
  BY DEF AgentCrash
<1>2. Contexts(NoAgent) /\ Queues(NoAgent, W)  BY NewAgentWorks
<1>3. toA' \in [Clients -> Seq(ToAgent(W))]  BY <1>1
<1>4. QED  BY <1>1, <1>2, <1>3, Becomes DEF BInv, Lines

-----------------------------------------------------------------------------
(* The theorem.                                                            *)

\* More ids may have been in use.
LEMMA MoreIds ==
  ASSUME NEW W, NEW V, W \subseteq V, BInv(W)
  PROVE  BInv(V)
<1>1. ToAgent(W) \subseteq ToAgent(V) /\ ToClient(W) \subseteq ToClient(V)
  BY DEF ToAgent, ToClient
<1>2. \A s \in Seq(ToAgent(W)) : s \in Seq(ToAgent(V))  BY <1>1
<1>3. \A s \in Seq(ToClient(W)) : s \in Seq(ToClient(V))  BY <1>1
<1> DEFINE A == Seq(ToAgent(W))  B == Seq(ToAgent(V))  C == Seq(ToClient(W))  D == Seq(ToClient(V))
<1>4. \A f \in [Clients -> A] : f \in [Clients -> B]  BY <1>2
<1>5. \A f \in [Clients -> C] : f \in [Clients -> D]  BY <1>3
<1>6. Queues(ag, V)  BY <1>4 DEF BInv, Queues
<1>7. id \in [Ctxs -> V]  BY DEF BInv, Lines
<1>8. Lines(V)  BY <1>4, <1>5, <1>7 DEF BInv, Lines
<1>9. QED  BY <1>6, <1>8 DEF BInv

BridgeInv == \E W : BInv(W)

LEMMA BridgeInit == Init => BridgeInv
<1> SUFFICES ASSUME Init PROVE BridgeInv  OBVIOUS
<1> DEFINE W == Ids \cup {NoId}
<1>1. ag = NoAgent /\ asked.n = 0  BY DEF Init
<1>2. Contexts(ag) /\ Queues(ag, W)  BY <1>1, NewAgentWorks
<1>3. Lines(W)
  <2>1. /\ toA = [c \in Clients |-> <<>>] /\ toC = [c \in Clients |-> <<>>]
        /\ id = [x \in Ctxs |-> NoId]
    BY DEF Init
  <2>2. id \in [Ctxs -> W] /\ NoId \in W /\ Ids \subseteq W  BY <2>1
  <2> HIDE DEF W
  <2>3. toA \in [Clients -> Seq(ToAgent(W))] /\ toC \in [Clients -> Seq(ToClient(W))]  BY <2>1
  <2>4. QED  BY <1>1, <2>2, <2>3 DEF Lines
<1> HIDE DEF W
<1>4. QED  BY <1>2, <1>3 DEF BInv, BridgeInv

LEMMA BridgeNext == BridgeInv /\ [Next]_vars => BridgeInv'
<1> SUFFICES ASSUME BridgeInv, [Next]_vars PROVE BridgeInv'  OBVIOUS
<1>1. PICK W : BInv(W)  BY DEF BridgeInv
<1>2. ASSUME NEW V, BInv(V)' PROVE BridgeInv'  BY <1>2 DEF BridgeInv
<1>3. ASSUME NEW c \in Clients, Calls(c) \/ Library(c) \/ ClientDies(c) PROVE BridgeInv'
  BY <1>1, <1>2, <1>3, CallsStep, LibraryStep, DiesStep
<1>4. ASSUME NEW c \in Clients, Accept(c) \/ Read(c) \/ ReadEnd(c) \/ EndVisit(c)
      PROVE  BridgeInv'
  BY <1>1, <1>2, <1>4, AcceptStep, ReadStep, RemoveStep, RoundStep DEF ReadEnd
<1>5. ASSUME NEW c \in Clients, Serve(c) PROVE BridgeInv'
  <2> DEFINE Fresh(a) == NewId([a EXCEPT !.rcv[c] = Tail(@)])
  <2>0. PICK v : v = Fresh(ag)  OBVIOUS
  <2> DEFINE V == W \cup {v}
  <2>1. W \subseteq V /\ NewId([ag EXCEPT !.rcv[c] = Tail(@)]) \in V  BY <2>0
  <2> HIDE DEF V, Fresh
  <2>2. BInv(V)  BY <1>1, <2>1, MoreIds
  <2>3. BInv(V)'  BY <1>5, <2>1, <2>2, ServeStep
  <2>4. QED  BY <1>2, <2>3
<1>6. CASE Round \/ Wait \/ AskTimeout \/ AskFails
  BY <1>1, <1>2, <1>6, RoundStep, AskReadStep, AskPollStep, AskOverStep DEF Wait
<1>7. ASSUME NEW i \in Ids, PanelChangeFactory(i) \/ PanelAsks(i) PROVE BridgeInv'
  BY <1>1, <1>2, <1>7, PanelStep
<1>8. CASE AgentCrash  BY <1>1, <1>2, <1>8, CrashStep
<1>9. CASE UNCHANGED vars
  <2>1. UNCHANGED <<ag, id, shared, toA, toC, asked>>  BY <1>9 DEF vars
  <2>2. BInv(W)'  BY <1>1, <2>1, AgentUnchanged DEF BInv, Lines
  <2>3. QED  BY <1>2, <2>2
<1>10. QED  BY <1>3, <1>4, <1>5, <1>6, <1>7, <1>8, <1>9 DEF Next, Listener

\* The shared engine's frontend data is a context that exists, and unless a factory
\* was changed for a context that the engine did not serve, no other context believes
\* that it has the focus: in every order of focus changes, key events, questions and
\* deregistrations of any number of applications, of their deaths and of crashes.
THEOREM OneFocusedAlways == Spec => []OneFocused
<1>1. BridgeInv => OneFocused
  <2> SUFFICES ASSUME BridgeInv PROVE OneFocused  OBVIOUS
  <2>1. Contexts(ag)  BY DEF BridgeInv, BInv
  <2>2. QED  BY <2>1 DEF Contexts, OneFocused, Found
<1>2. QED  BY <1>1, BridgeInit, BridgeNext, PTL DEF Spec

-----------------------------------------------------------------------------
(* Questions on their way: how many, and which is the newest.              *)

Question(m) == m.k \in {"get", "got"}
Qs(s)    == {k \in 1..Len(s) : Question(s[k])}
Count(s) == Cardinality(Qs(s))
LastIn(s, q) == \A k \in Qs(s) : (\A j \in Qs(s) : j <= k) => s[k].q = q

LEMMA QsFinite ==
  ASSUME NEW V, NEW s \in Seq(V)
  PROVE  IsFiniteSet(Qs(s)) /\ Count(s) \in Nat /\ (Count(s) = 0 <=> Qs(s) = {})
<1>1. Len(s) \in Nat  OBVIOUS
<1>2. IsFiniteSet(1..Len(s))  BY <1>1, FS_Interval
<1>3. Qs(s) \in SUBSET (1..Len(s))  BY DEF Qs
<1>4. IsFiniteSet(Qs(s))  BY <1>2, <1>3, FS_Subset
<1>5. QED  BY <1>4, FS_CardinalityType, FS_EmptySet DEF Count

LEMMA QsConcat ==
  ASSUME NEW V, NEW s \in Seq(V), NEW t \in Seq(V)
  PROVE  /\ s \o t \in Seq(V)
         /\ Qs(s \o t) = Qs(s) \cup {k + Len(s) : k \in Qs(t)}
         /\ \A k \in Qs(s) : k \in Nat /\ k <= Len(s) /\ (s \o t)[k] = s[k]
         /\ \A k \in Qs(t) : k \in Nat /\ k >= 1 /\ (s \o t)[k + Len(s)] = t[k]
<1> DEFINE n == Len(s)  m == Len(t)
<1>1. n \in Nat /\ m \in Nat /\ s \o t \in Seq(V) /\ Len(s \o t) = n + m  OBVIOUS
<1>2. \A k \in 1..n : (s \o t)[k] = s[k]  BY <1>1
<1>3. \A k \in 1..m : (s \o t)[k + n] = t[k]
  <2> TAKE k \in 1..m
  <2>1. k + n > n /\ k + n <= n + m /\ (k + n) - n = k  BY <1>1
  <2>2. QED  BY <1>1, <2>1
<1>4. ASSUME NEW k \in Qs(s \o t) PROVE k \in Qs(s) \cup {j + n : j \in Qs(t)}
  <2>1. k \in 1..(n + m) /\ Question((s \o t)[k])  BY <1>1 DEF Qs
  <2>2. CASE k <= n  BY <1>1, <1>2, <2>1, <2>2 DEF Qs
  <2>3. CASE k > n
    <3>1. k - n \in 1..m /\ k = (k - n) + n  BY <1>1, <2>1, <2>3
    <3>2. k - n \in Qs(t)  BY <1>3, <2>1, <3>1 DEF Qs
    <3>3. QED  BY <3>1, <3>2
  <2>4. QED  BY <1>1, <2>1, <2>2, <2>3
<1>5. ASSUME NEW k \in Qs(s) PROVE k \in Qs(s \o t)
  <2>1. k \in 1..n /\ Question(s[k])  BY DEF Qs
  <2>2. QED  BY <1>1, <1>2, <2>1 DEF Qs
<1>6. ASSUME NEW k \in Qs(t) PROVE k + n \in Qs(s \o t)
  <2>1. k \in 1..m /\ Question(t[k])  BY DEF Qs
  <2>2. k + n \in 1..(n + m)  BY <1>1, <2>1
  <2>3. QED  BY <1>1, <1>3, <2>1, <2>2 DEF Qs
<1>7. \A k \in Qs(s) : k \in 1..n  BY DEF Qs
<1>8. \A k \in Qs(t) : k \in 1..m  BY DEF Qs
<1>9. QED  BY <1>1, <1>2, <1>3, <1>4, <1>5, <1>6, <1>7, <1>8

LEMMA CountConcat ==
  ASSUME NEW V, NEW s \in Seq(V), NEW t \in Seq(V)
  PROVE  Count(s \o t) = Count(s) + Count(t)
<1> DEFINE n == Len(s)  T == {k + n : k \in Qs(t)}  f == [k \in Qs(t) |-> k + n]
<1>1. n \in Nat /\ Qs(s \o t) = Qs(s) \cup T  BY QsConcat
<1>2. IsFiniteSet(Qs(s)) /\ IsFiniteSet(Qs(t)) /\ Count(s) \in Nat /\ Count(t) \in Nat
  BY QsFinite
<1>3. \A k \in Qs(t) : k \in Nat /\ k >= 1  BY QsConcat
<1>4. \A k \in Qs(s) : k \in Nat /\ k <= n  BY QsConcat
<1>5. f \in Bijection(Qs(t), T)
  <2>1. f \in [Qs(t) -> T]  OBVIOUS
  <2>2. \A j, k \in Qs(t) : f[j] = f[k] => j = k  BY <1>1, <1>3
  <2>3. \A y \in T : \E k \in Qs(t) : f[k] = y  OBVIOUS
  <2> HIDE DEF f, T
  <2>4. QED  BY <2>1, <2>2, <2>3, Fun_IsBij
<1>6. IsFiniteSet(T) /\ Cardinality(T) = Cardinality(Qs(t))
  <2>1. ExistsBijection(Qs(t), T)  BY <1>5 DEF ExistsBijection
  <2>2. QED  BY <1>2, <2>1, FS_Bijection
<1>7. Qs(s) \cap T = {}  BY <1>1, <1>3, <1>4
<1> HIDE DEF T
<1>8. Cardinality(Qs(s) \cup T) = Cardinality(Qs(s)) + Cardinality(T) - Cardinality(Qs(s) \cap T)
  BY <1>2, <1>6, FS_Union
<1>9. Cardinality(Qs(s) \cap T) = 0  BY <1>7, FS_EmptySet
<1>10. QED  BY <1>1, <1>2, <1>6, <1>8, <1>9 DEF Count

LEMMA LastConcat ==
  ASSUME NEW V, NEW s \in Seq(V), NEW t \in Seq(V), NEW q
  PROVE  LastIn(s \o t, q) <=> IF Count(t) > 0 THEN LastIn(t, q) ELSE LastIn(s, q)
<1> DEFINE n == Len(s)  u == s \o t
<1>1. n \in Nat /\ Qs(u) = Qs(s) \cup {k + n : k \in Qs(t)}  BY QsConcat
<1>2. \A k \in Qs(s) : k \in Nat /\ k <= n /\ u[k] = s[k]  BY QsConcat
<1>3. \A k \in Qs(t) : k \in Nat /\ k >= 1 /\ u[k + n] = t[k]  BY QsConcat
<1>4. Count(t) \in Nat /\ (Count(t) = 0 <=> Qs(t) = {})  BY QsFinite
<1> HIDE DEF u
<1>5. CASE Qs(t) = {}
  <2>1. Qs(u) = Qs(s)  BY <1>1, <1>5
  <2>2. LastIn(u, q) <=> LastIn(s, q)  BY <1>2, <2>1 DEF LastIn
  <2>3. QED  BY <1>4, <1>5, <2>2 DEF u
<1>6. CASE Qs(t) # {}
  <2>1. ASSUME LastIn(u, q), NEW k \in Qs(t), \A j \in Qs(t) : j <= k PROVE t[k].q = q
    <3>1. k + n \in Qs(u)  BY <1>1
    <3>2. \A j \in Qs(u) : j <= k + n  BY <1>1, <1>2, <1>3, <2>1
    <3>3. QED  BY <1>3, <2>1, <3>1, <3>2 DEF LastIn
  <2>2. ASSUME LastIn(t, q), NEW k \in Qs(u), \A j \in Qs(u) : j <= k PROVE u[k].q = q
    <3>1. PICK j \in Qs(t) : TRUE  BY <1>6
    <3>2. j + n <= k /\ j + n > n  BY <1>1, <1>3, <2>2, <3>1
    <3>3. k \notin Qs(s)  BY <1>1, <1>2, <1>3, <3>2
    <3>4. PICK i \in Qs(t) : k = i + n  BY <1>1, <3>3
    <3>5. \A l \in Qs(t) : l <= i
      <4> TAKE l \in Qs(t)
      <4>1. l + n <= i + n  BY <1>1, <2>2, <3>4
      <4>2. QED  BY <1>1, <1>3, <4>1
    <3>6. QED  BY <1>3, <2>2, <3>4, <3>5 DEF LastIn
  <2>3. LastIn(u, q) <=> LastIn(t, q)  BY <2>1, <2>2 DEF LastIn
  <2>4. QED  BY <1>4, <1>6, <2>3 DEF u
<1>7. QED  BY <1>5, <1>6

LEMMA CountOne ==
  ASSUME NEW m, NEW q
  PROVE  /\ Count(<<m>>) = (IF Question(m) THEN 1 ELSE 0)
         /\ LastIn(<<m>>, q) <=> (Question(m) => m.q = q)
         /\ Count(<<>>) = 0 /\ LastIn(<<>>, q)
<1>1. Qs(<<>>) = {}  BY DEF Qs
<1>2. Len(<<m>>) = 1 /\ <<m>>[1] = m  OBVIOUS
<1>3. Qs(<<m>>) = IF Question(m) THEN {1} ELSE {}  BY <1>2 DEF Qs
<1>4. Cardinality({}) = 0 /\ Cardinality({1}) = 1  BY FS_EmptySet, FS_Singleton
<1>5. LastIn(<<m>>, q) <=> (Question(m) => m.q = q)  BY <1>2, <1>3 DEF LastIn
<1>6. QED  BY <1>1, <1>3, <1>4, <1>5 DEF Count, LastIn

LEMMA Popped ==
  ASSUME NEW V, NEW s \in Seq(V), s # <<>>, NEW q
  PROVE  /\ Tail(s) \in Seq(V) /\ Count(Tail(s)) \in Nat
         /\ Count(s) = Count(Tail(s)) + (IF Question(Head(s)) THEN 1 ELSE 0)
         /\ LastIn(s, q) <=> IF Count(Tail(s)) > 0 THEN LastIn(Tail(s), q)
                             ELSE (Question(Head(s)) => Head(s).q = q)
<1> DEFINE h == Head(s)  u == Tail(s)
<1>1. h \in V /\ u \in Seq(V) /\ <<h>> \in Seq(V)  OBVIOUS
<1>2. s = <<h>> \o u  OBVIOUS
<1> HIDE DEF h, u
<1>3. Count(s) = Count(<<h>>) + Count(u)  BY <1>1, <1>2, CountConcat
<1>4. LastIn(s, q) <=> IF Count(u) > 0 THEN LastIn(u, q) ELSE LastIn(<<h>>, q)
  BY <1>1, <1>2, LastConcat
<1>5. Count(u) \in Nat  BY <1>1, QsFinite
<1>6. QED  BY <1>1, <1>3, <1>4, <1>5, CountOne DEF h, u

LEMMA Appended ==
  ASSUME NEW V, NEW s \in Seq(V), NEW m \in V, NEW q
  PROVE  /\ Append(s, m) \in Seq(V)
         /\ Count(Append(s, m)) = Count(s) + (IF Question(m) THEN 1 ELSE 0)
         /\ LastIn(Append(s, m), q) <=> IF Question(m) THEN m.q = q ELSE LastIn(s, q)
<1>1. <<m>> \in Seq(V) /\ Append(s, m) = s \o <<m>> /\ Append(s, m) \in Seq(V)  OBVIOUS
<1>2. Count(Append(s, m)) = Count(s) + Count(<<m>>)  BY <1>1, CountConcat
<1>3. LastIn(Append(s, m), q) <=> IF Count(<<m>>) > 0 THEN LastIn(<<m>>, q) ELSE LastIn(s, q)
  BY <1>1, LastConcat
<1>4. QED  BY <1>1, <1>2, <1>3, CountOne

-----------------------------------------------------------------------------
(* The questions of one client: cn is its connection, r, b, s and t are the *)
(* queue, the buffer and the two directions of the socket, n is the number  *)
(* of answers to be ignored.                                                *)

Total(r, b, s, t) == Count(r) + Count(b) + Count(s) + Count(t)

\* No answer can come any more.
Silent(cn, b, s) == cn = "left" /\ Count(b) = 0 /\ Count(s) = 0

Newest(b, s, t, q) ==
  IF Count(t) > 0 THEN LastIn(t, q) ELSE IF Count(s) > 0 THEN LastIn(s, q) ELSE LastIn(b, q)

\* While nobody waits, there is a timeout for every question on its way.
At(cn, r, b, s, t, n) ==
  /\ cn \in {None, "cut"} => r = <<>> /\ b = <<>> /\ s = <<>>
  /\ cn \in {None, "left"} => t = <<>>
  /\ cn \in {"open", "left"} => Silent(cn, b, s) \/ Total(r, b, s, t) <= n

\* While question q is waited for, there is one for every other, or else the newest
\* question on its way is q; p says whether the wait is polling.
Asked(cn, r, b, s, t, n, p, q) ==
  /\ cn \in {"open", "left"} /\ (cn = "left" => t = <<>>)
  /\ \/ Silent(cn, b, s) \/ Total(r, b, s, t) <= n
     \/ Total(r, b, s, t) <= n + 1 /\ Newest(b, s, t, q)
  /\ p \/ Count(b) = 0 \/ Count(s) > 0 \/ Count(t) > 0 \/ Total(r, b, s, t) <= n

\* What happens to a sequence, as far as the questions in it matter.
Seen(s) == Count(s) \in Nat /\ (Count(s) = 0 => \A q : LastIn(s, q))
One(m)  == IF Question(m) THEN 1 ELSE 0

\* s is m followed by u; u is s followed by m; u is s followed by t.
Pops(s, m, u) ==
  /\ Seen(s) /\ Seen(u) /\ Count(s) = Count(u) + One(m)
  /\ \A q : LastIn(s, q) <=> IF Count(u) > 0 THEN LastIn(u, q) ELSE (Question(m) => m.q = q)
Gets(s, m, u) ==
  /\ Seen(s) /\ Seen(u) /\ Count(u) = Count(s) + One(m)
  /\ \A q : LastIn(u, q) <=> IF Question(m) THEN m.q = q ELSE LastIn(s, q)
Joins(s, t, u) ==
  /\ Seen(s) /\ Seen(t) /\ Seen(u) /\ Count(u) = Count(s) + Count(t)
  /\ \A q : LastIn(u, q) <=> IF Count(t) > 0 THEN LastIn(t, q) ELSE LastIn(s, q)

LEMMA SeqSeen ==
  ASSUME NEW V, NEW s \in Seq(V)
  PROVE  Seen(s)
<1>1. Count(s) \in Nat /\ (Count(s) = 0 => Qs(s) = {})  BY QsFinite
<1>2. QED  BY <1>1 DEF Seen, LastIn

LEMMA EmptySeen == Seen(<<>>) /\ Count(<<>>) = 0
<1>1. Count(<<>>) = 0 /\ \A q : LastIn(<<>>, q)  BY CountOne
<1>2. QED  BY <1>1 DEF Seen

LEMMA TailPops ==
  ASSUME NEW V, NEW s \in Seq(V), s # <<>>
  PROVE  Pops(s, Head(s), Tail(s))
<1>1. Tail(s) \in Seq(V)  OBVIOUS
<1>2. Seen(s) /\ Seen(Tail(s))  BY <1>1, SeqSeen
<1>3. QED  BY <1>2, Popped DEF Pops, One

LEMMA AppendGets ==
  ASSUME NEW V, NEW s \in Seq(V), NEW m \in V
  PROVE  Gets(s, m, Append(s, m))
<1>1. Append(s, m) \in Seq(V)  OBVIOUS
<1>2. Seen(s) /\ Seen(Append(s, m))  BY <1>1, SeqSeen
<1>3. QED  BY <1>2, Appended DEF Gets, One

LEMMA ConcatJoins ==
  ASSUME NEW V, NEW s \in Seq(V), NEW t \in Seq(V)
  PROVE  Joins(s, t, s \o t)
<1>1. s \o t \in Seq(V)  OBVIOUS
<1>2. Seen(s) /\ Seen(t) /\ Seen(s \o t)  BY <1>1, SeqSeen
<1>3. QED  BY <1>2, CountConcat, LastConcat DEF Joins

LEMMA SplitJoins ==
  ASSUME NEW V, NEW s \in Seq(V), NEW k \in 1..Len(s)
  PROVE  Joins(SubSeq(s, 1, k), SubSeq(s, k + 1, Len(s)), s)
<1> DEFINE x == SubSeq(s, 1, k)  y == SubSeq(s, k + 1, Len(s))
<1>1. x \in Seq(V) /\ y \in Seq(V)  BY ReadSome
<1>2. s = x \o y
  <2>1. Len(s) \in Nat /\ k \in Int /\ 1 <= k /\ k <= Len(s)  OBVIOUS
  <2>2. x \o y = SubSeq(s, 1, Len(s))  BY <2>1, ConcatAdjacentSubSeq
  <2>3. QED  BY <2>2, SubSeqFull
<1> HIDE DEF x, y
<1>3. Joins(x, y, x \o y)  BY <1>1, ConcatJoins
<1>4. QED  BY <1>2, <1>3 DEF x, y

\* The agent answers a request.
LEMMA AnswerKeeps ==
  ASSUME NEW r, NEW b, NEW s, NEW t, NEW u, NEW m, Gets(t, m, u), ~Question(m),
         NEW n, NEW p, NEW q
  PROVE  /\ At("open", r, b, s, t, n) => At("open", r, b, s, u, n)
         /\ Asked("open", r, b, s, t, n, p, q) => Asked("open", r, b, s, u, n, p, q)
<1>1. Count(u) = Count(t) /\ (LastIn(u, q) <=> LastIn(t, q))  BY DEF Gets, One, Seen
<1>2. Total(r, b, s, u) = Total(r, b, s, t)  BY <1>1 DEF Total
<1>3. Newest(b, s, u, q) <=> Newest(b, s, t, q)  BY <1>1 DEF Newest
<1>4. QED  BY <1>1, <1>2, <1>3 DEF At, Asked, None

\* The client sends a request.
LEMMA RequestKeeps ==
  ASSUME NEW r, NEW b, NEW s, NEW t, NEW u, NEW m, Gets(s, m, u), ~Question(m),
         NEW n, NEW p, NEW q
  PROVE  /\ At("open", r, b, s, t, n) => At("open", r, b, u, t, n)
         /\ Asked("open", r, b, s, t, n, p, q) => Asked("open", r, b, u, t, n, p, q)
<1>1. Count(u) = Count(s) /\ (LastIn(u, q) <=> LastIn(s, q))  BY DEF Gets, One, Seen
<1>2. Total(r, b, u, t) = Total(r, b, s, t)  BY <1>1 DEF Total
<1>3. Newest(b, u, t, q) <=> Newest(b, s, t, q)  BY <1>1 DEF Newest
<1>4. Silent("open", b, u) <=> Silent("open", b, s)  BY DEF Silent
<1>5. QED  BY <1>1, <1>2, <1>3, <1>4 DEF At, Asked, None

\* The client takes an answer to a request; or a question, which it answers.
LEMMA DispatchKeeps ==
  ASSUME NEW r, NEW b, NEW s, NEW t, NEW u, NEW m, Pops(t, m, u), ~Question(m), t # <<>>,
         NEW cn, NEW n, NEW p, NEW q
  PROVE  /\ At(cn, r, b, s, t, n) => At(cn, r, b, s, u, n)
         /\ Asked(cn, r, b, s, t, n, p, q) => Asked(cn, r, b, s, u, n, p, q)
<1>1. Count(u) = Count(t) /\ (Count(t) > 0 => (LastIn(u, q) <=> LastIn(t, q)))
  BY DEF Pops, One, Seen
<1>2. Total(r, b, s, u) = Total(r, b, s, t)  BY <1>1 DEF Total
<1>3. Newest(b, s, u, q) <=> Newest(b, s, t, q)  BY <1>1 DEF Newest
<1>4. QED  BY <1>1, <1>2, <1>3 DEF At, Asked

LEMMA QuestionKeeps ==
  ASSUME NEW r, Seen(r), NEW b, Seen(b), NEW s, NEW t, NEW u, NEW v, NEW l, NEW m,
         Pops(t, l, u), Gets(s, m, v), Question(l), Question(m), m.q = l.q,
         NEW n, NEW p, NEW q
  PROVE  /\ At("open", r, b, s, t, n) => At("open", r, b, v, u, n)
         /\ Asked("open", r, b, s, t, n, p, q) => Asked("open", r, b, v, u, n, p, q)
<1>1. /\ Count(u) \in Nat /\ Count(t) = Count(u) + 1
      /\ LastIn(t, q) <=> IF Count(u) > 0 THEN LastIn(u, q) ELSE l.q = q
  BY DEF Pops, One, Seen
<1>2. Count(v) = Count(s) + 1 /\ (LastIn(v, q) <=> m.q = q) /\ Count(s) \in Nat
  BY DEF Gets, One, Seen
<1>3. Count(r) \in Nat /\ Count(b) \in Nat  BY DEF Seen
<1>4. Total(r, b, v, u) = Total(r, b, s, t)  BY <1>1, <1>2, <1>3 DEF Total
<1>5. Newest(b, v, u, q) <=> Newest(b, s, t, q)  BY <1>1, <1>2 DEF Newest
<1>6. Silent("open", b, v) <=> Silent("open", b, s)  BY DEF Silent
<1>7. Count(v) > 0  BY <1>2
<1>8. QED  BY <1>4, <1>5, <1>6, <1>7 DEF At, Asked, None

\* The application dies.
LEMMA DeathKeeps ==
  ASSUME NEW r, Seen(r), NEW b, Seen(b), NEW s, Seen(s), NEW t, Seen(t),
         NEW cn \in {"open", "cut"}, NEW n \in Nat, NEW p, NEW q
  PROVE  /\ At(cn, r, b, s, t, n)
              => At(IF cn = "cut" THEN None ELSE "left", r, b, s, <<>>, n)
         /\ Asked(cn, r, b, s, t, n, p, q) => Asked("left", r, b, s, <<>>, n, p, q)
<1>1. /\ Count(r) \in Nat /\ Count(b) \in Nat /\ Count(s) \in Nat /\ Count(t) \in Nat
      /\ Count(<<>>) = 0
  BY EmptySeen DEF Seen
<1>2. Total(r, b, s, t) \in Nat  BY <1>1 DEF Total
<1>3. Total(r, b, s, t) = Total(r, b, s, <<>>) + Count(t)  BY <1>1 DEF Total
<1>4. Total(r, b, s, <<>>) \in Nat  BY <1>1 DEF Total
<1>5. At(cn, r, b, s, t, n) => At(IF cn = "cut" THEN None ELSE "left", r, b, s, <<>>, n)
  BY <1>1, <1>2, <1>3, <1>4 DEF At, None, Silent
<1>6. Count(t) = 0 => (Newest(b, s, t, q) <=> Newest(b, s, <<>>, q))
  BY <1>1 DEF Newest
<1>7. ASSUME Asked(cn, r, b, s, t, n, p, q) PROVE Asked("left", r, b, s, <<>>, n, p, q)
  <2>1. cn = "open" /\ (Total(r, b, s, t) <= n \/ Total(r, b, s, t) <= n + 1)
    BY <1>7 DEF Asked, Silent
  <2>2. CASE Count(t) > 0
    <3>1. Total(r, b, s, <<>>) <= n  BY <1>1, <1>2, <1>3, <1>4, <2>1, <2>2
    <3>2. QED  BY <3>1 DEF Asked
  <2>3. CASE Count(t) = 0
    <3>1. Total(r, b, s, <<>>) = Total(r, b, s, t)  BY <1>2, <1>3, <1>4, <2>3
    <3>2. Silent(cn, b, s) => Silent("left", b, s)  BY DEF Silent
    <3>3. QED  BY <1>1, <1>6, <1>7, <2>3, <3>1, <3>2 DEF Asked
  <2>4. QED  BY <1>1, <2>2, <2>3
<1>8. QED  BY <1>5, <1>7

\* The agent reads into the queue, behind what was left in the buffer.
LEMMA ReadKeeps ==
  ASSUME NEW r, NEW b, NEW s, NEW t, Seen(t), NEW x, NEW y, NEW v, NEW w,
         Joins(x, y, s), Joins(r, b, v), Joins(v, x, w), s # <<>>,
         NEW cn, NEW n, At(cn, r, b, s, t, n)
  PROVE  At(cn, w, <<>>, y, t, n)
<1>1. /\ Count(r) \in Nat /\ Count(b) \in Nat /\ Count(t) \in Nat /\ Count(x) \in Nat
      /\ Count(y) \in Nat /\ Count(s) = Count(x) + Count(y) /\ Count(v) = Count(r) + Count(b)
      /\ Count(w) = Count(v) + Count(x) /\ Count(<<>>) = 0
  BY EmptySeen DEF Joins, Seen
<1>2. Total(w, <<>>, y, t) = Total(r, b, s, t)  BY <1>1 DEF Total
<1>3. Silent(cn, b, s) => Silent(cn, <<>>, y)  BY <1>1 DEF Silent
<1>4. cn \notin {None, "cut"}  BY DEF At
<1>5. QED  BY <1>2, <1>3, <1>4 DEF At

\* The agent takes a message from the queue.
LEMMA ServeKeeps ==
  ASSUME NEW r, NEW b, Seen(b), NEW s, Seen(s), NEW t, Seen(t), NEW m, NEW u, Pops(r, m, u),
         r # <<>>, NEW cn, NEW n \in Nat, At(cn, r, b, s, t, n)
  PROVE  /\ At(cn, u, b, s, t, n)
         /\ Question(m) => At(cn, u, b, s, t, IF n > 0 THEN n - 1 ELSE 0)
<1>1. /\ Count(u) \in Nat /\ Count(r) = Count(u) + One(m)
      /\ Count(b) \in Nat /\ Count(s) \in Nat /\ Count(t) \in Nat
      /\ One(m) \in {0, 1} /\ (Question(m) => One(m) = 1)
  BY DEF Pops, Seen, One
<1>2. Total(r, b, s, t) = Total(u, b, s, t) + One(m)  BY <1>1 DEF Total
<1>3. Total(u, b, s, t) \in Nat  BY <1>1 DEF Total
<1>4. cn \notin {None, "cut"}  BY DEF At
<1>5. Total(r, b, s, t) <= n => Total(u, b, s, t) <= n  BY <1>1, <1>2, <1>3
<1>6. Total(r, b, s, t) <= n /\ Question(m) => Total(u, b, s, t) <= (IF n > 0 THEN n - 1 ELSE 0)
  BY <1>1, <1>2, <1>3
<1>7. At(cn, u, b, s, t, n)  BY <1>4, <1>5 DEF At
<1>8. Question(m) => At(cn, u, b, s, t, IF n > 0 THEN n - 1 ELSE 0)  BY <1>4, <1>6 DEF At
<1>9. QED  BY <1>7, <1>8

\* A question is asked; or it is not sent, because the client has gone.
LEMMA AskKeeps ==
  ASSUME NEW r, Seen(r), NEW b, Seen(b), NEW s, Seen(s), NEW t, NEW m, NEW u, Gets(t, m, u),
         Question(m), NEW n \in Nat
  PROVE  /\ At("open", r, b, s, t, n) => Asked("open", r, b, s, u, n, FALSE, m.q)
         /\ \A q : At("left", r, b, s, t, n) => Asked("left", r, b, s, t, n, FALSE, q)
<1>1. /\ Count(u) = Count(t) + 1 /\ LastIn(u, m.q) /\ Count(t) \in Nat
      /\ Count(r) \in Nat /\ Count(b) \in Nat /\ Count(s) \in Nat
  BY DEF Gets, Seen, One
<1>2. ASSUME At("open", r, b, s, t, n) PROVE Asked("open", r, b, s, u, n, FALSE, m.q)
  <2>1. Total(r, b, s, t) <= n  BY <1>2 DEF At, Silent
  <2>2. Total(r, b, s, u) <= n + 1  BY <1>1, <2>1 DEF Total
  <2>3. Count(u) > 0  BY <1>1
  <2>4. Newest(b, s, u, m.q)  BY <1>1, <2>3 DEF Newest
  <2>5. QED  BY <2>2, <2>3, <2>4 DEF Asked
<1>3. ASSUME NEW q, At("left", r, b, s, t, n) PROVE Asked("left", r, b, s, t, n, FALSE, q)
  <2>1. t = <<>> /\ (Silent("left", b, s) \/ Total(r, b, s, t) <= n)  BY <1>3 DEF At
  <2>2. Silent("left", b, s) => Count(b) = 0  BY DEF Silent
  <2>3. QED  BY <2>1, <2>2 DEF Asked
<1>4. QED  BY <1>2, <1>3

\* While the agent waits it reads into the buffer.
LEMMA AskReadKeeps ==
  ASSUME NEW r, Seen(r), NEW b, NEW s, NEW t, Seen(t), NEW x, NEW y, NEW v,
         Joins(x, y, s), Joins(b, x, v), NEW cn, NEW n, NEW p, NEW q,
         Asked(cn, r, b, s, t, n, p, q)
  PROVE  Asked(cn, r, v, y, t, n, TRUE, q)
<1>1. /\ Count(r) \in Nat /\ Count(b) \in Nat /\ Count(t) \in Nat /\ Count(x) \in Nat
      /\ Count(y) \in Nat /\ Count(s) = Count(x) + Count(y) /\ Count(v) = Count(b) + Count(x)
  BY DEF Joins, Seen
<1>2. /\ LastIn(s, q) <=> IF Count(y) > 0 THEN LastIn(y, q) ELSE LastIn(x, q)
      /\ LastIn(v, q) <=> IF Count(x) > 0 THEN LastIn(x, q) ELSE LastIn(b, q)
  BY DEF Joins
<1>3. Total(r, v, y, t) = Total(r, b, s, t)  BY <1>1 DEF Total
<1>4. Newest(v, y, t, q) <=> Newest(b, s, t, q)  BY <1>1, <1>2 DEF Newest
<1>5. Silent(cn, b, s) => Silent(cn, v, y)  BY <1>1 DEF Silent
<1>6. QED  BY <1>3, <1>4, <1>5 DEF Asked

\* An answer that comes while no other is to be ignored answers q, and is the last.
LEMMA RightAnswer ==
  ASSUME NEW r, Seen(r), NEW b, NEW s, Seen(s), NEW t, Seen(t), NEW m, NEW u, Pops(b, m, u),
         Question(m), NEW cn, NEW p, NEW q, Asked(cn, r, b, s, t, 0, p, q)
  PROVE  m.q = q /\ At(cn, r, u, s, t, 0)
<1>1. /\ Count(u) \in Nat /\ Count(b) = Count(u) + 1
      /\ Count(r) \in Nat /\ Count(s) \in Nat /\ Count(t) \in Nat
      /\ LastIn(b, q) <=> IF Count(u) > 0 THEN LastIn(u, q) ELSE m.q = q
  BY DEF Pops, Seen, One
<1>2. Total(r, b, s, t) = Total(r, u, s, t) + 1  BY <1>1 DEF Total
<1>3. Total(r, u, s, t) \in Nat  BY <1>1 DEF Total
<1>4. ~Silent(cn, b, s)  BY <1>1 DEF Silent
<1>5. Total(r, b, s, t) <= 1 /\ Newest(b, s, t, q)  BY <1>2, <1>3, <1>4 DEF Asked
<1>6. Total(r, u, s, t) <= 0  BY <1>2, <1>3, <1>5
<1>7. Count(u) = 0 /\ Count(s) = 0 /\ Count(t) = 0  BY <1>1, <1>6 DEF Total
<1>8. m.q = q  BY <1>1, <1>5, <1>7 DEF Newest
<1>9. cn \in {"open", "left"} /\ (cn = "left" => t = <<>>)  BY DEF Asked
<1>10. At(cn, r, u, s, t, 0)  BY <1>6, <1>9 DEF At, None
<1>11. QED  BY <1>8, <1>10

\* The wait takes another message from the buffer, and leaves it at that or queues it.
LEMMA PollKeeps ==
  ASSUME NEW r, NEW b, NEW s, Seen(s), NEW t, Seen(t), NEW m, NEW u, Pops(b, m, u),
         NEW v, Gets(r, m, v), NEW cn, NEW n \in Nat, NEW q, Asked(cn, r, b, s, t, n, TRUE, q)
  PROVE  /\ Question(m) /\ n > 0 => Asked(cn, r, u, s, t, n - 1, TRUE, q)
         /\ ~Question(m) => Asked(cn, r, u, s, t, n, TRUE, q) /\ Asked(cn, v, u, s, t, n, TRUE, q)
<1>1. /\ Count(u) \in Nat /\ Count(b) = Count(u) + One(m) /\ Count(v) = Count(r) + One(m)
      /\ Count(r) \in Nat /\ Count(s) \in Nat /\ Count(t) \in Nat /\ Count(b) \in Nat
  BY DEF Pops, Gets, Seen
<1>2. /\ Count(u) = 0 => LastIn(u, q)
      /\ LastIn(b, q) <=> IF Count(u) > 0 THEN LastIn(u, q) ELSE (Question(m) => m.q = q)
  BY DEF Pops, Seen
<1>3. Newest(b, s, t, q) => Newest(u, s, t, q)  BY <1>1, <1>2 DEF Newest
<1>4. ASSUME Question(m), n > 0 PROVE Asked(cn, r, u, s, t, n - 1, TRUE, q)
  <2>1. One(m) = 1 /\ ~Silent(cn, b, s)  BY <1>1, <1>4 DEF Silent, One
  <2>2. Total(r, b, s, t) = Total(r, u, s, t) + 1  BY <1>1, <2>1 DEF Total
  <2>3. Total(r, u, s, t) \in Nat  BY <1>1 DEF Total
  <2>4. Total(r, b, s, t) <= n => Total(r, u, s, t) <= n - 1  BY <2>2, <2>3
  <2>5. Total(r, b, s, t) <= n + 1 => Total(r, u, s, t) <= (n - 1) + 1  BY <2>2, <2>3
  <2>6. QED  BY <1>3, <2>1, <2>4, <2>5 DEF Asked
<1>5. ASSUME ~Question(m)
      PROVE  Asked(cn, r, u, s, t, n, TRUE, q) /\ Asked(cn, v, u, s, t, n, TRUE, q)
  <2>1. Count(u) = Count(b) /\ Count(v) = Count(r)  BY <1>1, <1>5 DEF One
  <2>2. Total(r, u, s, t) = Total(r, b, s, t) /\ Total(v, u, s, t) = Total(r, b, s, t)
    BY <2>1 DEF Total
  <2>3. Silent(cn, b, s) => Silent(cn, u, s)  BY <2>1 DEF Silent
  <2>4. QED  BY <1>3, <2>2, <2>3 DEF Asked
<1>6. QED  BY <1>4, <1>5

\* The wait ends after its time, or because the client has gone.
LEMMA GivingUp ==
  ASSUME NEW r, Seen(r), NEW b, Seen(b), NEW s, Seen(s), NEW t, Seen(t),
         NEW cn, NEW n \in Nat, NEW q, Asked(cn, r, b, s, t, n, FALSE, q)
  PROVE  /\ At(cn, r, b, s, t, n + 1)
         /\ cn = "left" /\ s = <<>> => At(cn, r, b, s, t, n)
<1>1. Count(r) \in Nat /\ Count(b) \in Nat /\ Count(s) \in Nat /\ Count(t) \in Nat  BY DEF Seen
<1>2. Total(r, b, s, t) \in Nat  BY <1>1 DEF Total
<1>3. cn \in {"open", "left"} /\ (cn = "left" => t = <<>>)  BY DEF Asked
<1>4. Silent(cn, b, s) \/ Total(r, b, s, t) <= n + 1  BY <1>2 DEF Asked
<1>5. At(cn, r, b, s, t, n + 1)  BY <1>3, <1>4 DEF At, None
<1>6. ASSUME cn = "left", s = <<>> PROVE At(cn, r, b, s, t, n)
  <2>1. Count(s) = 0 /\ Count(t) = 0  BY <1>3, <1>6, EmptySeen
  <2>2. Count(b) = 0 \/ Total(r, b, s, t) <= n  BY <2>1 DEF Asked
  <2>3. Count(b) = 0 => Silent(cn, b, s)  BY <1>6, <2>1 DEF Silent
  <2>4. QED  BY <1>3, <1>6, <2>2, <2>3 DEF At, None
<1>7. QED  BY <1>5, <1>6

-----------------------------------------------------------------------------
(* The listeners and the contexts of the agent.                            *)

\* From a to b the contexts change, for client c; the listeners stay.
Serving(a, b, c) ==
  /\ b.up = a.up /\ b.lst = a.lst /\ b.due = a.due /\ b.wrong = a.wrong /\ b.tmo = a.tmo
  /\ \A i \in Ids : b.tbl[i] \in {a.tbl[i], c, None}

LEMMA ServingTrans ==
  ASSUME NEW a, NEW b, NEW d, NEW c, Serving(a, b, c), Serving(b, d, c)
  PROVE  Serving(a, d, c)
BY DEF Serving

LEMMA FocusOutServes ==
  ASSUME NEW a, Contexts(a), NEW i, NEW c
  PROVE  Serving(a, focus_out(a, i), c)
BY DEF focus_out, Serving, Contexts, AgentFields

LEMMA FocusInServes ==
  ASSUME NEW a, Contexts(a), NEW i, NEW c
  PROVE  Serving(a, focus_in(a, i), c)
<1> DEFINE b == IF shared /\ a.fdata # NoId THEN focus_out(a, a.fdata) ELSE a
           t == [b EXCEPT !.fdata = IF shared THEN i ELSE @, !.foc = @ \cup {i}]
<1>1. Serving(a, b, c)
  <2>1. Serving(a, focus_out(a, a.fdata), c)  BY FocusOutServes
  <2>2. Serving(a, a, c)  BY DEF Serving
  <2>3. QED  BY <2>1, <2>2
<1>2. DOMAIN b = AgentFields  BY FocusOutWorks DEF Works, Contexts
<1>3. focus_in(a, i) = t  BY DEF focus_in
<1> HIDE DEF b
<1>4. Serving(b, t, c)  BY <1>2 DEF Serving, AgentFields
<1> HIDE DEF t
<1>5. QED  BY <1>1, <1>3, <1>4, ServingTrans

LEMMA OpenServes ==
  ASSUME NEW a, Contexts(a), NEW i \in Ids, a.tbl[i] # None, NEW f, NEW c
  PROVE  Serving(a, open_imengine(a, i, f), c)
<1> DEFINE b == focus_out(a, i)
           n == IF shared THEN i ELSE b.fdata
           r == b.stray \/ (shared /\ a.fdata \notin {i, NoId})
           d == [b EXCEPT !.fdata = n, !.stray = r]
<1>1. /\ Works(a, b) /\ b.tbl = a.tbl /\ b.fdata = a.fdata /\ b.stray = a.stray
      /\ b.foc = a.foc \ {i}
  BY FocusOutWorks
<1>2. Serving(a, b, c)  BY FocusOutServes
<1>3. open_imengine(a, i, f) = IF f = "same" THEN b ELSE focus_in(d, i)  BY DEF open_imengine
<1> HIDE DEF b
<1>4. /\ DOMAIN d = AgentFields /\ d.tbl = b.tbl /\ d.foc = b.foc /\ d.fdata = n
      /\ d.stray = r
  BY <1>1 DEF Works, Contexts, AgentFields
<1>5. Serving(b, d, c)  BY <1>1 DEF Serving, Works, Contexts, AgentFields
<1> HIDE DEF d
<1>6. shared => r \/ d.foc \subseteq {i}  BY <1>1, <1>4, NoIdNotId DEF Contexts
<1>7. Contexts(d)  BY <1>1, <1>4, <1>6 DEF Works, Contexts
<1>8. Serving(d, focus_in(d, i), c)  BY <1>7, FocusInServes
<1>9. QED  BY <1>2, <1>3, <1>5, <1>8, ServingTrans

LEMMA DestroyServes ==
  ASSUME NEW a, Contexts(a), NEW S, NEW c
  PROVE  Serving(a, Destroy(a, S), c) /\ \A i \in Ids \cap S : Destroy(a, S).tbl[i] = None
<1> DEFINE b == Destroy(a, S)
<1>1. /\ b.lst = a.lst /\ b.due = a.due /\ b.wrong = a.wrong /\ b.tmo = a.tmo /\ b.up = a.up
      /\ b.tbl = [i \in Ids |-> IF i \in S THEN None ELSE a.tbl[i]]
  BY DEF Destroy, Contexts, AgentFields
<1> HIDE DEF b
<1>2. Serving(a, b, c) /\ \A i \in Ids \cap S : b.tbl[i] = None  BY <1>1 DEF Serving
<1>3. QED  BY <1>2 DEF b

LEMMA AllocServes ==
  ASSUME NEW a, Contexts(a), NEW c
  PROVE  Serving(a, alloc_imcontext(a, c), c)
<1> DEFINE b == alloc_imcontext(a, c)  T == [a.tbl EXCEPT ![NewId(a)] = c]
<1>1. b = [a EXCEPT !.tbl = T, !.size = IF a.free = <<>> THEN a.size + 1 ELSE a.size,
                    !.free = IF a.free = <<>> THEN a.free ELSE Front(a.free)]
  BY DEF alloc_imcontext, Contexts, AgentFields
<1> HIDE DEF b
<1>2. /\ b.lst = a.lst /\ b.due = a.due /\ b.wrong = a.wrong /\ b.tmo = a.tmo /\ b.up = a.up
      /\ b.tbl = T
  BY <1>1 DEF Contexts, AgentFields
<1>3. \A i \in Ids : T[i] = a.tbl[i] \/ T[i] = c  BY DEF Contexts
<1> HIDE DEF T
<1>4. QED  BY <1>2, <1>3 DEF Serving, b

\* Every message but the answer to a question.
LEMMA ProcessServes ==
  ASSUME NEW a, Contexts(a), NEW c, NEW m, m.k \in Requests \ {"got"}, NEW e
  PROVE  Serving(a, process_message(a, c, m, e), c)
<1>1. Serving(a, a, c)  BY DEF Serving
<1>2. CASE m.k = "register"  BY <1>2, AllocServes, ProcessCases
<1>3. CASE m.k = "deregister"
  <2>1. process_message(a, c, m, e) = free_imcontext(a, c, m.id)  BY <1>3, ProcessCases
  <2>2. Serving(a, free_imcontext(a, c, m.id), c)  BY <1>1, DestroyServes DEF free_imcontext
  <2>3. QED  BY <2>1, <2>2
<1>4. CASE m.k \in {"reset", "key", "in", "out"} /\ ~Found(a, m.id)
  BY <1>1, <1>4, ProcessCases
<1>5. CASE m.k \in {"reset", "key", "in", "out"} /\ Found(a, m.id)
  <2>1. m.id \in Ids /\ a.tbl[m.id] # None  BY <1>5 DEF Found
  <2>2. CASE m.k = "in"  BY <1>5, <2>2, FocusInServes, ProcessCases
  <2>3. CASE m.k = "out"  BY <1>5, <2>3, FocusOutServes, ProcessCases
  <2>4. CASE m.k = "key"
    <3>1. process_message(a, c, m, e) = filter_key_event(a, m.id, e)
      BY <1>5, <2>4, ProcessCases
    <3>2. Serving(a, filter_key_event(a, m.id, e), c)
      BY <1>1, <2>1, OpenServes, FocusInServes DEF filter_key_event
    <3>3. QED  BY <3>1, <3>2
  <2>5. CASE m.k = "reset"  BY <1>1, <2>5, ProcessCases
  <2>6. QED  BY <1>5, <2>2, <2>3, <2>4, <2>5
<1>6. QED  BY <1>2, <1>3, <1>4, <1>5 DEF Requests

-----------------------------------------------------------------------------
(* Connections, listeners and questions, together.                         *)

\* Contexts, visits and the question belong to clients with a listener.
Guests(a) ==
  /\ a.lst \subseteq Clients /\ a.due \subseteq a.lst
  /\ \A i \in Ids : a.tbl[i] \in a.lst \cup {None}
  /\ a.ask.c \in a.lst \cup {None}
  /\ a.tmo \in [Clients -> Nat] /\ a.wrong = FALSE /\ (a.up \/ a = NoAgent)

\* The questions of client c, connected by cn, s and t.
Fine(a, cn, s, t, c) ==
  IF a.ask.c = c
    THEN Asked(cn, a.rcv[c], a.buf[c], s, t, a.tmo[c], a.ask.poll, a.ask.q)
    ELSE At(cn, a.rcv[c], a.buf[c], s, t, a.tmo[c])

LibFields == {"up", "want", "sub", "list", "rem"}

Libs == DOMAIN cl = Clients /\ \A c \in Clients : DOMAIN cl[c] = LibFields

Conns ==
  /\ DOMAIN conn = Clients
  /\ \A c \in Clients : /\ conn[c] \in {None, "open", "cut", "left"}
                        /\ cl[c].up => conn[c] \in {"open", "cut"}
                        /\ c \in ag.lst => conn[c] \in {"open", "left"}

LInv == Guests(ag) /\ Libs /\ Conns
        /\ \A c \in Clients : Fine(ag, conn[c], toA[c], toC[c], c)

\* What the invariants say of the queues of one client.
LEMMA RowTypes ==
  ASSUME NEW W, BInv(W), LInv, NEW c \in Clients
  PROVE  /\ ag.rcv[c] \in Seq(ToAgent(W)) /\ ag.buf[c] \in Seq(ToAgent(W))
         /\ toA[c] \in Seq(ToAgent(W)) /\ toC[c] \in Seq(ToClient(W))
         /\ Seen(ag.rcv[c]) /\ Seen(ag.buf[c]) /\ Seen(toA[c]) /\ Seen(toC[c])
         /\ ag.tmo[c] \in Nat
<1>1. /\ ag.rcv[c] \in Seq(ToAgent(W)) /\ ag.buf[c] \in Seq(ToAgent(W))
      /\ toA[c] \in Seq(ToAgent(W)) /\ toC[c] \in Seq(ToClient(W))
  BY DEF BInv, Queues, Lines
<1>2. Seen(ag.rcv[c]) /\ Seen(ag.buf[c]) /\ Seen(toA[c]) /\ Seen(toC[c])  BY <1>1, SeqSeen
<1>3. ag.tmo[c] \in Nat  BY DEF LInv, Guests
<1>4. QED  BY <1>1, <1>2, <1>3

\* A step of client c: the agent and the other clients stay.
LEMMA ClientSide ==
  ASSUME LInv, NEW c \in Clients, UNCHANGED ag, Libs', Conns',
         \A d \in Clients \ {c} : conn'[d] = conn[d] /\ toA'[d] = toA[d] /\ toC'[d] = toC[d],
         Fine(ag, conn'[c], toA'[c], toC'[c], c)
  PROVE  LInv'
<1>1. Guests(ag')  BY DEF LInv
<1>2. ASSUME NEW d \in Clients PROVE Fine(ag', conn'[d], toA'[d], toC'[d], d)
  <2>1. CASE d = c  BY <2>1
  <2>2. CASE d # c  BY <2>2 DEF LInv
  <2>3. QED  BY <2>1, <2>2
<1>3. Guests(ag)'  BY <1>1 DEF Guests
<1>4. (\A d \in Clients : Fine(ag, conn[d], toA[d], toC[d], d))'  BY <1>2 DEF Fine
<1>5. QED  BY <1>3, <1>4 DEF LInv

\* Conns and Libs after a step that leaves the agent and the connections alone.
LEMMA ConnsStay ==
  ASSUME LInv, NEW c \in Clients, UNCHANGED <<ag, conn>>, DOMAIN cl' = Clients,
         DOMAIN cl'[c] = LibFields, cl'[c].up => cl[c].up,
         \A d \in Clients \ {c} : cl'[d] = cl[d]
  PROVE  Libs' /\ Conns'
BY DEF LInv, Libs, Conns

LEMMA CloseBooks ==
  ASSUME NEW W, BInv(W), LInv, NEW c \in Clients, conn[c] = "cut", NEW keep,
         close_messenger(c, keep)
  PROVE  LInv'
<1>1. /\ cl' = [cl EXCEPT ![c] = [NewClient EXCEPT !.list = keep]]
      /\ conn' = [conn EXCEPT ![c] = None]
      /\ toA' = [toA EXCEPT ![c] = <<>>] /\ toC' = [toC EXCEPT ![c] = <<>>] /\ UNCHANGED ag
  BY DEF close_messenger
<1>2. DOMAIN toA = Clients /\ DOMAIN toC = Clients  BY DEF BInv, Lines
<1>3. DOMAIN conn = Clients /\ DOMAIN cl = Clients  BY DEF LInv, Conns, Libs
<1>4. conn'[c] = None /\ toA'[c] = <<>> /\ toC'[c] = <<>>  BY <1>1, <1>2, <1>3
<1>5. \A d \in Clients \ {c} :
        conn'[d] = conn[d] /\ toA'[d] = toA[d] /\ toC'[d] = toC[d] /\ cl'[d] = cl[d]
  BY <1>1, <1>2, <1>3
<1>6. c \notin ag.lst /\ ag.ask.c # c  BY OwnerAssumption DEF LInv, Conns, Guests
<1>7. At("cut", ag.rcv[c], ag.buf[c], toA[c], toC[c], ag.tmo[c])  BY <1>6 DEF LInv, Fine
<1>8. At(None, ag.rcv[c], ag.buf[c], <<>>, <<>>, ag.tmo[c])  BY <1>7 DEF At, None
<1>9. Fine(ag, conn'[c], toA'[c], toC'[c], c)  BY <1>4, <1>6, <1>8 DEF Fine
<1>10. DOMAIN cl' = Clients /\ DOMAIN cl'[c] = LibFields /\ ~cl'[c].up
  BY <1>1, <1>3 DEF NewClient, LibFields
<1>11. DOMAIN conn' = Clients  BY <1>1, <1>3
<1>12. Libs'  BY <1>5, <1>10 DEF LInv, Libs
<1>13. Conns'  BY <1>1, <1>4, <1>5, <1>6, <1>10, <1>11 DEF LInv, Conns
<1>14. QED  BY <1>1, <1>5, <1>9, <1>12, <1>13, ClientSide

\* A request on an open connection.
LEMMA SendBooks ==
  ASSUME NEW W, BInv(W), LInv, NEW c \in Clients, conn[c] = "open", NEW m \in ToAgent(W),
         ~Question(m), toA' = [toA EXCEPT ![c] = Append(@, m)], UNCHANGED <<ag, conn, toC>>,
         Libs', Conns'
  PROVE  LInv'
<1>1. DOMAIN toA = Clients  BY DEF BInv, Lines
<1>2. toA'[c] = Append(toA[c], m) /\ \A d \in Clients \ {c} : toA'[d] = toA[d]  BY <1>1
<1>3. Gets(toA[c], m, toA'[c])  BY <1>2, RowTypes, AppendGets
<1>4. Fine(ag, "open", toA[c], toC[c], c)  BY DEF LInv
<1>5. Fine(ag, "open", toA'[c], toC[c], c)  BY <1>3, <1>4, RequestKeeps DEF Fine
<1>6. QED  BY <1>2, <1>5, ClientSide

LEMMA RequestBooks ==
  ASSUME NEW W, BInv(W), LInv, NEW c \in Clients, cl[c].up, NEW k \in Requests \ {"got"},
         NEW i \in W, NEW x, Request(c, k, i, x)
  PROVE  LInv'
<1>1. CASE conn[c] = "cut"  BY <1>1, CloseBooks DEF Request
<1>2. CASE conn[c] # "cut"
  <2>1. /\ toA' = [toA EXCEPT ![c] = Append(@, Msg(k, i, 0))] /\ UNCHANGED <<ag, conn, toC>>
        /\ cl' = [cl EXCEPT ![c].want = AnswerTo(k), ![c].sub = x]
    BY <1>2 DEF Request
  <2>2. conn[c] = "open"  BY <1>2 DEF LInv, Conns
  <2>3. Msg(k, i, 0) \in ToAgent(W) /\ Msg(k, i, 0).k = k  BY MsgTypes DEF Msg
  <2>4. ~Question(Msg(k, i, 0))  BY <2>3 DEF Question, Requests
  <2>5. DOMAIN cl = Clients /\ DOMAIN cl[c] = LibFields  BY DEF LInv, Libs
  <2>6. /\ DOMAIN cl' = Clients /\ DOMAIN cl'[c] = LibFields /\ cl'[c].up = cl[c].up
        /\ \A d \in Clients \ {c} : cl'[d] = cl[d]
    BY <2>1, <2>5 DEF LibFields
  <2>7. Libs' /\ Conns'  BY <2>1, <2>6, ConnsStay
  <2>8. QED  BY <2>1, <2>2, <2>3, <2>4, <2>7, SendBooks
<1>3. QED  BY <1>1, <1>2

LEMMA DeregisterBooks ==
  ASSUME NEW W, BInv(W), LInv, NEW x \in Ctxs, deregister_imcontext(x)
  PROVE  LInv'
<1> DEFINE c == Owner[x]
<1>1. c \in Clients /\ id[x] \in W  BY OwnerAssumption DEF BInv, Lines
<1>2. cl[c].up  BY DEF deregister_imcontext, Idle
<1>3. CASE conn[c] = "cut"  BY <1>1, <1>3, CloseBooks DEF deregister_imcontext
<1>4. CASE conn[c] # "cut"
  <2>1. /\ toA' = [toA EXCEPT ![c] = Append(@, Msg("deregister", id[x], 0))]
        /\ cl' = [cl EXCEPT ![c].want = AnswerTo("deregister"), ![c].list = @ \ {x}]
        /\ UNCHANGED <<ag, conn, toC>>
    BY <1>4 DEF deregister_imcontext
  <2> HIDE DEF c
  <2>2. conn[c] = "open"  BY <1>1, <1>2, <1>4 DEF LInv, Conns
  <2> DEFINE m == Msg("deregister", id[x], 0)
  <2>3. m \in ToAgent(W)  BY <1>1, MsgTypes DEF Requests
  <2>4. ~Question(m)  BY DEF Question, Msg
  <2>5. DOMAIN cl = Clients /\ DOMAIN cl[c] = LibFields  BY <1>1 DEF LInv, Libs
  <2>6. /\ DOMAIN cl' = Clients /\ DOMAIN cl'[c] = LibFields /\ cl'[c].up = cl[c].up
        /\ \A d \in Clients \ {c} : cl'[d] = cl[d]
    BY <1>1, <2>1, <2>5 DEF LibFields
  <2>7. Libs' /\ Conns'  BY <1>1, <2>1, <2>6, ConnsStay
  <2> HIDE DEF m
  <2>8. toA' = [toA EXCEPT ![c] = Append(@, m)]  BY <2>1 DEF m
  <2>9. QED  BY <1>1, <2>1, <2>2, <2>3, <2>4, <2>7, <2>8, SendBooks
<1>5. QED  BY <1>3, <1>4

\* A new agent has no listener and nothing to wait for.
LEMMA NewAgentGuests ==
  ASSUME NEW b \in {NewAgent, NoAgent}
  PROVE  /\ Guests(b) /\ b.lst = {}
         /\ \A c \in Clients : /\ b.rcv[c] = <<>> /\ b.buf[c] = <<>> /\ b.tmo[c] = 0
                               /\ b.ask.c # c
<1> DEFINE E == [c \in Clients |-> <<>>]  Z == [c \in Clients |-> 0]  T == [i \in Ids |-> None]
<1>1. /\ b.lst = {} /\ b.due = {} /\ b.tbl = T /\ b.rcv = E /\ b.buf = E /\ b.tmo = Z
      /\ b.ask = NoAsk /\ b.wrong = FALSE
  BY DEF NewAgent, NoAgent
<1>2. NoAsk.c = None  BY DEF NoAsk
<1>3. Z \in [Clients -> Nat] /\ \A c \in Clients : Z[c] = 0 /\ E[c] = <<>>  OBVIOUS
<1>4. \A i \in Ids : T[i] = None  OBVIOUS
<1> HIDE DEF E, Z, T
<1>5. NewAgent.up  BY DEF NewAgent
<1>6. QED  BY <1>1, <1>2, <1>3, <1>4, <1>5, OwnerAssumption DEF Guests

\* A connection on which nobody has asked anything.
LEMMA QuietRow ==
  ASSUME NEW b, NEW c, b.rcv[c] = <<>>, b.buf[c] = <<>>, b.tmo[c] = 0, b.ask.c # c,
         NEW t, NEW cn \in {None, "cut"}, cn = None => t = <<>>
  PROVE  Fine(b, cn, <<>>, t, c)
BY DEF Fine, At, None

LEMMA OpenBooks ==
  ASSUME NEW W, BInv(W), LInv, NEW c \in Clients, open_messenger(c)
  PROVE  LInv'
<1>1. /\ conn[c] = None /\ conn' = [conn EXCEPT ![c] = "open"] /\ UNCHANGED <<toA, toC>>
      /\ cl' = [cl EXCEPT ![c] = [NewClient EXCEPT !.up = TRUE, !.rem = cl[c].list]]
      /\ (ag' = ag \/ (~ag.up /\ ag' = NewAgent))
  BY DEF open_messenger
<1>2. DOMAIN conn = Clients /\ DOMAIN cl = Clients  BY DEF LInv, Conns, Libs
<1>3. conn'[c] = "open" /\ DOMAIN conn' = Clients /\ \A d \in Clients \ {c} : conn'[d] = conn[d]
  BY <1>1, <1>2
<1>4. /\ DOMAIN cl' = Clients /\ DOMAIN cl'[c] = LibFields
      /\ \A d \in Clients \ {c} : cl'[d] = cl[d]
  BY <1>1, <1>2 DEF NewClient, LibFields
<1>5. Libs'  BY <1>4 DEF LInv, Libs
<1>6. /\ c \notin ag.lst /\ ag.ask.c # c
      /\ At(None, ag.rcv[c], ag.buf[c], toA[c], toC[c], ag.tmo[c])
  BY <1>1, OwnerAssumption DEF LInv, Conns, Guests, Fine, None
<1>7. ag.rcv[c] = <<>> /\ ag.buf[c] = <<>> /\ toA[c] = <<>> /\ toC[c] = <<>>  BY <1>6 DEF At
<1>8. ag.tmo[c] \in Nat  BY DEF LInv, Guests
<1>9. \A n \in Nat : At("open", <<>>, <<>>, <<>>, <<>>, n)
  <2>1. Total(<<>>, <<>>, <<>>, <<>>) = 0  BY EmptySeen DEF Total
  <2>2. QED  BY <2>1 DEF At, None
<1>10. CASE ag' = ag
  <2>1. Fine(ag, "open", toA[c], toC[c], c)  BY <1>6, <1>7, <1>8, <1>9 DEF Fine
  <2>2. Conns'  BY <1>3, <1>4, <1>6, <1>10 DEF LInv, Conns
  <2>3. QED  BY <1>1, <1>3, <1>5, <1>10, <2>1, <2>2, ClientSide
<1>11. CASE ag' = NewAgent /\ ag = NoAgent
  <2>1. Guests(NewAgent) /\ NewAgent.lst = {}  BY NewAgentGuests
  <2>2. ASSUME NEW d \in Clients PROVE Fine(NewAgent, conn'[d], toA[d], toC[d], d)
    <3>1. /\ NewAgent.rcv[d] = <<>> /\ NewAgent.buf[d] = <<>> /\ NewAgent.tmo[d] = 0
          /\ NewAgent.ask.c # d
      BY NewAgentGuests
    <3>2. /\ NoAgent.rcv[d] = <<>> /\ NoAgent.buf[d] = <<>> /\ NoAgent.tmo[d] = 0
          /\ NoAgent.ask.c # d
      BY NewAgentGuests
    <3>3. CASE d = c  BY <1>3, <1>7, <1>9, <3>1, <3>3 DEF Fine
    <3>4. CASE d # c
      <4>1. Fine(NoAgent, conn[d], toA[d], toC[d], d)  BY <1>11 DEF LInv
      <4>2. At(conn[d], <<>>, <<>>, toA[d], toC[d], 0)  BY <3>2, <4>1 DEF Fine
      <4>3. QED  BY <1>3, <3>1, <3>4, <4>2 DEF Fine
    <3>5. QED  BY <3>3, <3>4
  <2>3. Conns'  BY <1>3, <1>4, <1>11, <2>1 DEF LInv, Conns
  <2>4. Guests(ag)'  BY <1>11, <2>1 DEF Guests
  <2>5. (\A d \in Clients : Fine(ag, conn[d], toA[d], toC[d], d))'  BY <1>1, <1>11, <2>2
  <2>6. QED  BY <1>5, <2>3, <2>4, <2>5 DEF LInv
<1>12. ag.up \/ ag = NoAgent  BY DEF LInv, Guests
<1>13. QED  BY <1>1, <1>10, <1>11, <1>12

LEMMA CallsBooks ==
  ASSUME NEW W, BInv(W), LInv, NEW c \in Clients, Calls(c)
  PROVE  LInv'
<1>1. CASE open_messenger(c)  BY <1>1, OpenBooks
<1>2. ASSUME NEW x \in Ctxs,
             \/ register_imcontext(x) \/ deregister_imcontext(x)
             \/ reset_imcontext(x) \/ handle_key_event(x) \/ change_focus(x)
      PROVE  LInv'
  <2>1. Owner[x] \in Clients /\ id[x] \in W /\ NoId \in W  BY OwnerAssumption DEF BInv, Lines
  <2>2. \A k \in {"register", "reset", "key", "in", "out"} : k \in Requests \ {"got"}
    BY DEF Requests
  <2>3. Idle(Owner[x]) => cl[Owner[x]].up  BY DEF Idle
  <2>4. CASE register_imcontext(x)
    BY <2>1, <2>2, <2>3, <2>4, RequestBooks DEF register_imcontext
  <2>5. CASE deregister_imcontext(x)  BY <2>5, DeregisterBooks
  <2>6. CASE reset_imcontext(x)  BY <2>1, <2>2, <2>3, <2>6, RequestBooks DEF reset_imcontext
  <2>7. CASE handle_key_event(x)  BY <2>1, <2>2, <2>3, <2>7, RequestBooks DEF handle_key_event
  <2>8. CASE change_focus(x)
    <3>1. PICK k \in {"in", "out"} : Request(Owner[x], k, id[x], None)  BY <2>8 DEF change_focus
    <3>2. Idle(Owner[x])  BY <2>8 DEF change_focus
    <3>3. QED  BY <2>1, <2>2, <2>3, <3>1, <3>2, RequestBooks
  <2>9. QED  BY <1>2, <2>4, <2>5, <2>6, <2>7, <2>8
<1>3. QED  BY <1>1, <1>2 DEF Calls

\* Taking a message leaves the library connected.
LEMMA AnsweredLibs ==
  ASSUME LInv, NEW c \in Clients, NEW m, Answered(c, m) \/ UNCHANGED cl, UNCHANGED <<ag, conn>>
  PROVE  Libs' /\ Conns'
<1>1. DOMAIN cl = Clients /\ DOMAIN cl[c] = LibFields  BY DEF LInv, Libs
<1>2. \/ UNCHANGED cl
      \/ \E x : cl' = [cl EXCEPT ![c].want = None, ![c].sub = None, ![c].rem = @ \ {x},
                                 ![c].list = IF x = None THEN @ ELSE @ \cup {x}]
  BY DEF Answered
<1>3. ASSUME NEW x, cl' = [cl EXCEPT ![c].want = None, ![c].sub = None, ![c].rem = @ \ {x},
                                     ![c].list = IF x = None THEN @ ELSE @ \cup {x}]
      PROVE  /\ DOMAIN cl' = Clients /\ DOMAIN cl'[c] = LibFields /\ cl'[c].up = cl[c].up
             /\ \A d \in Clients \ {c} : cl'[d] = cl[d]
  BY <1>1, <1>3 DEF LibFields
<1>4. /\ DOMAIN cl' = Clients /\ DOMAIN cl'[c] = LibFields /\ cl'[c].up = cl[c].up
      /\ \A d \in Clients \ {c} : cl'[d] = cl[d]
  BY <1>1, <1>2, <1>3
<1>5. QED  BY <1>4, ConnsStay

LEMMA DispatchBooks ==
  ASSUME NEW W, BInv(W), LInv, NEW c \in Clients, read_and_dispatch(c)
  PROVE  LInv'
<1> DEFINE m == Head(toC[c])  l == Msg("got", m.id, m.q)
<1>1. toC[c] # <<>> /\ cl[c].up  BY DEF read_and_dispatch
<1>2. conn[c] \in {"open", "cut"}  BY <1>1 DEF LInv, Conns
<1>3. m \in ToClient(W) /\ Pops(toC[c], m, Tail(toC[c]))  BY <1>1, RowTypes, TailPops, Taken DEF BInv, Lines
<1>4. CASE m.k = "get" /\ conn[c] = "cut"  BY <1>4, CloseBooks DEF read_and_dispatch
<1>5. CASE ~(m.k = "get" /\ conn[c] = "cut")
  <2>1. toC' = [toC EXCEPT ![c] = Tail(@)] /\ UNCHANGED <<ag, conn>>
    BY <1>5 DEF read_and_dispatch
  <2>2. \/ m.k = "get" /\ toA' = [toA EXCEPT ![c] = Append(@, l)] /\ UNCHANGED cl
        \/ m.k # "get" /\ UNCHANGED toA /\ Answered(c, m)
    BY <1>5 DEF read_and_dispatch
  <2>3. Question(m) <=> m.k = "get"  BY <1>3 DEF Question, ToClient, Answers
  <2>4. m.k = "get" => l \in ToAgent(W) /\ Question(l) /\ l.q = m.q
    <3>1. m.id \in W /\ m.q \in Nat  BY <1>3 DEF ToClient
    <3>2. l \in ToAgent(W)  BY <3>1, MsgTypes DEF Requests
    <3>3. l.k = "got" /\ l.q = m.q  BY DEF Msg
    <3>4. QED  BY <3>2, <3>3 DEF Question
  <2>5. Libs' /\ Conns'  BY <2>1, <2>2, AnsweredLibs
  <2> HIDE DEF m, l
  <2>6. DOMAIN toA = Clients /\ DOMAIN toC = Clients  BY DEF BInv, Lines
  <2>7. toC'[c] = Tail(toC[c]) /\ \A d \in Clients \ {c} : toC'[d] = toC[d]  BY <2>1, <2>6
  <2>8. Pops(toC[c], m, toC'[c])  BY <1>3, <2>7
  <2>9. Fine(ag, conn[c], toA[c], toC[c], c)  BY DEF LInv
  <2>10. CASE m.k # "get"
    <3>1. Fine(ag, conn[c], toA[c], toC'[c], c)
      BY <1>1, <2>3, <2>8, <2>9, <2>10, DispatchKeeps DEF Fine
    <3>2. QED  BY <2>1, <2>2, <2>5, <2>7, <2>10, <3>1, ClientSide
  <2>11. CASE m.k = "get"
    <3>1. conn[c] = "open"  BY <1>2, <1>5, <2>11
    <3>2. toA' = [toA EXCEPT ![c] = Append(@, l)]  BY <2>2, <2>11
    <3>3. toA'[c] = Append(toA[c], l) /\ \A d \in Clients \ {c} : toA'[d] = toA[d]
      BY <2>6, <3>2
    <3>4. Gets(toA[c], l, toA'[c])  BY <2>4, <2>11, <3>3, RowTypes, AppendGets
    <3>5. Fine(ag, "open", toA'[c], toC'[c], c)
      BY <2>3, <2>4, <2>8, <2>9, <2>11, <3>1, <3>4, RowTypes, QuestionKeeps DEF Fine
    <3>6. QED  BY <2>1, <2>5, <2>7, <3>1, <3>3, <3>5, ClientSide
  <2>12. QED  BY <2>10, <2>11
<1>6. QED  BY <1>4, <1>5

LEMMA LibraryBooks ==
  ASSUME NEW W, BInv(W), LInv, NEW c \in Clients, Library(c)
  PROVE  LInv'
<1>1. CASE RegisterAgain(c)
  <2>1. PICK x \in cl[c].rem : Request(c, "register", NoId, x)  BY <1>1 DEF RegisterAgain
  <2>2. cl[c].up /\ "register" \in Requests \ {"got"} /\ NoId \in W
    BY <1>1 DEF RegisterAgain, Requests, BInv, Lines
  <2>3. QED  BY <2>1, <2>2, RequestBooks
<1>2. CASE read_and_dispatch(c)  BY <1>2, DispatchBooks
<1>3. CASE Disconnected(c)  BY <1>3, CloseBooks DEF Disconnected
<1>4. QED  BY <1>1, <1>2, <1>3 DEF Library

LEMMA DiesBooks ==
  ASSUME NEW W, BInv(W), LInv, NEW c \in Clients, ClientDies(c)
  PROVE  LInv'
<1>1. /\ cl[c].up /\ cl' = [cl EXCEPT ![c] = NewClient]
      /\ conn' = [conn EXCEPT ![c] = IF @ = "cut" THEN None ELSE "left"]
      /\ toC' = [toC EXCEPT ![c] = <<>>] /\ UNCHANGED <<toA, ag>>
  BY DEF ClientDies
<1>2. DOMAIN toC = Clients /\ DOMAIN conn = Clients /\ DOMAIN cl = Clients
  BY DEF BInv, Lines, LInv, Conns, Libs
<1>3. /\ toC'[c] = <<>> /\ conn'[c] = (IF conn[c] = "cut" THEN None ELSE "left")
      /\ DOMAIN conn' = Clients /\ DOMAIN cl' = Clients
      /\ \A d \in Clients \ {c} : conn'[d] = conn[d] /\ toC'[d] = toC[d] /\ cl'[d] = cl[d]
  BY <1>1, <1>2
<1>4. cl'[c] = NewClient  BY <1>1, <1>2
<1>5. DOMAIN NewClient = LibFields /\ ~NewClient.up  BY DEF NewClient, LibFields
<1>6. conn[c] \in {"open", "cut"}  BY <1>1 DEF LInv, Conns
<1>7. Libs'  BY <1>3, <1>4, <1>5 DEF LInv, Libs
<1>8. c \in ag.lst => conn'[c] = "left"  BY <1>3, <1>6 DEF LInv, Conns
<1>9. Conns'  BY <1>1, <1>3, <1>4, <1>5, <1>8 DEF LInv, Conns
<1>10. Fine(ag, conn[c], toA[c], toC[c], c)  BY DEF LInv
<1>11. ag.ask.c = c => conn'[c] = "left"  BY <1>8, OwnerAssumption DEF LInv, Guests
<1>12. Fine(ag, conn'[c], toA[c], <<>>, c)
  <2> DEFINE r == ag.rcv[c]  b == ag.buf[c]  n == ag.tmo[c]  p == ag.ask.poll  q == ag.ask.q
  <2>1. Seen(r) /\ Seen(b) /\ Seen(toA[c]) /\ Seen(toC[c]) /\ n \in Nat  BY RowTypes
  <2> HIDE DEF r, b, n, p, q
  <2>2. /\ At(conn[c], r, b, toA[c], toC[c], n) => At(conn'[c], r, b, toA[c], <<>>, n)
        /\ Asked(conn[c], r, b, toA[c], toC[c], n, p, q)
              => Asked("left", r, b, toA[c], <<>>, n, p, q)
    BY <1>3, <1>6, <2>1, DeathKeeps
  <2>3. QED  BY <1>10, <1>11, <2>2 DEF Fine, r, b, n, p, q
<1>13. QED  BY <1>1, <1>3, <1>7, <1>9, <1>12, ClientSide

-----------------------------------------------------------------------------
(* The agent's steps, which leave the connections alone.                   *)

\* What the invariant says of an agent a with messages s and t on their way.
Books(a, s, t) ==
  /\ Guests(a) /\ \A c \in a.lst : conn[c] \in {"open", "left"}
  /\ \A c \in Clients : Fine(a, conn[c], s[c], t[c], c)

LEMMA BooksNow == LInv => Books(ag, toA, toC)
BY DEF LInv, Books, Conns, Guests

LEMMA BooksNext ==
  ASSUME LInv, NEW b, ag' = b, Books(b, toA', toC'), UNCHANGED <<cl, conn>>
  PROVE  LInv'
<1>1. Guests(ag)'  BY DEF Books, Guests
<1>2. (\A c \in Clients : Fine(ag, conn[c], toA[c], toC[c], c))'  BY DEF Books, Fine
<1>3. Libs' /\ Conns'  BY DEF LInv, Libs, Conns, Books
<1>4. QED  BY <1>1, <1>2, <1>3 DEF LInv

\* The queues and the question stay.
Idles(a, b) ==
  b.rcv = a.rcv /\ b.buf = a.buf /\ b.tmo = a.tmo /\ b.ask = a.ask

LEMMA BooksIdle ==
  ASSUME NEW a, NEW s, NEW t, Books(a, s, t), NEW b, Guests(b), Idles(a, b),
         \A c \in b.lst : conn[c] \in {"open", "left"}
  PROVE  Books(b, s, t)
BY DEF Books, Fine, Idles

\* A message is processed, and only the contexts change.
LEMMA BooksServing ==
  ASSUME NEW a, NEW s, NEW t, Books(a, s, t), NEW b, Works(a, b),
         NEW c \in a.lst \cup {None}, Serving(a, b, c), a.up
  PROVE  Books(b, s, t) /\ b.up /\ b.lst = a.lst
<1>1. Idles(a, b) /\ b.up /\ b.lst = a.lst  BY DEF Idles, Works, Serving
<1>2. Guests(b)  BY <1>1 DEF Books, Guests, Serving, Works
<1>3. QED  BY <1>1, <1>2, BooksIdle DEF Books

\* Only what concerns client c changes.
Others(a, b, c) ==
  /\ b.up /\ b.lst = a.lst /\ b.due = a.due /\ b.tbl = a.tbl /\ b.wrong = a.wrong
  /\ a.ask.c \in {None, c} /\ b.ask.c \in {None, c}
  /\ \A d \in Clients \ {c} :
       b.rcv[d] = a.rcv[d] /\ b.buf[d] = a.buf[d] /\ b.tmo[d] = a.tmo[d]

LEMMA BooksRow ==
  ASSUME NEW a, NEW s, NEW t, Books(a, s, t), NEW c \in a.lst, NEW b, Others(a, b, c),
         b.tmo \in [Clients -> Nat], NEW u, NEW v,
         \A d \in Clients \ {c} : u[d] = s[d] /\ v[d] = t[d],
         Fine(b, conn[c], u[c], v[c], c)
  PROVE  Books(b, u, v)
<1>1. Guests(b)  BY DEF Books, Guests, Others
<1>2. ASSUME NEW d \in Clients PROVE Fine(b, conn[d], u[d], v[d], d)
  <2>1. CASE d = c  BY <2>1
  <2>2. CASE d # c
    <3>1. Fine(a, conn[d], s[d], t[d], d)  BY DEF Books
    <3>2. a.ask.c # d /\ b.ask.c # d  BY <2>2, OwnerAssumption DEF Others
    <3>3. QED  BY <2>2, <3>1, <3>2 DEF Fine, Others
  <2>3. QED  BY <2>1, <2>2
<1>3. QED  BY <1>1, <1>2 DEF Books, Others

\* A message that is no question is sent.
LEMMA BooksSend ==
  ASSUME NEW a, NEW s, Books(a, s, toC), NEW W, Lines(W), NEW c \in Clients,
         NEW m \in ToClient(W), ~Question(m), Send(c, m)
  PROVE  Books(a, s, toC')
<1>1. CASE conn[c] # "open"
  <2>1. toC' = toC  BY <1>1 DEF Send
  <2>2. QED  BY <2>1
<1>2. CASE conn[c] = "open"
  <2>1. toC' = [toC EXCEPT ![c] = Append(@, m)]  BY <1>2 DEF Send
  <2>2. DOMAIN toC = Clients /\ toC[c] \in Seq(ToClient(W))  BY DEF Lines
  <2>3. toC'[c] = Append(toC[c], m) /\ \A d \in Clients \ {c} : toC'[d] = toC[d]  BY <2>1, <2>2
  <2>4. Gets(toC[c], m, toC'[c])  BY <2>2, <2>3, AppendGets
  <2>5. Fine(a, "open", s[c], toC[c], c)  BY <1>2 DEF Books
  <2>6. Fine(a, "open", s[c], toC'[c], c)  BY <2>4, <2>5, AnswerKeeps DEF Fine
  <2>7. \A d \in Clients : Fine(a, conn[d], s[d], toC'[d], d)  BY <1>2, <2>3, <2>6 DEF Books
  <2>8. QED  BY <2>7 DEF Books
<1>3. QED  BY <1>1, <1>2

\* Between two waits nobody is asked.
LEMMA RunningAsks ==
  ASSUME Running
  PROVE  ag.up /\ ag.ask.c = None
BY DEF Running, NoAsk

LEMMA AcceptBooks ==
  ASSUME NEW W, BInv(W), LInv, NEW c \in Clients, Accept(c)
  PROVE  LInv'
<1> DEFINE b == [ag EXCEPT !.lst = @ \cup {c}]
<1>1. /\ ag' = b /\ UNCHANGED <<cl, conn, toA, toC>> /\ Running /\ conn[c] \in {"open", "left"}
  BY DEF Accept, Keep
<1>2. DOMAIN ag = AgentFields  BY DEF BInv, Contexts
<1>3. /\ Idles(ag, b) /\ b.lst = ag.lst \cup {c} /\ b.up = ag.up /\ b.due = ag.due
      /\ b.tbl = ag.tbl /\ b.wrong = ag.wrong
  BY <1>2 DEF Idles, AgentFields
<1> HIDE DEF b
<1>4. Books(ag, toA, toC)  BY BooksNow
<1>5. Guests(b)  BY <1>1, <1>3, <1>4, RunningAsks DEF Books, Guests, Idles
<1>6. Books(b, toA, toC)  BY <1>1, <1>3, <1>4, <1>5, BooksIdle DEF Books
<1>7. QED  BY <1>1, <1>6, BooksNext

LEMMA RoundBooks ==
  ASSUME NEW W, BInv(W), LInv, Round \/ \E c \in Clients : EndVisit(c)
  PROVE  LInv'
<1>1. DOMAIN ag = AgentFields  BY DEF BInv, Contexts
<1>2. Running /\ UNCHANGED <<cl, conn, toA, toC>>  BY DEF Round, EndVisit, Keep
<1>3. PICK i, d : ag' = [ag EXCEPT !.intr = i, !.due = d] /\ d \subseteq ag.lst
  <2>1. CASE Round  BY <2>1 DEF Round
  <2>2. ASSUME NEW c \in Clients, EndVisit(c)
        PROVE  \E i, d : ag' = [ag EXCEPT !.intr = i, !.due = d] /\ d \subseteq ag.lst
    <3>1. ag' = [ag EXCEPT !.due = @ \ {c}]  BY <2>2 DEF EndVisit
    <3>2. ag' = [ag EXCEPT !.intr = ag.intr, !.due = ag.due \ {c}]
      BY <1>1, <3>1 DEF AgentFields
    <3>3. ag.due \subseteq ag.lst  BY DEF LInv, Guests
    <3>4. QED  BY <3>2, <3>3
  <2>3. QED  BY <2>1, <2>2
<1> DEFINE b == [ag EXCEPT !.intr = i, !.due = d]
<1>4. /\ Idles(ag, b) /\ b.lst = ag.lst /\ b.up = ag.up /\ b.due = d /\ b.tbl = ag.tbl
      /\ b.wrong = ag.wrong
  BY <1>1 DEF Idles, AgentFields
<1>5. ag' = b  BY <1>3
<1> HIDE DEF b
<1>6. Books(ag, toA, toC)  BY BooksNow
<1>7. Guests(b)  BY <1>2, <1>3, <1>4, <1>6, RunningAsks DEF Books, Guests, Idles
<1>8. Books(b, toA, toC)  BY <1>4, <1>6, <1>7, BooksIdle DEF Books
<1>9. QED  BY <1>2, <1>5, <1>8, BooksNext

LEMMA ReadBooks ==
  ASSUME NEW W, BInv(W), LInv, NEW c \in Clients, Read(c)
  PROVE  LInv'
<1>1. PICK k \in Chunk(c) :
        /\ ag' = [ag EXCEPT !.rcv[c] = @ \o ag.buf[c] \o SubSeq(toA[c], 1, k),
                            !.buf[c] = <<>>, !.intr = TRUE]
        /\ toA' = [toA EXCEPT ![c] = SubSeq(@, k + 1, Len(@))]
  BY DEF Read
<1>2. UNCHANGED <<cl, conn, toC>> /\ Running /\ c \in ag.lst  BY DEF Read, Keep
<1> DEFINE x == SubSeq(toA[c], 1, k)
           y == SubSeq(toA[c], k + 1, Len(toA[c]))
           v == ag.rcv[c] \o ag.buf[c]
           w == v \o x
           R == [ag.rcv EXCEPT ![c] = w]
           B == [ag.buf EXCEPT ![c] = <<>>]
           b == [ag EXCEPT !.rcv = R, !.buf = B, !.intr = TRUE]
<1>3. /\ DOMAIN ag = AgentFields /\ DOMAIN toA = Clients /\ DOMAIN ag.rcv = Clients
      /\ DOMAIN ag.buf = Clients
  BY DEF BInv, Contexts, Queues, Lines
<1>4. ag' = b  BY <1>1, <1>3 DEF AgentFields
<1>5. toA' = [toA EXCEPT ![c] = y]  BY <1>1, <1>3
<1>6. k \in 1..Len(toA[c]) /\ toA[c] \in Seq(ToAgent(W))  BY RowTypes DEF Chunk
<1>7. Joins(x, y, toA[c]) /\ toA[c] # <<>>
  <2>1. toA[c] # <<>>  BY <1>6
  <2>2. QED  BY <1>6, <2>1, SplitJoins
<1>8. x \in Seq(ToAgent(W))  BY <1>6, ReadSome
<1> HIDE DEF x, y
<1>9. Joins(ag.rcv[c], ag.buf[c], v)  BY RowTypes, ConcatJoins
<1>10. v \in Seq(ToAgent(W))  BY RowTypes
<1> HIDE DEF v
<1>11. Joins(v, x, w)  BY <1>8, <1>10, ConcatJoins
<1> HIDE DEF w
<1>12. R[c] = w /\ B[c] = <<>> /\ \A d \in Clients \ {c} : R[d] = ag.rcv[d] /\ B[d] = ag.buf[d]
  BY <1>3
<1> HIDE DEF R, B
<1>13. /\ b.rcv = R /\ b.buf = B /\ b.ask = ag.ask /\ b.up = ag.up /\ b.lst = ag.lst
       /\ b.due = ag.due /\ b.tbl = ag.tbl /\ b.wrong = ag.wrong /\ b.tmo = ag.tmo
  BY <1>3 DEF AgentFields
<1> HIDE DEF b
<1>14. Books(ag, toA, toC) /\ ag.up /\ ag.ask.c = None /\ c # None
  BY <1>2, BooksNow, RunningAsks, OwnerAssumption
<1>15. Others(ag, b, c) /\ b.tmo \in [Clients -> Nat]
  BY <1>12, <1>13, <1>14 DEF Others, Books, Guests
<1>16. At(conn[c], ag.rcv[c], ag.buf[c], toA[c], toC[c], ag.tmo[c])
  BY <1>14 DEF Books, Fine
<1>17. At(conn[c], w, <<>>, y, toC[c], ag.tmo[c])
  <2>1. Seen(toC[c])  BY RowTypes
  <2>2. QED  BY <1>7, <1>9, <1>11, <1>16, <2>1, ReadKeeps
<1>18. toA'[c] = y /\ \A d \in Clients \ {c} : toA'[d] = toA[d]  BY <1>3, <1>5
<1>19. Fine(b, conn[c], toA'[c], toC[c], c)  BY <1>12, <1>13, <1>14, <1>17, <1>18 DEF Fine
<1>20. Books(b, toA', toC)  BY <1>2, <1>14, <1>15, <1>18, <1>19, BooksRow
<1>21. QED  BY <1>2, <1>4, <1>20, BooksNext

LEMMA CrashBooks ==
  ASSUME NEW W, BInv(W), LInv, ag' = NoAgent, UNCHANGED <<cl, toC>>,
         toA' = [c \in Clients |-> <<>>],
         conn' = [c \in Clients |-> IF conn[c] = "open" THEN "cut"
                                     ELSE IF conn[c] = "left" THEN None ELSE conn[c]]
  PROVE  LInv'
<1>1. Guests(NoAgent) /\ NoAgent.lst = {}  BY NewAgentGuests
<1>2. Guests(ag)'  BY <1>1 DEF Guests
<1>3. Libs'  BY DEF LInv, Libs
<1>4. Conns'  BY <1>1 DEF LInv, Conns, None
<1>5. ASSUME NEW c \in Clients PROVE Fine(NoAgent, conn'[c], <<>>, toC[c], c)
  <2>1. conn'[c] \in {None, "cut"}  BY DEF LInv, Conns
  <2>2. conn'[c] = None => conn[c] \in {None, "left"}  BY DEF LInv, Conns, None
  <2>3. conn[c] \in {None, "left"} => toC[c] = <<>>
    <3>1. Fine(ag, conn[c], toA[c], toC[c], c)  BY DEF LInv
    <3>2. QED  BY <3>1 DEF Fine, At, Asked, None
  <2>4. /\ NoAgent.rcv[c] = <<>> /\ NoAgent.buf[c] = <<>> /\ NoAgent.tmo[c] = 0
        /\ NoAgent.ask.c # c
    BY NewAgentGuests
  <2>5. QED  BY <2>1, <2>2, <2>3, <2>4, QuietRow
<1>6. \A c \in Clients : toA'[c] = <<>>  OBVIOUS
<1>7. (\A c \in Clients : Fine(ag, conn[c], toA[c], toC[c], c))'  BY <1>5, <1>6
<1>8. QED  BY <1>2, <1>3, <1>4, <1>7 DEF LInv

\* A listener is removed, and the others stay.
LEMMA RemovedGuests ==
  ASSUME Contexts(ag), NEW W, Queues(ag, W), Guests(ag), Running, NEW c \in Clients
  PROVE  LET S == {i \in Ids : ag.tbl[i] = c}
             b == [Destroy(ag, S) EXCEPT !.lst = @ \ {c}, !.due = @ \ {c}, !.rcv[c] = <<>>,
                                         !.buf[c] = <<>>, !.tmo[c] = 0]
         IN /\ Guests(b) /\ b.lst = ag.lst \ {c} /\ b.ask.c = None
            /\ b.rcv[c] = <<>> /\ b.buf[c] = <<>> /\ b.tmo[c] = 0
            /\ \A d \in Clients \ {c} :
                 b.rcv[d] = ag.rcv[d] /\ b.buf[d] = ag.buf[d] /\ b.tmo[d] = ag.tmo[d]
<1> DEFINE S == {i \in Ids : ag.tbl[i] = c}
           a == Destroy(ag, S)
           R == [a.rcv EXCEPT ![c] = <<>>]
           B == [a.buf EXCEPT ![c] = <<>>]
           T == [a.tmo EXCEPT ![c] = 0]
           b == [a EXCEPT !.lst = @ \ {c}, !.due = @ \ {c}, !.rcv = R, !.buf = B, !.tmo = T]
<1>1. Works(ag, a)  BY DestroyWorks
<1>2. Serving(ag, a, None) /\ \A i \in Ids \cap S : a.tbl[i] = None  BY DestroyServes
<1>3. \A i \in Ids : i \notin S => ag.tbl[i] # c  OBVIOUS
<1>4. ag.up /\ ag.ask.c = None  BY RunningAsks
<1> HIDE DEF a, S
<1>5. b = [a EXCEPT !.lst = @ \ {c}, !.due = @ \ {c}, !.rcv[c] = <<>>, !.buf[c] = <<>>,
                    !.tmo[c] = 0]
  BY <1>1 DEF Works, Contexts, AgentFields
<1>6. /\ DOMAIN a.rcv = Clients /\ DOMAIN a.buf = Clients /\ a.tmo \in [Clients -> Nat]
      /\ a.rcv = ag.rcv /\ a.buf = ag.buf /\ a.tmo = ag.tmo
  BY <1>1, <1>2 DEF Works, Serving, Queues, Guests
<1>7. /\ R[c] = <<>> /\ B[c] = <<>> /\ T[c] = 0 /\ T \in [Clients -> Nat]
      /\ \A d \in Clients \ {c} : R[d] = ag.rcv[d] /\ B[d] = ag.buf[d] /\ T[d] = ag.tmo[d]
  BY <1>6
<1> HIDE DEF R, B, T
<1>8. /\ b.rcv = R /\ b.buf = B /\ b.tmo = T /\ b.lst = a.lst \ {c} /\ b.due = a.due \ {c}
      /\ b.up = a.up /\ b.wrong = a.wrong /\ b.tbl = a.tbl /\ b.ask = a.ask
  BY <1>1 DEF Works, Contexts, AgentFields
<1> HIDE DEF b
<1>9. \A i \in Ids : b.tbl[i] \in b.lst \cup {None}
  BY <1>2, <1>3, <1>8 DEF Serving, Guests
<1>10. b.up /\ b.ask.c = None /\ b.lst = ag.lst \ {c} /\ b.due = ag.due \ {c} /\ b.wrong = ag.wrong
  BY <1>1, <1>2, <1>4, <1>8 DEF Works, Serving
<1>11. Guests(b)  BY <1>7, <1>8, <1>9, <1>10 DEF Guests
<1>12. QED  BY <1>5, <1>7, <1>8, <1>10, <1>11 DEF a, S

LEMMA RemoveBooks ==
  ASSUME NEW W, BInv(W), LInv, NEW c \in Clients, c \in ag.lst, Running,
         remove_client_listener(c)
  PROVE  LInv'
<1>1. UNCHANGED <<cl, toC>>  BY DEF remove_client_listener, Keep
<1>2. CASE ag.lst = {c}
  <2>1. ag' = NoAgent  BY <1>2 DEF remove_client_listener
  <2>2. toA' = [d \in Clients |-> <<>>]  BY <1>2 DEF remove_client_listener
  <2>3. conn' = [d \in Clients |-> IF conn[d] = "open" THEN "cut"
                                    ELSE IF conn[d] = "left" THEN None ELSE conn[d]]
    BY <1>2 DEF remove_client_listener
  <2>4. QED  BY <1>1, <2>1, <2>2, <2>3, CrashBooks
<1>3. CASE ag.lst # {c}
  <2> DEFINE S == {i \in Ids : ag.tbl[i] = c}
             b == [Destroy(ag, S) EXCEPT !.lst = @ \ {c}, !.due = @ \ {c}, !.rcv[c] = <<>>,
                                         !.buf[c] = <<>>, !.tmo[c] = 0]
  <2>1. ag' = b  BY <1>3 DEF remove_client_listener
  <2>2. /\ Guests(b) /\ b.lst = ag.lst \ {c} /\ b.ask.c = None
        /\ b.rcv[c] = <<>> /\ b.buf[c] = <<>> /\ b.tmo[c] = 0
        /\ \A d \in Clients \ {c} :
             b.rcv[d] = ag.rcv[d] /\ b.buf[d] = ag.buf[d] /\ b.tmo[d] = ag.tmo[d]
    BY RemovedGuests DEF BInv, LInv
  <2> HIDE DEF b, S
  <2>3. /\ DOMAIN conn' = Clients /\ toA'[c] = <<>>
        /\ conn'[c] = IF conn[c] = "open" THEN "cut" ELSE IF conn[c] = "left" THEN None ELSE conn[c]
        /\ \A d \in Clients \ {c} : conn'[d] = conn[d] /\ toA'[d] = toA[d]
    BY <1>3 DEF remove_client_listener
  <2>4. conn[c] \in {"open", "left"} /\ conn'[c] \in {None, "cut"}
    BY <2>3 DEF LInv, Conns
  <2>5. conn'[c] = None => conn[c] = "left"  BY <2>3, <2>4 DEF None
  <2>6. Libs'  BY <1>1 DEF LInv, Libs
  <2>7. Conns'  BY <1>1, <2>1, <2>2, <2>3, <2>4 DEF LInv, Conns, None
  <2>8. Guests(ag)'  BY <2>1, <2>2 DEF Guests
  <2>9. ASSUME NEW d \in Clients PROVE Fine(b, conn'[d], toA'[d], toC[d], d)
    <3>1. Fine(ag, conn[d], toA[d], toC[d], d)  BY DEF LInv
    <3>2. CASE d = c
      <4>1. conn'[c] = None => toC[c] = <<>>  BY <2>5, <3>1, <3>2 DEF Fine, At, Asked
      <4>2. b.ask.c # c  BY <2>2, OwnerAssumption
      <4>3. QED  BY <2>2, <2>3, <2>4, <3>2, <4>1, <4>2, QuietRow
    <3>3. CASE d # c
      <4>1. ag.ask.c # d /\ b.ask.c # d  BY <2>2, RunningAsks, OwnerAssumption
      <4>2. QED  BY <2>2, <2>3, <3>1, <3>3, <4>1 DEF Fine
    <3>4. QED  BY <3>2, <3>3
  <2>10. (\A d \in Clients : Fine(ag, conn[d], toA[d], toC[d], d))'  BY <1>1, <2>1, <2>9
  <2>11. QED  BY <2>6, <2>7, <2>8, <2>10 DEF LInv
<1>4. QED  BY <1>2, <1>3

\* A question is asked.
LEMMA AsksBooks ==
  ASSUME NEW W, BInv(W), LInv, NEW a, Contexts(a), Queues(a, W), Books(a, toA, toC), a.up,
         a.ask.c = None, a.lst = ag.lst, NEW i \in Ids, ag.tbl[i] # None, NEW d, NEW k,
         get_surrounding_string(a, i, d, k), Keep, UNCHANGED <<conn, toA>>
  PROVE  LInv'
<1> DEFINE c == ag.tbl[i]
           n == asked.n + 1
           m == Msg("get", i, n)
           q == [c |-> c, q |-> n, to |-> d, k |-> k, poll |-> FALSE]
           b == [a EXCEPT !.ask = q]
<1>1. ag' = b /\ Send(c, m) /\ UNCHANGED cl  BY DEF get_surrounding_string, Keep
<1>2. c \in a.lst /\ a.lst \subseteq Clients /\ c # None  BY DEF LInv, Guests
<1>3. n \in Nat /\ i \in W  BY DEF BInv, Lines
<1> HIDE DEF c, n
<1>4. m \in ToClient(W) /\ m.k = "get" /\ m.q = n  BY <1>3, MsgTypes DEF Answers, Msg
<1>5. Question(m)  BY <1>4 DEF Question
<1>6. q.c = c /\ q.q = n /\ q.poll = FALSE  OBVIOUS
<1> HIDE DEF m, q
<1>7. /\ b.rcv = a.rcv /\ b.buf = a.buf /\ b.ask = q /\ b.up = a.up /\ b.lst = a.lst
      /\ b.due = a.due /\ b.tbl = a.tbl /\ b.wrong = a.wrong /\ b.tmo = a.tmo
  BY DEF Contexts, AgentFields
<1> HIDE DEF b
<1>8. Others(a, b, c) /\ b.tmo \in [Clients -> Nat]  BY <1>6, <1>7 DEF Others, Books, Guests
<1>9. conn[c] \in {"open", "left"} /\ c \in Clients  BY <1>2 DEF Books
<1>10. At(conn[c], a.rcv[c], a.buf[c], toA[c], toC[c], a.tmo[c])
  BY <1>2, <1>9 DEF Books, Fine
<1>11. Seen(a.rcv[c]) /\ Seen(a.buf[c]) /\ Seen(toA[c]) /\ a.tmo[c] \in Nat
  <2>1. a.rcv[c] \in Seq(ToAgent(W)) /\ a.buf[c] \in Seq(ToAgent(W))  BY <1>9 DEF Queues
  <2>2. a.tmo[c] \in Nat  BY <1>9 DEF Books, Guests
  <2>3. QED  BY <1>9, <2>1, <2>2, SeqSeen, RowTypes
<1>12. Gets(toC[c], m, Append(toC[c], m)) /\ DOMAIN toC = Clients
  <2>1. toC[c] \in Seq(ToClient(W)) /\ DOMAIN toC = Clients  BY <1>9 DEF BInv, Lines
  <2>2. QED  BY <1>4, <2>1, AppendGets
<1>13. CASE conn[c] = "open"
  <2>1. toC' = [toC EXCEPT ![c] = Append(@, m)]  BY <1>1, <1>13 DEF Send
  <2>2. toC'[c] = Append(toC[c], m) /\ \A o \in Clients \ {c} : toC'[o] = toC[o]
    BY <1>9, <1>12, <2>1
  <2>3. Gets(toC[c], m, toC'[c])  BY <1>12, <2>2
  <2>4. Asked("open", a.rcv[c], a.buf[c], toA[c], toC'[c], a.tmo[c], FALSE, n)
    BY <1>4, <1>5, <1>10, <1>11, <1>13, <2>3, AskKeeps
  <2>5. Fine(b, conn[c], toA[c], toC'[c], c)  BY <1>6, <1>7, <1>13, <2>4 DEF Fine
  <2>6. Books(b, toA, toC')  BY <1>2, <1>8, <2>2, <2>5, BooksRow
  <2>7. QED  BY <1>1, <2>6, BooksNext
<1>14. CASE conn[c] = "left"
  <2>1. toC' = toC  BY <1>1, <1>14 DEF Send
  <2>2. Asked("left", a.rcv[c], a.buf[c], toA[c], toC[c], a.tmo[c], FALSE, n)
    BY <1>5, <1>10, <1>11, <1>12, <1>14, AskKeeps
  <2>3. Fine(b, conn[c], toA[c], toC[c], c)  BY <1>6, <1>7, <1>14, <2>2 DEF Fine
  <2>4. Books(b, toA, toC)  BY <1>2, <1>8, <2>3, BooksRow
  <2>5. QED  BY <1>1, <2>1, <2>4, BooksNext
<1>15. QED  BY <1>9, <1>13, <1>14

\* A message of client c is answered.
LEMMA AnswerBooks ==
  ASSUME NEW W, BInv(W), NEW a, NEW p, Books(p, toA, toC), NEW c \in Clients,
         NEW m, m.k \in Requests \ {"got"}, m.k = "register" => NewId(a) \in W,
         Answer(a, c, m)
  PROVE  Books(p, toA, toC')
<1> DEFINE i == IF m.k = "register" THEN NewId(a) ELSE NoId  l == Msg(AnswerTo(m.k), i, 0)
<1>1. i \in W /\ Lines(W)  BY DEF BInv, Lines
<1>2. Send(c, l)  BY DEF Answer
<1> HIDE DEF i
<1>3. l \in ToClient(W)  BY <1>1, AnswerTypes, MsgTypes
<1>4. ~Question(l)
  <2>1. l.k = AnswerTo(m.k)  BY DEF Msg
  <2>2. AnswerTo(m.k) \notin {"get", "got"}  BY DEF AnswerTo, Requests
  <2>3. QED  BY <2>1, <2>2 DEF Question
<1> HIDE DEF l
<1>5. QED  BY <1>1, <1>2, <1>3, <1>4, BooksSend

\* From a to p an answer has come, and one less is to be ignored.
OneCame(a, p, c) ==
  /\ p.rcv = a.rcv /\ p.buf = a.buf /\ p.ask = a.ask /\ p.up = a.up /\ p.lst = a.lst
  /\ p.due = a.due /\ p.tbl = a.tbl /\ p.wrong = a.wrong
  /\ p.tmo \in [Clients -> Nat] /\ p.tmo[c] = (IF a.tmo[c] > 0 THEN a.tmo[c] - 1 ELSE 0)
  /\ \A d \in Clients \ {c} : p.tmo[d] = a.tmo[d]

LEMMA GotOne ==
  ASSUME NEW a, DOMAIN a = AgentFields, a.tmo \in [Clients -> Nat], NEW c \in Clients,
         NEW m, m.k = "got", NEW e
  PROVE  OneCame(a, process_message(a, c, m, e), c)
<1> DEFINE n == IF a.tmo[c] > 0 THEN a.tmo[c] - 1 ELSE 0
           T == [a.tmo EXCEPT ![c] = n]
           q == [a EXCEPT !.tmo = T]
<1>1. process_message(a, c, m, e) = [a EXCEPT !.tmo[c] = IF @ > 0 THEN @ - 1 ELSE 0]
  BY ProcessCases
<1>2. process_message(a, c, m, e) = q  BY <1>1 DEF AgentFields
<1>3. n \in Nat  OBVIOUS
<1> HIDE DEF n
<1>4. T \in [Clients -> Nat] /\ T[c] = n /\ \A d \in Clients \ {c} : T[d] = a.tmo[d]  BY <1>3
<1> HIDE DEF T
<1>5. /\ q.rcv = a.rcv /\ q.buf = a.buf /\ q.ask = a.ask /\ q.up = a.up /\ q.lst = a.lst
      /\ q.due = a.due /\ q.tbl = a.tbl /\ q.wrong = a.wrong /\ q.tmo = T
  BY DEF AgentFields
<1> HIDE DEF q
<1>6. OneCame(a, q, c)  BY <1>4, <1>5 DEF OneCame, n
<1>7. QED  BY <1>2, <1>6

LEMMA ServeBooks ==
  ASSUME NEW W, BInv(W), LInv, NEW c \in Clients, Serve(c),
         NewId([ag EXCEPT !.rcv[c] = Tail(@)]) \in W
  PROVE  LInv'
<1> DEFINE m == Head(ag.rcv[c])
           R == [ag.rcv EXCEPT ![c] = Tail(@)]
           a == [ag EXCEPT !.rcv = R]
<1>1. Contexts(ag) /\ Queues(ag, W) /\ Lines(W)  BY DEF BInv
<1>2. ag.rcv[c] # <<>> /\ Running /\ c \in ag.lst  BY DEF Serve, LInv, Guests
<1>3. [ag EXCEPT !.rcv[c] = Tail(@)] = a  BY <1>1 DEF Contexts, AgentFields
<1>4. \/ remove_client_listener(c)
      \/ /\ m.k = "got" /\ ag' = process_message(a, c, m, "none")
         /\ Keep /\ UNCHANGED <<conn, toA, toC>>
      \/ /\ \E e : \E j \in Questioned(ag, c, m, e) :
              get_surrounding_string(process_message(a, c, m, e), j, c, m.k)
         /\ Keep /\ UNCHANGED <<conn, toA>>
      \/ /\ m.k # "got" /\ \E e : ag' = process_message(a, c, m, e)
         /\ Answer(a, c, m)
         /\ Keep /\ UNCHANGED <<conn, toA>>
  BY <1>3 DEF Serve
<1>5. NewId(a) \in W  BY <1>3
<1>6. R \in [Clients -> Seq(ToAgent(W))] /\ m \in ToAgent(W)  BY <1>1, <1>2, Taken DEF Queues
<1>7. m.k \in Requests  BY <1>6 DEF ToAgent
<1>8. R[c] = Tail(ag.rcv[c]) /\ \A d \in Clients \ {c} : R[d] = ag.rcv[d]  BY <1>1 DEF Queues
<1>9. Pops(ag.rcv[c], m, R[c])  BY <1>2, <1>8, RowTypes, TailPops
<1> HIDE DEF m, R
<1>10. /\ DOMAIN a = AgentFields /\ a.rcv = R /\ a.buf = ag.buf /\ a.ask = ag.ask
       /\ a.up = ag.up /\ a.lst = ag.lst /\ a.due = ag.due /\ a.tbl = ag.tbl
       /\ a.wrong = ag.wrong /\ a.tmo = ag.tmo /\ Stays(ag, a)
  BY <1>1 DEF Contexts, AgentFields, Stays
<1> HIDE DEF a
<1>11. Contexts(a) /\ Queues(a, W)  BY <1>1, <1>6, <1>10, StaysContexts DEF Queues
<1>12. Books(ag, toA, toC) /\ ag.up /\ ag.ask.c = None /\ c # None /\ a.tmo \in [Clients -> Nat]
  BY <1>2, <1>10, BooksNow, RunningAsks, OwnerAssumption DEF Books, Guests
<1>13. /\ At(conn[c], R[c], ag.buf[c], toA[c], toC[c], ag.tmo[c])
       /\ Question(m) => At(conn[c], R[c], ag.buf[c], toA[c], toC[c],
                            IF ag.tmo[c] > 0 THEN ag.tmo[c] - 1 ELSE 0)
  <2>1. At(conn[c], ag.rcv[c], ag.buf[c], toA[c], toC[c], ag.tmo[c])
    BY <1>12 DEF Books, Fine
  <2>2. Seen(ag.buf[c]) /\ Seen(toA[c]) /\ Seen(toC[c]) /\ ag.tmo[c] \in Nat  BY RowTypes
  <2>3. QED  BY <1>2, <1>9, <2>1, <2>2, ServeKeeps
<1>14. Books(a, toA, toC) /\ a.up /\ a.ask.c = None /\ c \in a.lst
  <2>1. Others(ag, a, c)  BY <1>8, <1>10, <1>12 DEF Others
  <2>2. Fine(a, conn[c], toA[c], toC[c], c)  BY <1>10, <1>12, <1>13 DEF Fine
  <2>3. QED  BY <1>2, <1>10, <1>12, <2>1, <2>2, BooksRow
<1>15. ASSUME m.k # "got", NEW e
       PROVE  LET p == process_message(a, c, m, e)
              IN /\ Contexts(p) /\ Queues(p, W) /\ Books(p, toA, toC) /\ p.up
                 /\ p.ask.c = None /\ p.lst = a.lst
  <2> DEFINE p == process_message(a, c, m, e)
  <2>1. Works(a, p) /\ Serving(a, p, c)  BY <1>7, <1>11, <1>15, ProcessWorks, ProcessServes
  <2> HIDE DEF p
  <2>2. Contexts(p) /\ Queues(p, W) /\ p.ask.c = None
    BY <1>11, <1>14, <2>1 DEF Works, Queues
  <2>3. Books(p, toA, toC) /\ p.up /\ p.lst = a.lst  BY <1>14, <2>1, BooksServing
  <2>4. QED  BY <2>2, <2>3 DEF p
<1>16. CASE remove_client_listener(c)  BY <1>2, <1>16, RemoveBooks
<1>17. CASE /\ m.k = "got" /\ ag' = process_message(a, c, m, "none")
            /\ Keep /\ UNCHANGED <<conn, toA, toC>>
  <2> DEFINE p == process_message(a, c, m, "none")
  <2>1. ag' = p  BY <1>17
  <2>2. OneCame(a, p, c)
    <3>1. DOMAIN a = AgentFields /\ a.tmo \in [Clients -> Nat] /\ m.k = "got"
      BY <1>10, <1>12, <1>17
    <3>2. QED  BY <3>1, GotOne
  <2> HIDE DEF p
  <2>3. Others(ag, p, c)  BY <1>8, <1>10, <1>12, <2>2 DEF Others, OneCame
  <2>4. Question(m)  BY <1>17 DEF Question
  <2>5. Fine(p, conn[c], toA[c], toC[c], c)  BY <1>10, <1>12, <1>13, <2>2, <2>4 DEF Fine, OneCame
  <2>6. Books(p, toA, toC)  BY <1>2, <1>12, <2>2, <2>3, <2>5, BooksRow DEF OneCame
  <2>7. QED  BY <1>17, <2>1, <2>6, BooksNext DEF Keep
<1>18. CASE /\ \E e : \E j \in Questioned(ag, c, m, e) :
                 get_surrounding_string(process_message(a, c, m, e), j, c, m.k)
            /\ Keep /\ UNCHANGED <<conn, toA>>
  <2>1. PICK e : \E j \in Questioned(ag, c, m, e) :
                   get_surrounding_string(process_message(a, c, m, e), j, c, m.k)
    BY <1>18
  <2>2. PICK j \in Questioned(ag, c, m, e) :
          get_surrounding_string(process_message(a, c, m, e), j, c, m.k)
    BY <2>1
  <2>3. m.k # "got" /\ j \in Ids /\ ag.tbl[j] # None  BY QuestionedFound DEF Askers
  <2> DEFINE p == process_message(a, c, m, e)
  <2>4. /\ Contexts(p) /\ Queues(p, W) /\ Books(p, toA, toC) /\ p.up /\ p.ask.c = None
        /\ p.lst = ag.lst
    BY <1>10, <1>15, <2>3
  <2>5. get_surrounding_string(p, j, c, m.k)  BY <2>2
  <2> HIDE DEF p
  <2>6. QED  BY <1>18, <2>3, <2>4, <2>5, AsksBooks
<1>19. CASE /\ m.k # "got" /\ \E e : ag' = process_message(a, c, m, e)
            /\ Answer(a, c, m)
            /\ Keep /\ UNCHANGED <<conn, toA>>
  <2>1. PICK e : ag' = process_message(a, c, m, e)  BY <1>19
  <2> DEFINE p == process_message(a, c, m, e)
  <2>2. ag' = p /\ Books(p, toA, toC)  BY <1>15, <1>19, <2>1
  <2> HIDE DEF p
  <2>3. Books(p, toA, toC')  BY <1>5, <1>7, <1>19, <2>2, AnswerBooks
  <2>4. Books(p, toA', toC')  BY <1>19, <2>3
  <2>5. QED  BY <1>19, <2>2, <2>4, BooksNext DEF Keep
<1>20. QED  BY <1>4, <1>16, <1>17, <1>18, <1>19

\* Who is waited for.
LEMMA WaitingAsks ==
  ASSUME NEW W, BInv(W), LInv, Waiting
  PROVE  /\ ag.up /\ ag.ask.c \in ag.lst /\ ag.ask.c \in Clients /\ ag.ask \in Asks
         /\ Asked(conn[ag.ask.c], ag.rcv[ag.ask.c], ag.buf[ag.ask.c], toA[ag.ask.c],
                  toC[ag.ask.c], ag.tmo[ag.ask.c], ag.ask.poll, ag.ask.q)
<1>1. ag.up /\ ag.ask.c \in Clients /\ ag.ask \in Asks  BY DEF Waiting, BInv, Queues
<1>2. ag.ask.c \in ag.lst  BY <1>1, OwnerAssumption DEF LInv, Guests
<1>3. Fine(ag, conn[ag.ask.c], toA[ag.ask.c], toC[ag.ask.c], ag.ask.c)  BY <1>1 DEF LInv
<1>4. QED  BY <1>1, <1>2, <1>3 DEF Fine

LEMMA AskReadBooks ==
  ASSUME NEW W, BInv(W), LInv, AskRead
  PROVE  LInv'
<1> DEFINE c == ag.ask.c
<1>1. PICK k \in Chunk(c) :
        /\ ag' = [ag EXCEPT !.buf[c] = @ \o SubSeq(toA[c], 1, k), !.ask.poll = TRUE]
        /\ toA' = [toA EXCEPT ![c] = SubSeq(@, k + 1, Len(@))]
  BY DEF AskRead
<1>2. UNCHANGED <<cl, conn, toC>> /\ Waiting  BY DEF AskRead, Keep
<1>3. /\ DOMAIN ag = AgentFields /\ DOMAIN toA = Clients /\ DOMAIN ag.buf = Clients
  BY DEF BInv, Contexts, Queues, Lines
<1> DEFINE x == SubSeq(toA[c], 1, k)
           y == SubSeq(toA[c], k + 1, Len(toA[c]))
           v == ag.buf[c] \o x
           B == [ag.buf EXCEPT ![c] = v]
           q == [ag.ask EXCEPT !.poll = TRUE]
           b == [ag EXCEPT !.buf = B, !.ask = q]
<1>4. ag' = b  BY <1>1, <1>3 DEF AgentFields
<1>5. /\ ag.up /\ c \in ag.lst /\ c \in Clients /\ ag.ask \in Asks
      /\ Asked(conn[c], ag.rcv[c], ag.buf[c], toA[c], toC[c], ag.tmo[c], ag.ask.poll, ag.ask.q)
  BY <1>2, WaitingAsks
<1>6. q.c = c /\ q.q = ag.ask.q /\ q.poll = TRUE  BY <1>5 DEF Asks
<1>7. toA' = [toA EXCEPT ![c] = y]  BY <1>1, <1>3, <1>5
<1>8. k \in 1..Len(toA[c])  BY DEF Chunk
<1>9. ag.ask.c = c  OBVIOUS
<1> HIDE DEF c, q
<1>10. Joins(x, y, toA[c])  BY <1>5, <1>8, RowTypes, SplitJoins
<1>11. x \in Seq(ToAgent(W))  BY <1>5, <1>8, RowTypes, ReadSome
<1> HIDE DEF x, y
<1>12. Joins(ag.buf[c], x, v)  BY <1>5, <1>11, RowTypes, ConcatJoins
<1> HIDE DEF v
<1>13. B[c] = v /\ \A d \in Clients \ {c} : B[d] = ag.buf[d]  BY <1>3, <1>5
<1>14. toA'[c] = y /\ \A d \in Clients \ {c} : toA'[d] = toA[d]  BY <1>3, <1>5, <1>7
<1> HIDE DEF B
<1>15. /\ b.rcv = ag.rcv /\ b.buf = B /\ b.ask = q /\ b.up = ag.up /\ b.lst = ag.lst
       /\ b.due = ag.due /\ b.tbl = ag.tbl /\ b.wrong = ag.wrong /\ b.tmo = ag.tmo
  BY <1>3 DEF AgentFields
<1> HIDE DEF b
<1>16. Books(ag, toA, toC)  BY BooksNow
<1>17. Others(ag, b, c) /\ b.tmo \in [Clients -> Nat]
  BY <1>5, <1>6, <1>9, <1>13, <1>15, <1>16 DEF Others, Books, Guests
<1>18. Asked(conn[c], ag.rcv[c], v, y, toC[c], ag.tmo[c], TRUE, ag.ask.q)
  <2> DEFINE cn == conn[c]  r == ag.rcv[c]  l == ag.buf[c]  s == toA[c]  t == toC[c]
             n == ag.tmo[c]  p == ag.ask.poll  o == ag.ask.q
  <2>1. Seen(r) /\ Seen(t)  BY <1>5, RowTypes
  <2>2. Asked(cn, r, l, s, t, n, p, o) /\ Joins(x, y, s) /\ Joins(l, x, v)
    BY <1>5, <1>10, <1>12
  <2> HIDE DEF cn, r, l, s, t, n, p, o
  <2>3. Asked(cn, r, v, y, t, n, TRUE, o)  BY <2>1, <2>2, AskReadKeeps
  <2>4. QED  BY <2>3 DEF cn, r, t, n, o
<1>19. Fine(b, conn[c], toA'[c], toC[c], c)  BY <1>6, <1>13, <1>14, <1>15, <1>18 DEF Fine
<1>20. Books(b, toA', toC)  BY <1>5, <1>14, <1>16, <1>17, <1>19, BooksRow
<1>21. QED  BY <1>2, <1>4, <1>20, BooksNext

\* A wait is over, after which the books of agent b are in order.
LEMMA EndAskBooks ==
  ASSUME NEW W, BInv(W), LInv, Waiting, NEW a, EndAsk(a), Keep, UNCHANGED <<conn, toA>>,
         Books([a EXCEPT !.ask = NoAsk], toA, toC)
  PROVE  LInv'
<1> DEFINE b == [a EXCEPT !.ask = NoAsk]
           d == ag.ask.to
           m == Msg(AnswerTo(ag.ask.k), NoId, 0)
<1>1. ag' = b /\ Books(b, toA, toC) /\ UNCHANGED <<cl, toA>>  BY DEF EndAsk, Keep
<1>2. CASE d = None
  <2>1. UNCHANGED toC  BY <1>2 DEF EndAsk
  <2> HIDE DEF b
  <2>2. Books(b, toA', toC')  BY <1>1, <2>1
  <2>3. QED  BY <1>1, <2>2, BooksNext
<1>3. CASE d # None
  <2>1. Send(d, m)  BY <1>3 DEF EndAsk
  <2>2. Lines(W) /\ NoId \in W  BY DEF BInv, Lines
  <2>3. d \in Clients /\ ag.ask.k \in Askers  BY <1>3 DEF BInv, Queues, Asks
  <2>4. m \in ToClient(W)
    <3>1. AnswerTo(ag.ask.k) \in Answers  BY <2>3, AnswerTypes DEF Requests, Askers
    <3>2. QED  BY <2>2, <3>1, MsgTypes
  <2>5. ~Question(m)
    <3>1. m.k = AnswerTo(ag.ask.k)  BY DEF Msg
    <3>2. AnswerTo(ag.ask.k) \notin {"get", "got"}  BY <2>3 DEF AnswerTo, Askers
    <3>3. QED  BY <3>1, <3>2 DEF Question
  <2> HIDE DEF b, d, m
  <2>6. Books(b, toA, toC')  BY <1>1, <2>1, <2>2, <2>3, <2>4, <2>5, BooksSend
  <2>7. Books(b, toA', toC')  BY <1>1, <2>6
  <2>8. QED  BY <1>1, <2>7, BooksNext
<1>4. QED  BY <1>2, <1>3

LEMMA AskPollBooks ==
  ASSUME NEW W, BInv(W), LInv, AskPoll
  PROVE  LInv'
<1> DEFINE c == ag.ask.c
           m == Head(ag.buf[c])
           B == [ag.buf EXCEPT ![c] = Tail(@)]
           a == [ag EXCEPT !.buf = B]
<1>1. Contexts(ag) /\ Queues(ag, W) /\ Lines(W)  BY DEF BInv
<1>2. /\ Waiting /\ ag.ask.poll /\ ag.buf[c] # <<>> /\ Keep /\ UNCHANGED <<conn, toA, asked>>
  BY DEF AskPoll
<1>3. [ag EXCEPT !.buf[c] = Tail(@)] = a  BY <1>1 DEF Contexts, AgentFields
<1>4. \/ /\ m.k = "got" /\ ag.tmo[c] = 0
         /\ EndAsk([a EXCEPT !.wrong = @ \/ m.q # ag.ask.q])
      \/ /\ m.k = "got" /\ ag.tmo[c] > 0 /\ ag' = process_message(a, c, m, "none")
         /\ UNCHANGED toC
      \/ m.k = "reset" /\ ag' = process_message(a, c, m, "none") /\ Answer(a, c, m)
      \/ m.k # "got" /\ ag' = [a EXCEPT !.rcv[c] = Append(@, m)] /\ UNCHANGED toC
  BY <1>3 DEF AskPoll
<1>5. ag.up /\ c \in ag.lst /\ c \in Clients /\ ag.ask \in Asks  BY <1>2, WaitingAsks
<1>6. ag.ask.c = c  OBVIOUS
<1> DEFINE cn == conn[c]  r == ag.rcv[c]  l == ag.buf[c]  s == toA[c]  t == toC[c]
           n == ag.tmo[c]  o == ag.ask.q  v == Append(r, m)
<1>7. Asked(cn, r, l, s, t, n, TRUE, o)
  <2>1. ag.ask.poll = TRUE  BY <1>2, <1>5 DEF Asks
  <2>2. Asked(cn, r, l, s, t, n, ag.ask.poll, o)  BY <1>2, WaitingAsks
  <2>3. QED  BY <2>1, <2>2
<1> HIDE DEF c
<1>8. m \in ToAgent(W) /\ DOMAIN ag.buf = Clients /\ DOMAIN ag.rcv = Clients
  BY <1>1, <1>2, <1>5, Taken DEF Queues
<1>9. B[c] = Tail(l) /\ \A d \in Clients \ {c} : B[d] = ag.buf[d]  BY <1>5, <1>8
<1>10. Pops(l, m, B[c])  BY <1>2, <1>5, <1>9, RowTypes, TailPops
<1>11. Gets(r, m, v)  BY <1>5, <1>8, RowTypes, AppendGets
<1>12. Seen(r) /\ Seen(s) /\ Seen(t) /\ n \in Nat  BY <1>5, RowTypes
<1> HIDE DEF m, B
<1>13. /\ DOMAIN a = AgentFields /\ a.rcv = ag.rcv /\ a.buf = B /\ a.ask = ag.ask
       /\ a.up = ag.up /\ a.lst = ag.lst /\ a.due = ag.due /\ a.tbl = ag.tbl
       /\ a.wrong = ag.wrong /\ a.tmo = ag.tmo
  BY <1>1 DEF Contexts, AgentFields
<1> HIDE DEF a, cn, r, l, s, t, n, o, v
<1>14. Books(ag, toA, toC) /\ ag.tmo \in [Clients -> Nat] /\ ag.wrong = FALSE /\ c # None
  BY <1>5, BooksNow, OwnerAssumption DEF Books, Guests
<1>15. UNCHANGED cl  BY <1>2 DEF Keep
<1>16. CASE m.k = "got" /\ ag.tmo[c] = 0 /\ EndAsk([a EXCEPT !.wrong = @ \/ m.q # ag.ask.q])
  <2> DEFINE w == a.wrong \/ m.q # ag.ask.q
             e == [a EXCEPT !.wrong = w]
             b == [e EXCEPT !.ask = NoAsk]
  <2>1. [a EXCEPT !.wrong = @ \/ m.q # ag.ask.q] = e  OBVIOUS
  <2>2. Question(m)  BY <1>16 DEF Question
  <2>3. n = 0  BY <1>16 DEF n
  <2>4. m.q = o /\ At(cn, r, B[c], s, t, 0)  BY <1>7, <1>10, <1>12, <2>2, <2>3, RightAnswer
  <2>5. w = FALSE  BY <1>13, <1>14, <2>4 DEF o
  <2>6. EndAsk(e)  BY <1>16, <2>1
  <2> HIDE DEF w
  <2>7. DOMAIN e = AgentFields /\ \A f \in AgentFields \ {"wrong"} : e[f] = a[f]
    BY <1>13
  <2>8. e.wrong = w  BY <1>13 DEF AgentFields
  <2> HIDE DEF e
  <2>9. /\ b.rcv = a.rcv /\ b.buf = a.buf /\ b.ask = NoAsk /\ b.up = a.up /\ b.lst = a.lst
        /\ b.due = a.due /\ b.tbl = a.tbl /\ b.wrong = FALSE /\ b.tmo = a.tmo
    BY <2>5, <2>7, <2>8 DEF AgentFields
  <2> HIDE DEF b
  <2>10. NoAsk.c = None  BY DEF NoAsk
  <2>11. Others(ag, b, c) /\ b.tmo \in [Clients -> Nat]
    BY <1>5, <1>6, <1>9, <1>13, <1>14, <2>9, <2>10 DEF Others
  <2>12. At(conn[c], b.rcv[c], b.buf[c], toA[c], toC[c], b.tmo[c])
    BY <1>13, <2>3, <2>4, <2>9 DEF cn, r, s, t, n
  <2>13. Fine(b, conn[c], toA[c], toC[c], c)  BY <1>14, <2>9, <2>10, <2>12 DEF Fine
  <2>14. Books(b, toA, toC)  BY <1>5, <1>14, <2>11, <2>13, BooksRow
  <2>15. QED  BY <1>2, <2>6, <2>14, EndAskBooks DEF b
<1>17. CASE m.k = "got" /\ ag.tmo[c] > 0 /\ ag' = process_message(a, c, m, "none")
            /\ UNCHANGED toC
  <2> DEFINE b == process_message(a, c, m, "none")
  <2>1. ag' = b  BY <1>17
  <2>2. OneCame(a, b, c)
    <3>1. DOMAIN a = AgentFields /\ a.tmo \in [Clients -> Nat] /\ m.k = "got"
      BY <1>13, <1>14, <1>17
    <3>2. QED  BY <1>5, <3>1, GotOne
  <2> HIDE DEF b
  <2>3. Question(m) /\ n > 0  BY <1>17 DEF Question, n
  <2>4. Asked(cn, r, B[c], s, t, n - 1, TRUE, o)
    BY <1>7, <1>10, <1>11, <1>12, <2>3, PollKeeps
  <2>5. Others(ag, b, c) /\ b.tmo \in [Clients -> Nat]
    BY <1>5, <1>6, <1>9, <1>13, <1>14, <2>2 DEF Others, OneCame
  <2>6. b.ask = ag.ask /\ ag.ask.poll = TRUE /\ b.tmo[c] = n - 1 /\ b.rcv[c] = r /\ b.buf[c] = B[c]
    BY <1>2, <1>5, <1>13, <2>2, <2>3 DEF OneCame, Asks, n, r
  <2>7. Fine(b, conn[c], toA[c], toC[c], c)  BY <1>6, <2>4, <2>6 DEF Fine, cn, s, t, o
  <2>8. Books(b, toA, toC)  BY <1>5, <1>14, <2>5, <2>7, BooksRow
  <2>9. Books(b, toA', toC')  BY <1>2, <1>17, <2>8
  <2>10. QED  BY <1>2, <1>15, <2>1, <2>9, BooksNext
<1>18. m.k # "got" => /\ ~Question(m)
                      /\ Asked(cn, r, B[c], s, t, n, TRUE, o) /\ Asked(cn, v, B[c], s, t, n, TRUE, o)
  <2>1. m.k # "got" => ~Question(m)  BY <1>8 DEF Question, ToAgent, Requests
  <2>2. QED  BY <1>7, <1>10, <1>11, <1>12, <2>1, PollKeeps
<1>19. ag.ask.poll = TRUE  BY <1>2, <1>5 DEF Asks
<1>20. CASE m.k = "reset" /\ ag' = process_message(a, c, m, "none") /\ Answer(a, c, m)
  <2>1. ag' = a  BY <1>20, ProcessCases
  <2>2. Others(ag, a, c) /\ a.tmo \in [Clients -> Nat]
    BY <1>5, <1>6, <1>9, <1>13, <1>14 DEF Others
  <2>3. Fine(a, conn[c], toA[c], toC[c], c)
    BY <1>6, <1>13, <1>18, <1>19, <1>20 DEF Fine, cn, r, s, t, n, o
  <2>4. Books(a, toA, toC)  BY <1>5, <1>14, <2>2, <2>3, BooksRow
  <2>5. m.k \in Requests \ {"got"} /\ m.k # "register"  BY <1>20 DEF Requests
  <2>6. Books(a, toA, toC')  BY <1>5, <1>20, <2>4, <2>5, AnswerBooks
  <2>7. Books(a, toA', toC')  BY <1>2, <2>6
  <2>8. QED  BY <1>2, <1>15, <2>1, <2>7, BooksNext
<1>21. CASE m.k # "got" /\ ag' = [a EXCEPT !.rcv[c] = Append(@, m)] /\ UNCHANGED toC
  <2> DEFINE R == [ag.rcv EXCEPT ![c] = v]  b == [a EXCEPT !.rcv = R]
  <2>1. ag' = b  BY <1>13, <1>21 DEF AgentFields, r, v
  <2>2. R[c] = v /\ \A d \in Clients \ {c} : R[d] = ag.rcv[d]  BY <1>5, <1>8
  <2> HIDE DEF R
  <2>3. /\ b.rcv = R /\ b.buf = a.buf /\ b.ask = a.ask /\ b.up = a.up /\ b.lst = a.lst
        /\ b.due = a.due /\ b.tbl = a.tbl /\ b.wrong = a.wrong /\ b.tmo = a.tmo
    BY <1>13 DEF AgentFields
  <2> HIDE DEF b
  <2>4. Others(ag, b, c) /\ b.tmo \in [Clients -> Nat]
    BY <1>5, <1>6, <1>9, <1>13, <1>14, <2>2, <2>3 DEF Others
  <2>5. Fine(b, conn[c], toA[c], toC[c], c)
    BY <1>6, <1>13, <1>18, <1>19, <1>21, <2>2, <2>3 DEF Fine, cn, s, t, n, o
  <2>6. Books(b, toA, toC)  BY <1>5, <1>14, <2>4, <2>5, BooksRow
  <2>7. Books(b, toA', toC')  BY <1>2, <1>21, <2>6
  <2>8. QED  BY <1>2, <1>15, <2>1, <2>7, BooksNext
<1>22. QED  BY <1>4, <1>16, <1>17, <1>20, <1>21

LEMMA AskOverBooks ==
  ASSUME NEW W, BInv(W), LInv, AskPollEnd \/ AskTimeout \/ AskFails
  PROVE  LInv'
<1> DEFINE c == ag.ask.c
           cn == conn[c]  r == ag.rcv[c]  l == ag.buf[c]  s == toA[c]  t == toC[c]
           n == ag.tmo[c]  p == ag.ask.poll  o == ag.ask.q
<1>1. Waiting /\ Keep /\ UNCHANGED <<conn, toA, asked>>
  BY DEF AskPollEnd, AskTimeout, AskFails
<1>2. /\ ag.up /\ c \in ag.lst /\ c \in Clients /\ ag.ask \in Asks
      /\ Asked(cn, r, l, s, t, n, p, o)
  BY <1>1, WaitingAsks
<1>3. ag.ask.c = c /\ DOMAIN ag = AgentFields  BY DEF BInv, Contexts
<1> HIDE DEF c
<1>4. Seen(r) /\ Seen(l) /\ Seen(s) /\ Seen(t) /\ n \in Nat  BY <1>2, RowTypes
<1> HIDE DEF cn, r, l, s, t, n, p, o
<1>5. Books(ag, toA, toC) /\ ag.tmo \in [Clients -> Nat] /\ c # None
  BY <1>2, BooksNow, OwnerAssumption DEF Books, Guests
<1>6. NoAsk.c = None  BY DEF NoAsk
<1>7. CASE AskPollEnd
  <2> DEFINE q == [ag.ask EXCEPT !.poll = FALSE]  b == [ag EXCEPT !.ask = q]
  <2>1. ag' = b /\ l = <<>> /\ UNCHANGED <<cl, toC>>
    BY <1>3, <1>7 DEF AskPollEnd, AgentFields, Keep, l
  <2>2. q.c = c /\ q.q = o /\ q.poll = FALSE  BY <1>2, <1>3 DEF Asks, o
  <2> HIDE DEF q
  <2>3. /\ b.rcv = ag.rcv /\ b.buf = ag.buf /\ b.ask = q /\ b.up = ag.up /\ b.lst = ag.lst
        /\ b.due = ag.due /\ b.tbl = ag.tbl /\ b.wrong = ag.wrong /\ b.tmo = ag.tmo
    BY <1>3 DEF AgentFields
  <2> HIDE DEF b
  <2>4. Count(l) = 0  BY <2>1, EmptySeen
  <2>5. Asked(cn, r, l, s, t, n, FALSE, o)  BY <1>2, <2>4 DEF Asked
  <2>6. Others(ag, b, c)  BY <1>2, <1>3, <2>2, <2>3 DEF Others
  <2>7. Fine(b, conn[c], toA[c], toC[c], c)
    BY <2>2, <2>3, <2>5 DEF Fine, cn, r, l, s, t, n
  <2>8. Books(b, toA, toC)  BY <1>2, <1>5, <2>3, <2>6, <2>7, BooksRow
  <2>9. Books(b, toA', toC')  BY <1>1, <2>1, <2>8
  <2>10. QED  BY <1>1, <2>1, <2>9, BooksNext
<1>8. AskTimeout \/ AskFails => p = FALSE
  BY <1>2 DEF AskTimeout, AskFails, Asks, p
<1>9. CASE AskTimeout
  <2> DEFINE T == [ag.tmo EXCEPT ![c] = @ + 1]  a == [ag EXCEPT !.tmo = T]
             b == [a EXCEPT !.ask = NoAsk]
  <2>1. [ag EXCEPT !.tmo[ag.ask.c] = @ + 1] = a  BY <1>3 DEF AgentFields
  <2>2. EndAsk(a)  BY <1>9, <2>1 DEF AskTimeout
  <2>3. T \in [Clients -> Nat] /\ T[c] = n + 1 /\ \A d \in Clients \ {c} : T[d] = ag.tmo[d]
    BY <1>2, <1>5 DEF n
  <2> HIDE DEF T
  <2>4. /\ b.rcv = ag.rcv /\ b.buf = ag.buf /\ b.ask = NoAsk /\ b.up = ag.up /\ b.lst = ag.lst
        /\ b.due = ag.due /\ b.tbl = ag.tbl /\ b.wrong = ag.wrong /\ b.tmo = T
    BY <1>3 DEF AgentFields
  <2> HIDE DEF b
  <2>5. At(cn, r, l, s, t, n + 1)  BY <1>2, <1>4, <1>8, <1>9, GivingUp
  <2>6. Others(ag, b, c)  BY <1>2, <1>3, <1>6, <2>3, <2>4 DEF Others
  <2>7. Fine(b, conn[c], toA[c], toC[c], c)
    BY <1>5, <1>6, <2>3, <2>4, <2>5 DEF Fine, cn, r, l, s, t
  <2>8. Books(b, toA, toC)  BY <1>2, <1>5, <2>3, <2>4, <2>6, <2>7, BooksRow
  <2> HIDE DEF a
  <2>9. QED  BY <1>1, <2>2, <2>8, EndAskBooks DEF b
<1>10. CASE AskFails
  <2> DEFINE b == [ag EXCEPT !.ask = NoAsk]
  <2>1. EndAsk(ag) /\ cn = "left" /\ s = <<>>  BY <1>10 DEF AskFails, cn, s, c
  <2>2. /\ b.rcv = ag.rcv /\ b.buf = ag.buf /\ b.ask = NoAsk /\ b.up = ag.up /\ b.lst = ag.lst
        /\ b.due = ag.due /\ b.tbl = ag.tbl /\ b.wrong = ag.wrong /\ b.tmo = ag.tmo
    BY <1>3 DEF AgentFields
  <2> HIDE DEF b
  <2>3. At(cn, r, l, s, t, n)  BY <1>2, <1>4, <1>8, <1>10, <2>1, GivingUp
  <2>4. Others(ag, b, c)  BY <1>2, <1>3, <1>6, <2>2 DEF Others
  <2>5. Fine(b, conn[c], toA[c], toC[c], c)
    BY <1>5, <1>6, <2>2, <2>3 DEF Fine, cn, r, l, s, t, n
  <2>6. Books(b, toA, toC)  BY <1>2, <1>5, <2>2, <2>4, <2>5, BooksRow
  <2>7. QED  BY <1>1, <2>1, <2>6, EndAskBooks DEF b
<1>11. QED  BY <1>7, <1>9, <1>10

LEMMA PanelBooks ==
  ASSUME NEW W, BInv(W), LInv, NEW i \in Ids, PanelChangeFactory(i) \/ PanelAsks(i)
  PROVE  LInv'
<1>1. Contexts(ag) /\ Queues(ag, W)  BY DEF BInv
<1>2. ag.tbl[i] # None /\ Running  BY DEF PanelChangeFactory, PanelAsks, Found
<1>3. ag.up /\ ag.ask.c = None  BY <1>2, RunningAsks
<1>4. Books(ag, toA, toC)  BY BooksNow
<1>5. CASE PanelChangeFactory(i)
  <2>1. PICK f : \/ ag' = open_imengine(ag, i, f) /\ UNCHANGED <<toC, asked>>
                 \/ \E j \in Questioned(ag, None, Msg("key", i, 0), f) :
                      get_surrounding_string(open_imengine(ag, i, f), j, None, None)
    BY <1>5 DEF PanelChangeFactory
  <2> DEFINE b == open_imengine(ag, i, f)
  <2>2. Works(ag, b) /\ Serving(ag, b, None)  BY <1>1, <1>2, OpenWorks, OpenServes
  <2> HIDE DEF b
  <2>3. Books(b, toA, toC) /\ b.up /\ b.lst = ag.lst  BY <1>3, <1>4, <2>2, BooksServing
  <2>4. Contexts(b) /\ Queues(b, W) /\ b.ask.c = None  BY <1>1, <1>3, <2>2 DEF Works, Queues
  <2>5. Keep /\ UNCHANGED <<cl, conn, toA>>  BY <1>5 DEF PanelChangeFactory, Keep
  <2>6. CASE ag' = b /\ UNCHANGED toC
    <3>1. Books(b, toA', toC')  BY <2>3, <2>5, <2>6
    <3>2. QED  BY <2>5, <2>6, <3>1, BooksNext
  <2>7. ASSUME NEW j \in Questioned(ag, None, Msg("key", i, 0), f),
               get_surrounding_string(b, j, None, None)
        PROVE  LInv'
    <3>1. j \in Ids /\ ag.tbl[j] # None  BY QuestionedFound
    <3>2. QED  BY <2>3, <2>4, <2>5, <2>7, <3>1, AsksBooks
  <2>8. QED  BY <2>1, <2>6, <2>7 DEF b
<1>6. CASE PanelAsks(i)
  <2>1. get_surrounding_string(ag, i, None, None) /\ Keep /\ UNCHANGED <<conn, toA>>
    BY <1>6 DEF PanelAsks
  <2>2. QED  BY <1>1, <1>2, <1>3, <1>4, <2>1, AsksBooks
<1>7. QED  BY <1>5, <1>6

LEMMA BooksInit == Init => LInv
<1> SUFFICES ASSUME Init PROVE LInv  OBVIOUS
<1>1. /\ cl = [c \in Clients |-> NewClient] /\ conn = [c \in Clients |-> None]
      /\ toA = [c \in Clients |-> <<>>] /\ toC = [c \in Clients |-> <<>>] /\ ag = NoAgent
  BY DEF Init
<1>2. Guests(ag) /\ ag.lst = {}  BY <1>1, NewAgentGuests
<1>3. DOMAIN NewClient = LibFields /\ ~NewClient.up  BY DEF NewClient, LibFields
<1> HIDE DEF NewClient
<1>4. Libs /\ Conns  BY <1>1, <1>2, <1>3 DEF Libs, Conns
<1>5. ASSUME NEW c \in Clients PROVE Fine(ag, conn[c], toA[c], toC[c], c)
  <2>1. conn[c] = None /\ toA[c] = <<>> /\ toC[c] = <<>>  BY <1>1
  <2>2. ag.rcv[c] = <<>> /\ ag.buf[c] = <<>> /\ ag.tmo[c] = 0 /\ ag.ask.c # c
    BY <1>1, NewAgentGuests
  <2>3. QED  BY <2>1, <2>2, QuietRow
<1>6. QED  BY <1>2, <1>4, <1>5 DEF LInv

LEMMA BooksStep == BridgeInv /\ LInv /\ [Next]_vars => LInv'
<1> SUFFICES ASSUME BridgeInv, LInv, [Next]_vars PROVE LInv'  OBVIOUS
<1>1. PICK W : BInv(W)  BY DEF BridgeInv
<1>2. ASSUME NEW c \in Clients, Calls(c) \/ Library(c) \/ ClientDies(c) PROVE LInv'
  BY <1>1, <1>2, CallsBooks, LibraryBooks, DiesBooks
<1>3. ASSUME NEW c \in Clients, Accept(c) \/ Read(c) \/ EndVisit(c) PROVE LInv'
  BY <1>1, <1>3, AcceptBooks, ReadBooks, RoundBooks
<1>4. ASSUME NEW c \in Clients, ReadEnd(c) PROVE LInv'
  <2>1. Running /\ c \in ag.lst /\ remove_client_listener(c)  BY <1>4 DEF ReadEnd
  <2>2. QED  BY <1>1, <2>1, RemoveBooks
<1>5. ASSUME NEW c \in Clients, Serve(c) PROVE LInv'
  <2> DEFINE Fresh(a) == NewId([a EXCEPT !.rcv[c] = Tail(@)])
  <2>0. PICK v : v = Fresh(ag)  OBVIOUS
  <2> DEFINE V == W \cup {v}
  <2>1. W \subseteq V /\ NewId([ag EXCEPT !.rcv[c] = Tail(@)]) \in V  BY <2>0
  <2> HIDE DEF V, Fresh
  <2>2. BInv(V)  BY <1>1, <2>1, MoreIds
  <2>3. QED  BY <1>5, <2>1, <2>2, ServeBooks
<1>6. CASE Round \/ Wait \/ AskTimeout \/ AskFails
  BY <1>1, <1>6, RoundBooks, AskReadBooks, AskPollBooks, AskOverBooks DEF Wait
<1>7. ASSUME NEW i \in Ids, PanelChangeFactory(i) \/ PanelAsks(i) PROVE LInv'
  BY <1>1, <1>7, PanelBooks
<1>8. CASE AgentCrash  BY <1>1, <1>8, CrashBooks DEF AgentCrash
<1>9. CASE UNCHANGED vars
  <2>1. UNCHANGED <<ag, cl, conn, toA, toC>>  BY <1>9 DEF vars
  <2>2. Books(ag, toA', toC')  BY <2>1, BooksNow
  <2>3. QED  BY <2>1, <2>2, BooksNext
<1>10. QED  BY <1>2, <1>3, <1>4, <1>5, <1>6, <1>7, <1>8, <1>9 DEF Next, Listener

\* An engine that asks an application for its surrounding text is never given the late
\* answer to an older question (get_surrounding_timeout_count): whatever the order of
\* timeouts, answers, requests and panel events, with any number of applications and
\* questions, and when applications or the agent die in between.
THEOREM AnswerMatchesAlways == Spec => []AnswerMatches
<1>1. LInv => AnswerMatches  BY DEF LInv, Guests, AnswerMatches
<1>2. QED  BY <1>1, BridgeInit, BridgeNext, BooksInit, BooksStep, PTL DEF Spec

-----------------------------------------------------------------------------
(* The pool of ids.                                                        *)

\* The ids of a set, in order: each of them once.
LEMMA AscendingLists ==
  ASSUME NEW S, IsFiniteSet(S), S \subseteq Int
  PROVE  /\ Ascending(S) \in Seq(S)
         /\ \A i \in S : \E p \in 1..Len(Ascending(S)) : Ascending(S)[p] = i
         /\ \A p, q \in 1..Len(Ascending(S)) : Ascending(S)[p] = Ascending(S)[q] => p = q
<1> DEFINE n == Cardinality(S)
           Under(i) == {j \in S : j < i}
           f == [i \in S |-> Cardinality(Under(i)) + 1]
           G == Ascending(S)
<1>1. n \in Nat  BY FS_CardinalityType
<1>2. \A i \in S : IsFiniteSet(Under(i)) /\ Cardinality(Under(i)) \in Nat
  <2>1. \A i \in S : Under(i) \in SUBSET S  OBVIOUS
  <2> HIDE DEF Under
  <2>2. QED  BY <2>1, FS_Subset, FS_CardinalityType
<1>3. ASSUME NEW i \in S PROVE Cardinality(Under(i)) <= n - 1
  <2>1. IsFiniteSet(S \ {i}) /\ Cardinality(S \ {i}) = n - 1  BY FS_RemoveElement
  <2>2. Under(i) \in SUBSET (S \ {i})  OBVIOUS
  <2> HIDE DEF Under, n
  <2>3. QED  BY <2>1, <2>2, FS_Subset
<1>4. ASSUME NEW i \in S, NEW j \in S, i < j PROVE Cardinality(Under(i)) < Cardinality(Under(j))
  <2>1. Under(i) \in SUBSET Under(j) /\ i \in Under(j) /\ i \notin Under(i)
    <3>1. i \in Int /\ j \in Int /\ ~(i < i)  OBVIOUS
    <3>2. \A k \in S : k < i => k < j  BY <1>4, <3>1
    <3>3. QED  BY <1>4, <3>1, <3>2
  <2>2. IsFiniteSet(Under(j)) /\ Cardinality(Under(i)) \in Nat /\ Cardinality(Under(j)) \in Nat
    BY <1>2
  <2> HIDE DEF Under
  <2>3. /\ Cardinality(Under(i)) <= Cardinality(Under(j))
        /\ Cardinality(Under(j)) = Cardinality(Under(i)) => Under(j) = Under(i)
    BY <2>1, <2>2, FS_Subset
  <2>4. Under(j) # Under(i)  BY <2>1
  <2>5. QED  BY <2>2, <2>3, <2>4
<1>5. f \in [S -> 1..n]
  <2> HIDE DEF Under, n
  <2>1. QED  BY <1>1, <1>2, <1>3
<1>6. \A i, j \in S : f[i] = f[j] => i = j
  <2> SUFFICES ASSUME NEW i \in S, NEW j \in S, f[i] = f[j] PROVE i = j  OBVIOUS
  <2>1. i \in Int /\ j \in Int  OBVIOUS
  <2> HIDE DEF Under, n
  <2>2. Cardinality(Under(i)) = Cardinality(Under(j))  BY <1>2
  <2>3. ~(i < j) /\ ~(j < i)  BY <1>2, <1>4, <2>2
  <2>4. QED  BY <2>1, <2>3
<1>7. \A k \in 1..n : \E i \in S : f[i] = k
  <2>1. f \in Injection(S, 1..n)  BY <1>5, <1>6, Fun_IsInj
  <2>2. IsFiniteSet(1..n) /\ Cardinality(1..n) = n  BY <1>1, FS_Interval
  <2> HIDE DEF f
  <2>3. f \in Surjection(S, 1..n)  BY <2>1, <2>2, FS_Injection
  <2>4. QED  BY <2>3, Fun_SurjectionProperties
<1>8. G = [k \in 1..n |-> CHOOSE i \in S : Cardinality(Under(i)) = k - 1]  BY DEF Ascending
<1>9. \A k \in 1..n : G[k] \in S /\ f[G[k]] = k
  <2> SUFFICES ASSUME NEW k \in 1..n PROVE G[k] \in S /\ f[G[k]] = k  OBVIOUS
  <2> HIDE DEF Under, n, G
  <2>1. PICK i \in S : Cardinality(Under(i)) = k - 1  BY <1>2, <1>7
  <2>2. G[k] \in S /\ Cardinality(Under(G[k])) = k - 1  BY <1>8, <2>1
  <2>3. QED  BY <2>2
<1> HIDE DEF f, G, n
<1>10. G \in [1..n -> S]  BY <1>8, <1>9
<1>11. G \in Seq(S) /\ Len(G) = n  BY <1>1, <1>10
<1>12. \A i \in S : G[f[i]] = i  BY <1>5, <1>6, <1>9
<1>13. \A i \in S : \E p \in 1..n : G[p] = i  BY <1>5, <1>12
<1>14. \A p, q \in 1..n : G[p] = G[q] => p = q  BY <1>9
<1>15. QED  BY <1>11, <1>13, <1>14 DEF G

\* The ids in use below n: F maps each to the context of which it is the id.
Uses(F, T, n) ==
  /\ DOMAIN F = Ids /\ n \in Nat /\ n <= Cardinality(Ctxs)
  /\ \A i \in Ids : T[i] # None => F[i] \in Ctxs /\ Owner[F[i]] = T[i] /\ i < n
  /\ \A i, j \in Ids : T[i] # None /\ T[j] # None /\ F[i] = F[j] => i = j

\* s lists the other ids below n, each of them once.
Spares(s, T, n) ==
  /\ s \in Seq(Ids)
  /\ \A p \in 1..Len(s) : T[s[p]] = None /\ s[p] < n
  /\ \A p, q \in 1..Len(s) : s[p] = s[q] => p = q
  /\ \A i \in Ids : i < n /\ T[i] = None => \E p \in 1..Len(s) : s[p] = i

Pool(a, F) == Uses(F, a.tbl, a.size) /\ Spares(a.free, a.tbl, a.size)

\* Context x has no id in use.
Fresh(F, T, x) == \A i \in Ids : T[i] # None => F[i] # x

LEMMA IdsAre ==
  /\ Cardinality(Ctxs) \in Nat /\ \A i : i \in Ids <=> i \in Nat /\ i < Cardinality(Ctxs)
  /\ IsFiniteSet(Ids)
<1>1. Cardinality(Ctxs) \in Nat  BY FiniteAssumption, FS_CardinalityType
<1>2. IsFiniteSet(Ids)  BY <1>1, FS_Interval DEF Ids
<1>3. QED  BY <1>1, <1>2 DEF Ids

\* While a context has no id, not every id is in use.
LEMMA RoomLeft ==
  ASSUME NEW F, NEW T, NEW n, Uses(F, T, n), Spares(<<>>, T, n), NEW x \in Ctxs, Fresh(F, T, x)
  PROVE  n \in Ids
<1> DEFINE f == [k \in 1..n |-> F[k - 1]]  S == Ctxs \ {x}
<1>1. n \in Nat /\ n <= Cardinality(Ctxs) /\ Cardinality(Ctxs) \in Nat  BY IdsAre DEF Uses
<1>2. \A k \in 1..n : k - 1 \in Ids /\ k - 1 < n  BY <1>1, IdsAre
<1>3. \A k \in 1..n : T[k - 1] # None
  <2>1. \A i \in Ids : ~(i < n /\ T[i] = None)  BY DEF Spares
  <2>2. QED  BY <1>2, <2>1
<1>4. f \in [1..n -> S]  BY <1>2, <1>3 DEF Uses, Fresh
<1>5. \A k, l \in 1..n : f[k] = f[l] => k = l
  <2> SUFFICES ASSUME NEW k \in 1..n, NEW l \in 1..n, f[k] = f[l] PROVE k = l  OBVIOUS
  <2>1. F[k - 1] = F[l - 1]  OBVIOUS
  <2>2. k - 1 = l - 1  BY <1>2, <1>3, <2>1 DEF Uses
  <2>3. QED  BY <1>1, <2>2
<1>6. f \in Injection(1..n, S)  BY <1>4, <1>5, Fun_IsInj
<1>7. IsFiniteSet(S) /\ Cardinality(S) = Cardinality(Ctxs) - 1
  BY FiniteAssumption, FS_RemoveElement
<1>8. Cardinality(1..n) = n  BY <1>1, FS_Interval
<1> HIDE DEF f, S
<1>9. n <= Cardinality(Ctxs) - 1  BY <1>6, <1>7, <1>8, FS_Injection
<1>10. QED  BY <1>1, <1>9, IdsAre

\* A context for client c is allocated: it gets an id that was not in use.
LEMMA AllocPools ==
  ASSUME NEW a, Contexts(a), NEW F, Pool(a, F), NEW c \in Clients, NEW x \in Ctxs,
         Owner[x] = c, Fresh(F, a.tbl, x)
  PROVE  LET n == NewId(a)  b == alloc_imcontext(a, c)
         IN /\ n \in Ids /\ a.tbl[n] = None /\ b.tbl = [a.tbl EXCEPT ![n] = c]
            /\ Pool(b, [F EXCEPT ![n] = x])
<1> DEFINE n == NewId(a)
           T == [a.tbl EXCEPT ![n] = c]
           z == IF a.free = <<>> THEN a.size + 1 ELSE a.size
           r == IF a.free = <<>> THEN a.free ELSE Front(a.free)
           b == alloc_imcontext(a, c)
           G == [F EXCEPT ![n] = x]
<1>1. Uses(F, a.tbl, a.size) /\ Spares(a.free, a.tbl, a.size)  BY DEF Pool
<1>2. a.tbl \in [Ids -> Clients \cup {None}] /\ c # None  BY OwnerAssumption DEF Contexts
<1>3. b = [a EXCEPT !.tbl = T, !.size = z, !.free = r]
  BY DEF alloc_imcontext, Contexts, AgentFields
<1>4. a.size \in Nat /\ a.size <= Cardinality(Ctxs) /\ DOMAIN F = Ids  BY <1>1 DEF Uses
<1>5. n \in Ids /\ a.tbl[n] = None /\ n < z /\ z <= Cardinality(Ctxs) /\ z \in Nat
      /\ \A i \in Ids : i < z => i < a.size \/ i = n
  <2>1. CASE a.free = <<>>
    <3>1. n = a.size /\ z = a.size + 1  BY <2>1 DEF NewId
    <3>2. n \in Ids  BY <1>1, <2>1, <3>1, RoomLeft
    <3> HIDE DEF n, z
    <3>3. a.tbl[n] = None  BY <1>1, <1>4, <3>1, <3>2 DEF Uses
    <3>4. QED  BY <1>4, <3>1, <3>2, <3>3, IdsAre
  <2>2. CASE a.free # <<>>
    <3>1. n = a.free[Len(a.free)] /\ z = a.size  BY <2>2 DEF NewId, Last
    <3>2. Len(a.free) \in 1..Len(a.free) /\ a.free \in Seq(Ids)  BY <1>1, <2>2 DEF Spares
    <3> HIDE DEF n, z
    <3>3. n \in Ids /\ a.tbl[n] = None /\ n < a.size  BY <1>1, <3>1, <3>2 DEF Spares
    <3>4. QED  BY <1>4, <3>1, <3>3
  <2>3. QED  BY <2>1, <2>2
<1>6. /\ r \in Seq(Ids) /\ \A p \in 1..Len(r) : p \in 1..Len(a.free) /\ r[p] = a.free[p] /\ r[p] # n
      /\ \A p \in 1..Len(a.free) : p \in 1..Len(r) \/ a.free[p] = n
  <2>1. CASE a.free = <<>>  BY <2>1
  <2>2. CASE a.free # <<>>
    <3>1. n = a.free[Len(a.free)] /\ r = SubSeq(a.free, 1, Len(a.free) - 1)
      BY <2>2 DEF NewId, Last, Front
    <3>2. a.free \in Seq(Ids) /\ Len(a.free) \in Nat \ {0}  BY <1>1, <2>2 DEF Spares
    <3> HIDE DEF n, r
    <3>3. /\ r \in Seq(Ids) /\ Len(r) = Len(a.free) - 1
          /\ \A p \in 1..Len(r) : p \in 1..Len(a.free) /\ r[p] = a.free[p]
      BY <3>1, <3>2
    <3>4. \A p \in 1..Len(r) : r[p] # n
      BY <1>1, <3>1, <3>2, <3>3 DEF Spares
    <3>5. QED  BY <3>1, <3>2, <3>3, <3>4
  <2>3. QED  BY <2>1, <2>2
<1> HIDE DEF n, z, r, b
<1>7. \A i \in Ids : T[i] = IF i = n THEN c ELSE a.tbl[i]  BY <1>2
<1>8. DOMAIN G = Ids /\ \A i \in Ids : G[i] = IF i = n THEN x ELSE F[i]  BY <1>4
<1> HIDE DEF T, G
<1>9. b.tbl = T /\ b.size = z /\ b.free = r  BY <1>3 DEF Contexts, AgentFields
<1>10. Uses(G, T, z)
  <2>1. \A i \in Ids : i \in Nat  BY IdsAre
  <2>2. \A i \in Ids : T[i] # None => G[i] \in Ctxs /\ Owner[G[i]] = T[i] /\ i < z
    <3> SUFFICES ASSUME NEW i \in Ids, T[i] # None
                 PROVE  G[i] \in Ctxs /\ Owner[G[i]] = T[i] /\ i < z
      OBVIOUS
    <3>1. CASE i = n  BY <1>5, <1>7, <1>8, <3>1
    <3>2. CASE i # n
      <4>1. F[i] \in Ctxs /\ Owner[F[i]] = a.tbl[i] /\ i < a.size  BY <1>1, <1>7, <3>2 DEF Uses
      <4>2. a.size <= z  BY <1>4 DEF z
      <4>3. QED  BY <1>4, <1>5, <1>7, <1>8, <2>1, <3>2, <4>1, <4>2
    <3>3. QED  BY <3>1, <3>2
  <2>3. \A i, j \in Ids : T[i] # None /\ T[j] # None /\ G[i] = G[j] => i = j
    BY <1>1, <1>7, <1>8 DEF Uses, Fresh
  <2>4. QED  BY <1>5, <1>8, <2>2, <2>3 DEF Uses
<1>11. Spares(r, T, z)
  <2>1. \A i \in Ids : i \in Nat  BY IdsAre
  <2>2. ASSUME NEW p \in 1..Len(r) PROVE T[r[p]] = None /\ r[p] < z
    <3>1. r[p] \in Ids /\ r[p] = a.free[p] /\ r[p] # n /\ p \in 1..Len(a.free)  BY <1>6
    <3>2. a.tbl[r[p]] = None /\ r[p] < a.size  BY <1>1, <3>1 DEF Spares
    <3>3. a.size <= z  BY <1>4 DEF z
    <3>4. QED  BY <1>4, <1>5, <1>7, <2>1, <3>1, <3>2, <3>3
  <2>3. \A p, q \in 1..Len(r) : r[p] = r[q] => p = q  BY <1>1, <1>6 DEF Spares
  <2>4. ASSUME NEW i \in Ids, i < z, T[i] = None PROVE \E p \in 1..Len(r) : r[p] = i
    <3>1. i # n /\ i < a.size /\ a.tbl[i] = None  BY <1>2, <1>5, <1>7, <2>4
    <3>2. PICK p \in 1..Len(a.free) : a.free[p] = i  BY <1>1, <3>1 DEF Spares
    <3>3. p \in 1..Len(r)  BY <1>6, <3>1, <3>2
    <3>4. QED  BY <1>6, <3>2, <3>3
  <2>5. QED  BY <1>6, <2>2, <2>3, <2>4 DEF Spares
<1>12. Pool(b, G)  BY <1>9, <1>10, <1>11 DEF Pool
<1>13. QED  BY <1>5, <1>9, <1>12 DEF n, T, b, G

\* Contexts are deleted, and their ids are to be used again.
LEMMA DestroyPools ==
  ASSUME NEW a, Contexts(a), NEW F, Pool(a, F), NEW S \in SUBSET Ids,
         \A i \in S : a.tbl[i] # None
  PROVE  Pool(Destroy(a, S), F)
<1> DEFINE b == Destroy(a, S)
           T == [i \in Ids |-> IF i \in S THEN None ELSE a.tbl[i]]
           s == a.free
           g == Ascending(S)
           r == s \o g
           n == a.size
<1>1. Uses(F, a.tbl, n) /\ Spares(s, a.tbl, n)  BY DEF Pool
<1>2. b.tbl = T /\ b.size = n /\ b.free = r
  BY DEF Destroy, Contexts, AgentFields
<1>3. IsFiniteSet(S) /\ S \subseteq Int
  <2>1. IsFiniteSet(Ids) /\ Ids \subseteq Int  BY IdsAre
  <2>2. QED  BY <2>1, FS_Subset
<1>4. /\ g \in Seq(S) /\ \A i \in S : \E p \in 1..Len(g) : g[p] = i
      /\ \A p, q \in 1..Len(g) : g[p] = g[q] => p = q
  BY <1>3, AscendingLists
<1>5. \A i \in Ids : T[i] = IF i \in S THEN None ELSE a.tbl[i]  OBVIOUS
<1>6. s \in Seq(Ids) /\ \A p \in 1..Len(s) : a.tbl[s[p]] = None /\ s[p] < n  BY <1>1 DEF Spares
<1> HIDE DEF b, T, g, s, n
<1>7. g \in Seq(Ids)  BY <1>4
<1>8. r \in Seq(Ids) /\ Len(r) = Len(s) + Len(g) /\ Len(s) \in Nat /\ Len(g) \in Nat
      /\ \A p \in 1..Len(r) : r[p] = IF p <= Len(s) THEN s[p] ELSE g[p - Len(s)]
  BY <1>6, <1>7
<1> HIDE DEF r
<1>9. \A p \in 1..Len(r) : p \in 1..Len(s) \/ p - Len(s) \in 1..Len(g)  BY <1>8
<1>10. Uses(F, T, n)  BY <1>1, <1>5 DEF Uses
<1>11. Spares(r, T, n)
  <2>1. ASSUME NEW p \in 1..Len(r)
        PROVE  \/ p \in 1..Len(s) /\ r[p] = s[p] /\ r[p] \in Ids \ S
               \/ p \notin 1..Len(s) /\ r[p] = g[p - Len(s)] /\ p - Len(s) \in 1..Len(g) /\ r[p] \in S
    <3>1. CASE p \in 1..Len(s)
      <4>1. r[p] = s[p] /\ s[p] \in Ids /\ a.tbl[s[p]] = None  BY <1>6, <1>8, <3>1
      <4>2. QED  BY <3>1, <4>1
    <3>2. CASE p \notin 1..Len(s)
      <4>1. p - Len(s) \in 1..Len(g) /\ r[p] = g[p - Len(s)]  BY <1>8, <1>9, <3>2
      <4>2. r[p] \in S  BY <1>4, <4>1
      <4>3. QED  BY <3>2, <4>1, <4>2
    <3>3. QED  BY <3>1, <3>2
  <2>2. \A p \in 1..Len(r) : T[r[p]] = None /\ r[p] < n
    <3>1. \A i \in S : T[i] = None /\ i < n  BY <1>1, <1>5 DEF Uses
    <3>2. QED  BY <1>5, <1>6, <2>1, <3>1
  <2>3. \A p, q \in 1..Len(r) : r[p] = r[q] => p = q
    <3> SUFFICES ASSUME NEW p \in 1..Len(r), NEW q \in 1..Len(r), r[p] = r[q] PROVE p = q  OBVIOUS
    <3>1. CASE p \in 1..Len(s) /\ q \in 1..Len(s)  BY <1>1, <2>1, <3>1 DEF Spares
    <3>2. CASE p \notin 1..Len(s) /\ q \notin 1..Len(s)
      <4>1. /\ p - Len(s) \in 1..Len(g) /\ r[p] = g[p - Len(s)]
            /\ q - Len(s) \in 1..Len(g) /\ r[q] = g[q - Len(s)]
        BY <2>1, <3>2
      <4>2. p - Len(s) = q - Len(s)  BY <1>4, <4>1
      <4>3. QED  BY <1>8, <4>2
    <3>3. QED  BY <2>1, <3>1, <3>2
  <2>4. ASSUME NEW i \in Ids, i < n, T[i] = None PROVE \E p \in 1..Len(r) : r[p] = i
    <3>1. CASE i \in S
      <4>1. PICK p \in 1..Len(g) : g[p] = i  BY <1>4, <3>1
      <4>2. p + Len(s) \in 1..Len(r) /\ ~(p + Len(s) <= Len(s)) /\ p + Len(s) - Len(s) = p  BY <1>8
      <4>3. QED  BY <1>8, <4>1, <4>2
    <3>2. CASE i \notin S
      <4>1. PICK p \in 1..Len(s) : s[p] = i  BY <1>1, <1>5, <2>4, <3>2 DEF Spares
      <4>2. p \in 1..Len(r) /\ p <= Len(s)  BY <1>8
      <4>3. QED  BY <1>8, <4>1, <4>2
    <3>3. QED  BY <3>1, <3>2
  <2>5. QED  BY <1>8, <2>2, <2>3, <2>4 DEF Spares
<1>12. QED  BY <1>2, <1>10, <1>11 DEF Pool, b

\* From a to b the ids in use stay.
Tables(a, b) == b.tbl = a.tbl /\ b.free = a.free /\ b.size = a.size

LEMMA TablesPool ==
  ASSUME NEW a, NEW b, Tables(a, b), NEW F, Pool(a, F)
  PROVE  Pool(b, F)
BY DEF Tables, Pool

LEMMA FocusOutTables ==
  ASSUME NEW a, Contexts(a), NEW i
  PROVE  Tables(a, focus_out(a, i))
BY DEF focus_out, Tables, Contexts, AgentFields

LEMMA FocusInTables ==
  ASSUME NEW a, Contexts(a), NEW i
  PROVE  Tables(a, focus_in(a, i))
<1> DEFINE b == IF shared /\ a.fdata # NoId THEN focus_out(a, a.fdata) ELSE a
           t == [b EXCEPT !.fdata = IF shared THEN i ELSE @, !.foc = @ \cup {i}]
<1>1. Tables(a, b)
  <2>1. Tables(a, focus_out(a, a.fdata))  BY FocusOutTables
  <2>2. Tables(a, a)  BY DEF Tables
  <2>3. QED  BY <2>1, <2>2
<1>2. DOMAIN b = AgentFields  BY FocusOutWorks DEF Works, Contexts
<1>3. focus_in(a, i) = t  BY DEF focus_in
<1> HIDE DEF b
<1>4. Tables(b, t)  BY <1>2 DEF Tables, AgentFields
<1> HIDE DEF t
<1>5. QED  BY <1>1, <1>3, <1>4 DEF Tables

LEMMA OpenTables ==
  ASSUME NEW a, Contexts(a), NEW i \in Ids, a.tbl[i] # None, NEW f
  PROVE  Tables(a, open_imengine(a, i, f))
<1> DEFINE b == focus_out(a, i)
           n == IF shared THEN i ELSE b.fdata
           r == b.stray \/ (shared /\ a.fdata \notin {i, NoId})
           d == [b EXCEPT !.fdata = n, !.stray = r]
<1>1. /\ Works(a, b) /\ b.tbl = a.tbl /\ b.fdata = a.fdata /\ b.stray = a.stray
      /\ b.foc = a.foc \ {i}
  BY FocusOutWorks
<1>2. Tables(a, b)  BY FocusOutTables
<1>3. open_imengine(a, i, f) = IF f = "same" THEN b ELSE focus_in(d, i)  BY DEF open_imengine
<1> HIDE DEF b
<1>4. /\ DOMAIN d = AgentFields /\ d.tbl = b.tbl /\ d.foc = b.foc /\ d.fdata = n
      /\ d.stray = r
  BY <1>1 DEF Works, Contexts, AgentFields
<1>5. Tables(b, d)  BY <1>1 DEF Tables, Works, Contexts, AgentFields
<1> HIDE DEF d
<1>6. shared => r \/ d.foc \subseteq {i}  BY <1>1, <1>4, NoIdNotId DEF Contexts
<1>7. Contexts(d)  BY <1>1, <1>4, <1>6 DEF Works, Contexts
<1>8. Tables(d, focus_in(d, i))  BY <1>7, FocusInTables
<1>9. QED  BY <1>2, <1>3, <1>5, <1>8 DEF Tables

\* A message that is about one context, at most.
LEMMA ProcessTables ==
  ASSUME NEW a, Contexts(a), NEW c, NEW m, m.k \in {"reset", "key", "in", "out"}, NEW e
  PROVE  Tables(a, process_message(a, c, m, e))
<1>1. Tables(a, a)  BY DEF Tables
<1>2. CASE ~Found(a, m.id)  BY <1>1, <1>2, ProcessCases
<1>3. CASE Found(a, m.id)
  <2>1. m.id \in Ids /\ a.tbl[m.id] # None  BY <1>3 DEF Found
  <2>2. CASE m.k = "in"  BY <1>3, <2>2, FocusInTables, ProcessCases
  <2>3. CASE m.k = "out"  BY <1>3, <2>3, FocusOutTables, ProcessCases
  <2>4. CASE m.k = "key"
    <3>1. process_message(a, c, m, e) = filter_key_event(a, m.id, e)
      BY <1>3, <2>4, ProcessCases
    <3>2. Tables(a, filter_key_event(a, m.id, e))
      BY <1>1, <2>1, OpenTables, FocusInTables DEF filter_key_event
    <3>3. QED  BY <3>1, <3>2
  <2>5. CASE m.k = "reset"  BY <1>1, <2>5, ProcessCases
  <2>6. QED  BY <2>2, <2>3, <2>4, <2>5
<1>4. QED  BY <1>2, <1>3

-----------------------------------------------------------------------------
(* The request on its way.                                                 *)

\* A sequence with no request, or answer to one; with m and no other.
Quiet(s)   == \A k \in 1..Len(s) : Question(s[k])
Only(s, m) == ~Question(m) /\ \E j \in 1..Len(s) :
                s[j] = m /\ \A k \in 1..Len(s) : k # j => Question(s[k])

\* What happens to a sequence: u is s followed by t; s is m followed by u; u is s
\* followed by m.
Blends(s, t, u) ==
  /\ Quiet(u) <=> Quiet(s) /\ Quiet(t)
  /\ \A n : Only(u, n) <=> (Only(s, n) /\ Quiet(t)) \/ (Quiet(s) /\ Only(t, n))
Starts(s, m, u) ==
  /\ Quiet(s) <=> Question(m) /\ Quiet(u)
  /\ \A n : Only(s, n) <=> (Question(m) /\ Only(u, n)) \/ (~Question(m) /\ n = m /\ Quiet(u))
Ends(s, m, u) ==
  /\ Quiet(u) <=> Quiet(s) /\ Question(m)
  /\ \A n : Only(u, n) <=> (Only(s, n) /\ Question(m)) \/ (~Question(m) /\ n = m /\ Quiet(s))

LEMMA QuietEmpty == Quiet(<<>>) /\ \A m : ~Only(<<>>, m)
BY DEF Quiet, Only

LEMMA OnlySure ==
  ASSUME NEW s, NEW m, Only(s, m)
  PROVE  ~Quiet(s) /\ ~Question(m) /\ \A n : Only(s, n) => n = m
<1>1. PICK j \in 1..Len(s) : s[j] = m /\ ~Question(s[j])  BY DEF Only
<1>2. ~Quiet(s)  BY <1>1 DEF Quiet
<1>3. ASSUME NEW n, Only(s, n) PROVE n = m
  <2>1. PICK i \in 1..Len(s) : s[i] = n /\ \A k \in 1..Len(s) : k # i => Question(s[k])
    BY <1>3 DEF Only
  <2>2. i = j  BY <1>1, <2>1
  <2>3. QED  BY <1>1, <2>1, <2>2
<1>4. QED  BY <1>2, <1>3 DEF Only

LEMMA ConcatBlends ==
  ASSUME NEW V, NEW s \in Seq(V), NEW t \in Seq(V)
  PROVE  Blends(s, t, s \o t)
<1> DEFINE u == s \o t  l == Len(s)
<1>1. /\ l \in Nat /\ Len(t) \in Nat /\ Len(u) = l + Len(t)
      /\ \A k \in 1..l : k \in 1..Len(u) /\ u[k] = s[k]
      /\ \A k \in 1..Len(t) : l + k \in 1..Len(u) /\ u[l + k] = t[k] /\ l + k \notin 1..l
  OBVIOUS
<1>2. \A k \in 1..Len(u) : k \in 1..l \/ (k - l \in 1..Len(t) /\ u[k] = t[k - l] /\ k = l + (k - l))
  BY <1>1
<1> HIDE DEF u
<1>3. Quiet(u) <=> Quiet(s) /\ Quiet(t)
  <2>1. Quiet(u) => Quiet(s) /\ Quiet(t)
    <3> SUFFICES ASSUME Quiet(u) PROVE Quiet(s) /\ Quiet(t)  OBVIOUS
    <3>1. \A k \in 1..l : Question(s[k])  BY <1>1 DEF Quiet
    <3>2. \A k \in 1..Len(t) : Question(t[k])  BY <1>1 DEF Quiet
    <3>3. QED  BY <3>1, <3>2 DEF Quiet
  <2>2. Quiet(s) /\ Quiet(t) => Quiet(u)
    <3> SUFFICES ASSUME Quiet(s), Quiet(t) PROVE Quiet(u)  OBVIOUS
    <3>1. ASSUME NEW k \in 1..Len(u) PROVE Question(u[k])
      <4>1. CASE k \in 1..l  BY <1>1, <4>1 DEF Quiet
      <4>2. CASE k \notin 1..l  BY <1>2, <4>2 DEF Quiet
      <4>3. QED  BY <4>1, <4>2
    <3>2. QED  BY <3>1 DEF Quiet
  <2>3. QED  BY <2>1, <2>2
<1>4. ASSUME NEW n, Only(u, n) PROVE (Only(s, n) /\ Quiet(t)) \/ (Quiet(s) /\ Only(t, n))
  <2>1. PICK j \in 1..Len(u) : u[j] = n /\ \A k \in 1..Len(u) : k # j => Question(u[k])
    BY <1>4 DEF Only
  <2>2. ~Question(n)  BY <1>4 DEF Only
  <2>3. CASE j \in 1..l
    <3>1. s[j] = n  BY <1>1, <2>1, <2>3
    <3>2. \A k \in 1..l : k # j => Question(s[k])  BY <1>1, <2>1
    <3>3. \A k \in 1..Len(t) : Question(t[k])  BY <1>1, <2>1, <2>3
    <3>4. QED  BY <2>2, <2>3, <3>1, <3>2, <3>3 DEF Only, Quiet
  <2>4. CASE j \notin 1..l
    <3>1. j - l \in 1..Len(t) /\ t[j - l] = n /\ j = l + (j - l)  BY <1>2, <2>1, <2>4
    <3>2. \A k \in 1..Len(t) : k # j - l => l + k # j  BY <1>1, <3>1
    <3>3. \A k \in 1..Len(t) : k # j - l => Question(t[k])  BY <1>1, <2>1, <3>2
    <3>4. \A k \in 1..l : Question(s[k])  BY <1>1, <2>1, <2>4
    <3>5. QED  BY <2>2, <3>1, <3>3, <3>4 DEF Only, Quiet
  <2>5. QED  BY <2>3, <2>4
<1>5. ASSUME NEW n, Only(s, n), Quiet(t) PROVE Only(u, n)
  <2>1. PICK j \in 1..l : s[j] = n /\ \A k \in 1..l : k # j => Question(s[k])
    BY <1>5 DEF Only
  <2>2. j \in 1..Len(u) /\ u[j] = n  BY <1>1, <2>1
  <2>3. ASSUME NEW k \in 1..Len(u), k # j PROVE Question(u[k])
    <3>1. CASE k \in 1..l  BY <1>1, <2>1, <2>3, <3>1
    <3>2. CASE k \notin 1..l  BY <1>2, <1>5, <3>2 DEF Quiet
    <3>3. QED  BY <3>1, <3>2
  <2>4. QED  BY <1>5, <2>2, <2>3 DEF Only
<1>6. ASSUME NEW n, Quiet(s), Only(t, n) PROVE Only(u, n)
  <2>1. PICK j \in 1..Len(t) : t[j] = n /\ \A k \in 1..Len(t) : k # j => Question(t[k])
    BY <1>6 DEF Only
  <2>2. l + j \in 1..Len(u) /\ u[l + j] = n  BY <1>1, <2>1
  <2>3. ASSUME NEW k \in 1..Len(u), k # l + j PROVE Question(u[k])
    <3>1. CASE k \in 1..l  BY <1>1, <1>6, <3>1 DEF Quiet
    <3>2. CASE k \notin 1..l
      <4>1. k - l \in 1..Len(t) /\ u[k] = t[k - l] /\ k = l + (k - l)  BY <1>2, <3>2
      <4>2. k - l # j  BY <2>3, <4>1
      <4>3. QED  BY <2>1, <4>1, <4>2
    <3>3. QED  BY <3>1, <3>2
  <2>4. QED  BY <1>6, <2>2, <2>3 DEF Only
<1>7. QED  BY <1>3, <1>4, <1>5, <1>6 DEF Blends, u

LEMMA OneMessage ==
  ASSUME NEW m
  PROVE  (Quiet(<<m>>) <=> Question(m)) /\ \A n : Only(<<m>>, n) <=> ~Question(m) /\ n = m
<1> DEFINE s == <<m>>
<1>1. Len(s) = 1 /\ s[1] = m /\ 1..1 = {1}  OBVIOUS
<1> HIDE DEF s
<1>2. Quiet(s) <=> Question(m)  BY <1>1 DEF Quiet
<1>3. \A n : Only(s, n) <=> ~Question(m) /\ n = m  BY <1>1 DEF Only
<1>4. QED  BY <1>2, <1>3 DEF s

LEMMA AppendEnds ==
  ASSUME NEW V, NEW s \in Seq(V), NEW m \in V
  PROVE  Ends(s, m, Append(s, m))
<1>1. <<m>> \in Seq(V) /\ Append(s, m) = s \o <<m>>  OBVIOUS
<1>2. Blends(s, <<m>>, Append(s, m))  BY <1>1, ConcatBlends
<1>3. QED  BY <1>2, OneMessage DEF Blends, Ends

LEMMA TailStarts ==
  ASSUME NEW V, NEW s \in Seq(V), s # <<>>
  PROVE  Starts(s, Head(s), Tail(s))
<1> DEFINE m == Head(s)  u == Tail(s)
<1>1. m \in V /\ u \in Seq(V) /\ <<m>> \in Seq(V) /\ s = <<m>> \o u  OBVIOUS
<1> HIDE DEF m, u
<1>2. Blends(<<m>>, u, <<m>> \o u)  BY <1>1, ConcatBlends
<1>3. Blends(<<m>>, u, s)  BY <1>1, <1>2
<1>4. Starts(s, m, u)  BY <1>3, OneMessage DEF Blends, Starts
<1>5. QED  BY <1>4 DEF m, u

LEMMA SplitBlends ==
  ASSUME NEW V, NEW s \in Seq(V), NEW k \in 1..Len(s)
  PROVE  Blends(SubSeq(s, 1, k), SubSeq(s, k + 1, Len(s)), s)
<1> DEFINE x == SubSeq(s, 1, k)  y == SubSeq(s, k + 1, Len(s))
<1>1. x \in Seq(V) /\ y \in Seq(V)  BY ReadSome
<1>2. s = x \o y
  <2>1. Len(s) \in Nat /\ k \in Int /\ 1 <= k /\ k <= Len(s)  OBVIOUS
  <2>2. x \o y = SubSeq(s, 1, Len(s))  BY <2>1, ConcatAdjacentSubSeq
  <2>3. QED  BY <2>2, SubSeqFull
<1> HIDE DEF x, y
<1>3. Blends(x, y, x \o y)  BY <1>1, ConcatBlends
<1>4. QED  BY <1>2, <1>3 DEF x, y

\* The same for the three queues of a client that the agent has, or will have.
Still(r, b, s)   == Quiet(r) /\ Quiet(b) /\ Quiet(s)
Lone(r, b, s, m) ==
  \/ Only(r, m) /\ Quiet(b) /\ Quiet(s)
  \/ Quiet(r) /\ Only(b, m) /\ Quiet(s)
  \/ Quiet(r) /\ Quiet(b) /\ Only(s, m)

Even(r, b, s, x, y, z) ==
  (Still(r, b, s) <=> Still(x, y, z)) /\ \A m : Lone(r, b, s, m) <=> Lone(x, y, z, m)
Alike(t, u) == (Quiet(t) <=> Quiet(u)) /\ \A m : Only(t, m) <=> Only(u, m)

\* Request m is taken from the queues; it comes to them.
Takes(r, b, s, m, x, y, z) ==
  ~Still(r, b, s) /\ \A n : Lone(r, b, s, n) => n = m /\ Still(x, y, z)
Comes(r, b, s, m, x, y, z) == Still(r, b, s) => Lone(x, y, z, m)

-----------------------------------------------------------------------------
(* What a client k, with ids d, and the agent, with contexts T and F, know of *)
(* each other.                                                             *)

Held(T, c)  == {i \in Ids : T[i] = c}
Named(k, d) == {d[x] : x \in k.list}

Known(F, T, c, k, d) ==
  \A x \in k.list : d[x] \in Ids /\ T[d[x]] = c /\ F[d[x]] = x

Fitting(F, T, c, x) == x \in Ctxs /\ Owner[x] = c /\ Fresh(F, T, x)

\* No request; a request that the agent has not processed; one that it processes; one
\* that it has answered.  v is the kind of the request that it has not answered because
\* it waits for a text, or None.
Rest(T, c, k, d, r, b, s, t, v) ==
  /\ k.want = None /\ k.sub = None /\ Still(r, b, s) /\ Quiet(t) /\ v = None
  /\ Held(T, c) = Named(k, d)

Underway(F, T, c, k, d, r, b, s, t, v, m) ==
  /\ m.k \in Requests /\ k.want = AnswerTo(m.k) /\ Lone(r, b, s, m) /\ Quiet(t)
  /\ v = None
  /\ IF m.k = "register" THEN Fitting(F, T, c, k.sub) ELSE k.sub = None
  /\ Held(T, c) \ (IF m.k = "deregister" THEN {m.id} ELSE {}) = Named(k, d)

Served(T, c, k, d, r, b, s, t, v) ==
  /\ v \in Askers /\ k.want = AnswerTo(v) /\ k.sub = None /\ Still(r, b, s) /\ Quiet(t)
  /\ Held(T, c) = Named(k, d)

Back(F, T, c, k, d, r, b, s, t, v, m) ==
  /\ m.k \in Answers /\ k.want = m.k /\ Still(r, b, s) /\ Only(t, m)
  /\ v = None
  /\ IF m.k = "registered"
       THEN /\ k.sub \in Ctxs /\ Owner[k.sub] = c
            /\ m.id \in Held(T, c) /\ F[m.id] = k.sub /\ Held(T, c) = Named(k, d) \cup {m.id}
       ELSE k.sub = None /\ Held(T, c) = Named(k, d)

Row(F, T, c, cn, k, d, r, b, s, t, v) ==
  /\ cn = "open" => /\ Known(F, T, c, k, d)
                    /\ \/ Rest(T, c, k, d, r, b, s, t, v)
                       \/ Served(T, c, k, d, r, b, s, t, v)
                       \/ \E m : Underway(F, T, c, k, d, r, b, s, t, v, m)
                       \/ \E m : Back(F, T, c, k, d, r, b, s, t, v, m)
  /\ cn = "left" => \/ Still(r, b, s)
                    \/ \E m : /\ Lone(r, b, s, m)
                              /\ m.k = "register" => \E x : Fitting(F, T, c, x)
  /\ cn \notin {"open", "left"} => v = None

\* Messages are moved, or questions come and go.
LEMMA RowEven ==
  ASSUME NEW F, NEW T, NEW c, NEW cn, NEW k, NEW d, NEW r, NEW b, NEW s, NEW t, NEW v,
         Row(F, T, c, cn, k, d, r, b, s, t, v),
         NEW x, NEW y, NEW z, NEW u, Even(r, b, s, x, y, z), Alike(t, u)
  PROVE  Row(F, T, c, cn, k, d, x, y, z, u, v)
<1>1. (Still(r, b, s) <=> Still(x, y, z)) /\ \A m : Lone(r, b, s, m) <=> Lone(x, y, z, m)
  BY DEF Even
<1>2. (Quiet(t) <=> Quiet(u)) /\ \A m : Only(t, m) <=> Only(u, m)  BY DEF Alike
<1>3. Rest(T, c, k, d, r, b, s, t, v) => Rest(T, c, k, d, x, y, z, u, v)
  BY <1>1, <1>2 DEF Rest
<1>4. Served(T, c, k, d, r, b, s, t, v) => Served(T, c, k, d, x, y, z, u, v)
  BY <1>1, <1>2 DEF Served
<1>5. \A m : Underway(F, T, c, k, d, r, b, s, t, v, m) => Underway(F, T, c, k, d, x, y, z, u, v, m)
  BY <1>1, <1>2 DEF Underway
<1>6. \A m : Back(F, T, c, k, d, r, b, s, t, v, m) => Back(F, T, c, k, d, x, y, z, u, v, m)
  BY <1>1, <1>2 DEF Back
<1>7. QED  BY <1>1, <1>3, <1>4, <1>5, <1>6 DEF Row

\* Another client's contexts change.
LEMMA RowApart ==
  ASSUME NEW F, NEW T, NEW c, NEW cn, NEW k, NEW d, NEW r, NEW b, NEW s, NEW t, NEW v,
         Row(F, T, c, cn, k, d, r, b, s, t, v),
         NEW G, NEW U, NEW e, Held(U, c) = Held(T, c), \A i \in Held(T, c) : G[i] = F[i],
         \A x : Fitting(F, T, c, x) => Fitting(G, U, c, x), \A x \in k.list : e[x] = d[x]
  PROVE  Row(G, U, c, cn, k, e, r, b, s, t, v)
<1>1. Named(k, e) = Named(k, d)  BY DEF Named
<1>2. Known(F, T, c, k, d) => Known(G, U, c, k, e)  BY DEF Known, Held
<1>3. Rest(T, c, k, d, r, b, s, t, v) => Rest(U, c, k, e, r, b, s, t, v)  BY <1>1 DEF Rest
<1>4. Served(T, c, k, d, r, b, s, t, v) => Served(U, c, k, e, r, b, s, t, v)  BY <1>1 DEF Served
<1>5. \A m : Underway(F, T, c, k, d, r, b, s, t, v, m) => Underway(G, U, c, k, e, r, b, s, t, v, m)
  BY <1>1 DEF Underway
<1>6. \A m : Back(F, T, c, k, d, r, b, s, t, v, m) => Back(G, U, c, k, e, r, b, s, t, v, m)
  BY <1>1 DEF Back
<1>7. QED  BY <1>2, <1>3, <1>4, <1>5, <1>6 DEF Row

\* A client that waits for nothing.
LEMMA RowRest ==
  ASSUME NEW F, NEW T, NEW c, NEW k, NEW d, NEW r, NEW b, NEW s, NEW t, NEW v,
         Row(F, T, c, "open", k, d, r, b, s, t, v), k.want = None
  PROVE  Rest(T, c, k, d, r, b, s, t, v) /\ Known(F, T, c, k, d)
<1>1. None \notin Answers  BY DEF None, Answers
<1>2. ~Served(T, c, k, d, r, b, s, t, v)  BY DEF Served, Askers, AnswerTo, None
<1>3. ~\E m : Underway(F, T, c, k, d, r, b, s, t, v, m)
  <2> SUFFICES ASSUME NEW m, Underway(F, T, c, k, d, r, b, s, t, v, m) PROVE FALSE  OBVIOUS
  <2>1. ~Question(m)  BY OnlySure DEF Underway, Lone
  <2>2. m.k \in Requests \ {"got"}  BY <2>1 DEF Underway, Question
  <2>3. QED  BY <1>1, <2>2, AnswerTypes DEF Underway
<1>4. ~\E m : Back(F, T, c, k, d, r, b, s, t, v, m)  BY <1>1 DEF Back
<1>5. QED  BY <1>2, <1>3, <1>4 DEF Row

\* A context without an id has none in use.
LEMMA RestFits ==
  ASSUME NEW F, NEW T, NEW n, Uses(F, T, n), NEW c \in Clients, NEW k, NEW d,
         Known(F, T, c, k, d), Held(T, c) = Named(k, d), NEW x \in Ctxs, Owner[x] = c, d[x] = NoId
  PROVE  Fitting(F, T, c, x)
<1> SUFFICES ASSUME NEW i \in Ids, T[i] # None, F[i] = x PROVE FALSE  BY DEF Fitting, Fresh
<1>1. T[i] = c  BY DEF Uses
<1>2. i \in Held(T, c)  BY <1>1 DEF Held
<1>3. PICK y \in k.list : i = d[y]  BY <1>2 DEF Named
<1>4. F[d[y]] = y /\ d[y] \in Ids  BY DEF Known
<1>5. y = x  BY <1>3, <1>4
<1>6. QED  BY <1>3, <1>4, <1>5, NoIdNotId

\* The client sends a request, other than to deregister.
LEMMA RowRequest ==
  ASSUME NEW F, NEW T, NEW c, NEW k, NEW d, NEW r, NEW b, NEW s, NEW t, NEW v,
         Row(F, T, c, "open", k, d, r, b, s, t, v), k.want = None,
         NEW m, m.k \in Requests \ {"got", "deregister"}, NEW l, l.want = AnswerTo(m.k),
         l.list = k.list, NEW x, NEW y, NEW z, Comes(r, b, s, m, x, y, z),
         IF m.k = "register" THEN Fitting(F, T, c, l.sub) ELSE l.sub = None
  PROVE  Row(F, T, c, "open", l, d, x, y, z, t, v)
<1>1. Rest(T, c, k, d, r, b, s, t, v) /\ Known(F, T, c, k, d)  BY RowRest
<1>2. Named(l, d) = Named(k, d) /\ Known(F, T, c, l, d)  BY <1>1 DEF Named, Known
<1>3. Lone(x, y, z, m)  BY <1>1 DEF Rest, Comes
<1>4. Underway(F, T, c, l, d, x, y, z, t, v, m)  BY <1>1, <1>2, <1>3 DEF Rest, Underway
<1>5. QED  BY <1>2, <1>4 DEF Row

\* It deregisters context q, which is in its list, unless that is empty.
LEMMA RowDeregister ==
  ASSUME NEW F, NEW T, NEW c, NEW k, NEW d, NEW r, NEW b, NEW s, NEW t, NEW v,
         Row(F, T, c, "open", k, d, r, b, s, t, v), k.want = None,
         NEW q, q \in k.list \/ k.list = {}, NEW e, \A y \in k.list : y # q => e[y] = d[y],
         NEW m, m.k = "deregister", m.id = d[q], NEW l, l.want = AnswerTo("deregister"),
         l.sub = k.sub, l.list = k.list \ {q}, NEW x, NEW y, NEW z,
         Comes(r, b, s, m, x, y, z)
  PROVE  Row(F, T, c, "open", l, e, x, y, z, t, v)
<1>1. Rest(T, c, k, d, r, b, s, t, v) /\ Known(F, T, c, k, d)  BY RowRest
<1>2. Known(F, T, c, l, e)  BY <1>1 DEF Known
<1>3. Held(T, c) \ {m.id} = Named(l, e)
  <2>1. Held(T, c) = {d[w] : w \in k.list}  BY <1>1 DEF Rest, Named
  <2>2. ASSUME NEW w \in k.list, w # q PROVE d[w] # d[q] /\ e[w] = d[w]
    <3>1. q \in k.list /\ F[d[w]] = w /\ F[d[q]] = q  BY <1>1 DEF Known
    <3>2. QED  BY <2>2, <3>1
  <2>3. QED  BY <2>1, <2>2 DEF Named
<1>4. Lone(x, y, z, m)  BY <1>1 DEF Rest, Comes
<1>5. Underway(F, T, c, l, e, x, y, z, t, v, m)
  BY <1>1, <1>3, <1>4 DEF Rest, Underway, Requests
<1>6. QED  BY <1>2, <1>5 DEF Row

\* The answer that it takes.
LEMMA RowTold ==
  ASSUME NEW F, NEW T, NEW c, NEW k, NEW d, NEW r, NEW b, NEW s, NEW t, NEW v,
         Row(F, T, c, "open", k, d, r, b, s, t, v),
         NEW m, NEW u, Starts(t, m, u), ~Question(m)
  PROVE  Known(F, T, c, k, d) /\ Back(F, T, c, k, d, r, b, s, t, v, m) /\ Quiet(u) /\ m.k = k.want
<1>1. ~Quiet(t) /\ \A w : Only(t, w) => w = m /\ Quiet(u)  BY DEF Starts
<1>2. ~Rest(T, c, k, d, r, b, s, t, v) /\ ~Served(T, c, k, d, r, b, s, t, v)
  BY <1>1 DEF Rest, Served
<1>3. ~\E w : Underway(F, T, c, k, d, r, b, s, t, v, w)  BY <1>1 DEF Underway
<1>4. PICK w : Known(F, T, c, k, d) /\ Back(F, T, c, k, d, r, b, s, t, v, w)
  BY <1>2, <1>3 DEF Row
<1>5. w = m /\ Quiet(u)  BY <1>1, <1>4 DEF Back
<1>6. QED  BY <1>4, <1>5 DEF Back

LEMMA RowAnswered ==
  ASSUME NEW F, NEW T, NEW n, Uses(F, T, n), NEW c \in Clients, NEW k, NEW d, NEW r, NEW b,
         NEW s, NEW t, NEW v, Row(F, T, c, "open", k, d, r, b, s, t, v),
         NEW m, NEW u, Starts(t, m, u), ~Question(m)
  PROVE  \A l, e : /\ l.want = None /\ l.sub = None
                   /\ l.list = IF k.sub = None THEN k.list ELSE k.list \cup {k.sub}
                   /\ \A x \in l.list : e[x] = IF x = k.sub THEN m.id ELSE d[x]
                   => Row(F, T, c, "open", l, e, r, b, s, u, v)
<1>1. Known(F, T, c, k, d) /\ Back(F, T, c, k, d, r, b, s, t, v, m) /\ Quiet(u)  BY RowTold
<1>2. m.k = k.want /\ Still(r, b, s) /\ v = None  BY <1>1 DEF Back
<1>3. ASSUME NEW l, NEW e, l.want = None, l.sub = None,
             l.list = IF k.sub = None THEN k.list ELSE k.list \cup {k.sub},
             \A x \in l.list : e[x] = IF x = k.sub THEN m.id ELSE d[x]
      PROVE  Row(F, T, c, "open", l, e, r, b, s, u, v)
  <2> DEFINE q == k.sub
  <2>1. Known(F, T, c, l, e) /\ Held(T, c) = Named(l, e)
    <3>1. CASE m.k = "registered"
      <4>1. /\ q \in Ctxs /\ m.id \in Ids /\ T[m.id] = c /\ F[m.id] = q
            /\ Held(T, c) = Named(k, d) \cup {m.id}
        BY <1>1, <3>1 DEF Back, Held
      <4>2. q # None /\ c # None  BY <4>1, OwnerAssumption
      <4>3. l.list = k.list \cup {q} /\ e[q] = m.id /\ \A x \in k.list : x # q => e[x] = d[x]
        BY <1>3, <4>2
      <4>4. \A x \in k.list : d[x] \in Ids /\ T[d[x]] = c /\ F[d[x]] = x  BY <1>1 DEF Known
      <4>5. q \in k.list => d[q] = m.id
        <5>1. \A i, j \in Ids : T[i] # None /\ T[j] # None /\ F[i] = F[j] => i = j  BY DEF Uses
        <5>2. QED  BY <4>1, <4>2, <4>4, <5>1
      <4> HIDE DEF q
      <4>6. \A x \in k.list : e[x] = d[x]  BY <4>3, <4>5
      <4>7. Known(F, T, c, l, e)  BY <4>1, <4>3, <4>4, <4>6 DEF Known
      <4>8. Named(l, e) = Named(k, d) \cup {m.id}  BY <4>3, <4>6 DEF Named
      <4>9. QED  BY <4>1, <4>7, <4>8
    <3>2. CASE m.k # "registered"
      <4>1. q = None /\ Held(T, c) = Named(k, d)  BY <1>1, <3>2 DEF Back
      <4>2. \A x \in k.list : d[x] \in Ids /\ T[d[x]] = c /\ F[d[x]] = x  BY <1>1 DEF Known
      <4>3. l.list = k.list  BY <1>3, <4>1
      <4>4. \A x \in k.list : x # None
        <5>1. \A x \in k.list : Owner[F[d[x]]] = T[d[x]] /\ F[d[x]] \in Ctxs
          BY <4>2, OwnerAssumption DEF Uses
        <5>2. QED  BY <4>2, <5>1, OwnerAssumption
      <4>5. \A x \in k.list : e[x] = d[x]  BY <1>3, <4>1, <4>3, <4>4
      <4>6. QED  BY <4>1, <4>2, <4>3, <4>5 DEF Known, Named
    <3>3. QED  BY <3>1, <3>2
  <2>2. Rest(T, c, l, e, r, b, s, u, v)  BY <1>1, <1>2, <1>3, <2>1 DEF Rest
  <2>3. QED  BY <2>1, <2>2 DEF Row
<1>4. QED  BY <1>3

\* The application dies.
LEMMA RowDies ==
  ASSUME NEW F, NEW T, NEW c, NEW k, NEW d, NEW r, NEW b, NEW s, NEW t, NEW v,
         Row(F, T, c, "open", k, d, r, b, s, t, v), NEW l, NEW e, NEW u
  PROVE  Row(F, T, c, "left", l, e, r, b, s, u, v)
<1>1. Rest(T, c, k, d, r, b, s, t, v) => Still(r, b, s)  BY DEF Rest
<1>2. Served(T, c, k, d, r, b, s, t, v) => Still(r, b, s)  BY DEF Served
<1>3. \A m : Back(F, T, c, k, d, r, b, s, t, v, m) => Still(r, b, s)  BY DEF Back
<1>4. \A m : Underway(F, T, c, k, d, r, b, s, t, v, m)
               => /\ Lone(r, b, s, m)
                  /\ m.k = "register" => \E x : Fitting(F, T, c, x)
  BY DEF Underway
<1>5. QED  BY <1>1, <1>2, <1>3, <1>4 DEF Row

\* A connection is opened.
LEMMA RowOpens ==
  ASSUME NEW F, NEW T, NEW c, NEW k, NEW d, Held(T, c) = {}, k.list = {}, k.want = None,
         k.sub = None
  PROVE  Row(F, T, c, "open", k, d, <<>>, <<>>, <<>>, <<>>, None)
BY QuietEmpty DEF Row, Rest, Known, Named, Still

\* The agent takes request m.
LEMMA RowTakes ==
  ASSUME NEW F, NEW T, NEW c, NEW cn, NEW k, NEW d, NEW r, NEW b, NEW s, NEW t, NEW v,
         Row(F, T, c, cn, k, d, r, b, s, t, v),
         NEW m, NEW x, NEW y, NEW z, Takes(r, b, s, m, x, y, z)
  PROVE  /\ cn = "open" => /\ Known(F, T, c, k, d) /\ Underway(F, T, c, k, d, r, b, s, t, v, m)
                           /\ Still(x, y, z)
         /\ cn = "left" => Still(x, y, z) /\ (m.k = "register" => \E q : Fitting(F, T, c, q))
<1>1. ~Still(r, b, s) /\ \A n : Lone(r, b, s, n) => n = m /\ Still(x, y, z)  BY DEF Takes
<1>2. CASE cn = "open"
  <2>1. ~Rest(T, c, k, d, r, b, s, t, v) /\ ~Served(T, c, k, d, r, b, s, t, v)
    BY <1>1 DEF Rest, Served
  <2>2. ~\E n : Back(F, T, c, k, d, r, b, s, t, v, n)  BY <1>1 DEF Back
  <2>3. PICK n : Known(F, T, c, k, d) /\ Underway(F, T, c, k, d, r, b, s, t, v, n)
    BY <1>2, <2>1, <2>2 DEF Row
  <2>4. n = m /\ Still(x, y, z)  BY <1>1, <2>3 DEF Underway
  <2>5. QED  BY <1>2, <2>3, <2>4 DEF Underway
<1>3. CASE cn = "left"
  <2>1. PICK n : /\ Lone(r, b, s, n)
                 /\ n.k = "register" => \E q : Fitting(F, T, c, q)
    BY <1>1, <1>3 DEF Row
  <2>2. n = m /\ Still(x, y, z)  BY <1>1, <2>1
  <2>3. QED  BY <1>3, <2>1, <2>2
<1>4. QED  BY <1>2, <1>3

\* It answers m at once, with id i, after which its contexts are U and G.
LEMMA RowAnswers ==
  ASSUME NEW F, NEW T, NEW c, NEW cn, NEW k, NEW d, NEW r, NEW b, NEW s, NEW t, NEW v,
         Row(F, T, c, cn, k, d, r, b, s, t, v),
         NEW m, m.k \in Requests \ {"got"}, NEW x, NEW y, NEW z, Takes(r, b, s, m, x, y, z),
         NEW G, NEW U, NEW i, NEW u, cn = "open" => Ends(t, Msg(AnswerTo(m.k), i, 0), u),
         Held(U, c) = IF m.k = "register" THEN Held(T, c) \cup {i}
                      ELSE Held(T, c) \ (IF m.k = "deregister" THEN {m.id} ELSE {}),
         \A j \in Held(T, c) : G[j] = F[j],
         m.k = "register" => i \in Ids /\ (cn = "open" => G[i] = k.sub)
  PROVE  Row(G, U, c, cn, k, d, x, y, z, u, v)
<1>1. CASE cn = "open"
  <2> DEFINE a == Msg(AnswerTo(m.k), i, 0)
  <2>1. Known(F, T, c, k, d) /\ Underway(F, T, c, k, d, r, b, s, t, v, m) /\ Still(x, y, z)
    BY <1>1, RowTakes
  <2>2. /\ k.want = AnswerTo(m.k) /\ Quiet(t) /\ v = None
        /\ IF m.k = "register" THEN Fitting(F, T, c, k.sub) ELSE k.sub = None
        /\ Held(T, c) \ (IF m.k = "deregister" THEN {m.id} ELSE {}) = Named(k, d)
    BY <2>1 DEF Underway
  <2>3. a.k = AnswerTo(m.k) /\ a.id = i  BY DEF Msg
  <2>4. a.k \in Answers /\ ~Question(a) /\ (a.k = "registered" <=> m.k = "register")
    BY <2>3 DEF AnswerTo, Requests, Answers, Question
  <2>5. Ends(t, a, u)  BY <1>1
  <2> HIDE DEF a
  <2>6. Only(u, a)  BY <2>2, <2>4, <2>5 DEF Ends
  <2>7. Named(k, d) \subseteq Held(T, c) /\ Named(k, d) \subseteq Held(U, c)  BY <2>2
  <2>8. Known(G, U, c, k, d)
    <3> SUFFICES ASSUME NEW w \in k.list PROVE d[w] \in Ids /\ U[d[w]] = c /\ G[d[w]] = w
      BY DEF Known
    <3>1. d[w] \in Named(k, d)  BY DEF Named
    <3>2. d[w] \in Held(T, c) /\ d[w] \in Held(U, c)  BY <2>7, <3>1
    <3>3. F[d[w]] = w  BY <2>1 DEF Known
    <3>4. G[d[w]] = F[d[w]]  BY <3>2
    <3>5. QED  BY <3>2, <3>3, <3>4 DEF Held
  <2>9. Back(G, U, c, k, d, x, y, z, u, v, a)
    <3>1. CASE m.k = "register"
      <4>1. /\ i \in Held(U, c) /\ G[i] = k.sub /\ k.sub \in Ctxs /\ Owner[k.sub] = c
            /\ Held(U, c) = Named(k, d) \cup {i}
        BY <1>1, <2>2, <3>1 DEF Fitting
      <4>2. QED  BY <2>1, <2>2, <2>3, <2>4, <2>6, <3>1, <4>1 DEF Back
    <3>2. CASE m.k # "register"
      <4>1. k.sub = None /\ Held(U, c) = Named(k, d)  BY <2>2, <3>2
      <4>2. QED  BY <2>1, <2>2, <2>3, <2>4, <2>6, <3>2, <4>1 DEF Back
    <3>3. QED  BY <3>1, <3>2
  <2>10. QED  BY <1>1, <2>8, <2>9 DEF Row
<1>2. CASE cn = "left"
  <2>1. Still(x, y, z)  BY <1>2, RowTakes
  <2>2. QED  BY <1>2, <2>1 DEF Row
<1>3. QED  BY <1>1, <1>2 DEF Row

\* An engine asks for text before request m is answered, when it has been processed.
LEMMA RowServed ==
  ASSUME NEW F, NEW T, NEW c, NEW cn \in {"open", "left"}, NEW k, NEW d, NEW r, NEW b, NEW s,
         NEW t, NEW v, Row(F, T, c, cn, k, d, r, b, s, t, v),
         NEW m, m.k \in Askers, NEW x, NEW y, NEW z, Takes(r, b, s, m, x, y, z), NEW G, NEW U,
         Held(U, c) = Held(T, c) \ (IF m.k = "deregister" THEN {m.id} ELSE {}),
         \A j \in Held(T, c) : G[j] = F[j]
  PROVE  Row(G, U, c, cn, k, d, x, y, z, t, m.k)
<1>1. CASE cn = "open"
  <2>1. Known(F, T, c, k, d) /\ Underway(F, T, c, k, d, r, b, s, t, v, m) /\ Still(x, y, z)
    BY <1>1, RowTakes
  <2>2. m.k # "register"  BY DEF Askers
  <2>3. /\ k.want = AnswerTo(m.k) /\ k.sub = None /\ Quiet(t) /\ Held(U, c) = Named(k, d)
        /\ Named(k, d) \subseteq Held(T, c)
    BY <2>1, <2>2 DEF Underway
  <2>4. Known(G, U, c, k, d)
    <3> SUFFICES ASSUME NEW w \in k.list PROVE d[w] \in Ids /\ U[d[w]] = c /\ G[d[w]] = w
      BY DEF Known
    <3>1. d[w] \in Held(U, c) /\ d[w] \in Held(T, c)  BY <2>3 DEF Named
    <3>2. F[d[w]] = w  BY <2>1 DEF Known
    <3>3. G[d[w]] = F[d[w]]  BY <3>1
    <3>4. QED  BY <3>1, <3>2, <3>3 DEF Held
  <2>5. Served(U, c, k, d, x, y, z, t, m.k)  BY <2>1, <2>3 DEF Served
  <2>6. QED  BY <1>1, <2>4, <2>5 DEF Row
<1>2. CASE cn = "left"
  <2>1. Still(x, y, z)  BY <1>2, RowTakes
  <2>2. QED  BY <1>2, <2>1 DEF Row
<1>3. QED  BY <1>1, <1>2

\* After the wait the request is answered.
LEMMA RowHandled ==
  ASSUME NEW F, NEW T, NEW c, NEW cn, NEW k, NEW d, NEW r, NEW b, NEW s, NEW t,
         NEW v \in Askers, Row(F, T, c, cn, k, d, r, b, s, t, v),
         NEW u, cn = "open" => Ends(t, Msg(AnswerTo(v), NoId, 0), u)
  PROVE  Row(F, T, c, cn, k, d, r, b, s, u, None)
<1>1. CASE cn = "open"
  <2> DEFINE a == Msg(AnswerTo(v), NoId, 0)
  <2>1. a.k = AnswerTo(v) /\ a.k \in Answers /\ a.k # "registered" /\ ~Question(a)
    BY DEF Msg, AnswerTo, Answers, Question, Askers
  <2>2. Ends(t, a, u)  BY <1>1
  <2> HIDE DEF a
  <2>3. v # None  BY DEF Askers, None
  <2>4. Known(F, T, c, k, d) /\ Served(T, c, k, d, r, b, s, t, v)
    BY <1>1, <2>3 DEF Row, Rest, Underway, Back
  <2>5. Only(u, a)  BY <2>1, <2>2, <2>4 DEF Ends, Served
  <2>6. Back(F, T, c, k, d, r, b, s, u, None, a)  BY <2>1, <2>4, <2>5 DEF Served, Back
  <2>7. QED  BY <1>1, <2>4, <2>6 DEF Row
<1>2. QED  BY <1>1 DEF Row

\* What the changes to the queues amount to.
LEMMA QueueChanges ==
  ASSUME NEW r, NEW b, NEW s, NEW m, NEW u
  PROVE  /\ Starts(r, m, u) /\ Question(m) => Even(r, b, s, u, b, s)
         /\ Starts(b, m, u) /\ Question(m) => Even(r, b, s, r, u, s)
         /\ Ends(s, m, u) /\ Question(m) => Even(r, b, s, r, b, u)
         /\ Starts(r, m, u) /\ ~Question(m) => Takes(r, b, s, m, u, b, s)
         /\ Starts(b, m, u) /\ ~Question(m) => Takes(r, b, s, m, r, u, s)
         /\ Ends(s, m, u) /\ ~Question(m) => Comes(r, b, s, m, r, b, u)
<1>1. \A n : Only(r, n) => ~Quiet(r)  BY OnlySure
<1>2. \A n : Only(b, n) => ~Quiet(b)  BY OnlySure
<1>3. Starts(r, m, u) /\ Question(m) => Even(r, b, s, u, b, s)  BY DEF Starts, Even, Still, Lone
<1>4. Starts(b, m, u) /\ Question(m) => Even(r, b, s, r, u, s)  BY DEF Starts, Even, Still, Lone
<1>5. Ends(s, m, u) /\ Question(m) => Even(r, b, s, r, b, u)  BY DEF Ends, Even, Still, Lone
<1>6. Starts(r, m, u) /\ ~Question(m) => Takes(r, b, s, m, u, b, s)
  BY <1>1 DEF Starts, Takes, Still, Lone
<1>7. Starts(b, m, u) /\ ~Question(m) => Takes(r, b, s, m, r, u, s)
  BY <1>2 DEF Starts, Takes, Still, Lone
<1>8. Ends(s, m, u) /\ ~Question(m) => Comes(r, b, s, m, r, b, u)
  BY DEF Ends, Comes, Still, Lone
<1>9. QED  BY <1>3, <1>4, <1>5, <1>6, <1>7, <1>8

\* Messages are read, into either queue, or moved from one to the other.
LEMMA QueueMoves ==
  ASSUME NEW r, NEW b, NEW s, NEW x, NEW y, NEW w, NEW u, NEW m
  PROVE  /\ Blends(x, y, s) /\ Blends(r, b, w) /\ Blends(w, x, u) => Even(r, b, s, u, <<>>, y)
         /\ Blends(x, y, s) /\ Blends(b, x, u) => Even(r, b, s, r, u, y)
         /\ Starts(b, m, w) /\ Ends(r, m, u) => Even(r, b, s, u, w, s)
<1>1. Blends(x, y, s) /\ Blends(r, b, w) /\ Blends(w, x, u) => Even(r, b, s, u, <<>>, y)
  BY QuietEmpty DEF Blends, Even, Still, Lone
<1>2. Blends(x, y, s) /\ Blends(b, x, u) => Even(r, b, s, r, u, y)
  BY DEF Blends, Even, Still, Lone
<1>3. Starts(b, m, w) /\ Ends(r, m, u) => Even(r, b, s, u, w, s)
  BY DEF Starts, Ends, Even, Still, Lone
<1>4. QED  BY <1>1, <1>2, <1>3

LEMMA EvenSelf == \A r, b, s : Even(r, b, s, r, b, s)
BY DEF Even

\* A question is sent, or taken.
LEMMA LineChanges ==
  ASSUME NEW t, NEW m, Question(m), NEW u
  PROVE  /\ Ends(t, m, u) => Alike(t, u)
         /\ Starts(t, m, u) => Alike(t, u)
         /\ Alike(t, t)
BY DEF Ends, Starts, Alike

-----------------------------------------------------------------------------
(* The invariant, and the steps of the library.                            *)

\* The request of client c that is answered when the wait is over.
Waits(a, c) == IF a.ask.to = c THEN a.ask.k ELSE None

Belongs(k, c, d) ==
  /\ \A x \in k.list \cup k.rem : x \in Ctxs /\ Owner[x] = c
  /\ k.sub # None => k.sub \in Ctxs /\ Owner[k.sub] = c
  /\ \A x \in Ctxs : Owner[x] = c /\ (x \in k.list => ~k.up) => d[x] = NoId

\* What the clients and agent a know of each other, with messages s and t on their way.
Deal(F, a, s, t) ==
  /\ Pool(a, F)
  /\ \A c \in Clients : Row(F, a.tbl, c, conn[c], cl[c], id, a.rcv[c], a.buf[c], s[c], t[c],
                            Waits(a, c))

DInv(F) == Deal(F, ag, toA, toC) /\ \A c \in Clients : Belongs(cl[c], c, id)

\* A step of client c: what is of the others stays.
LEMMA ClientDeal ==
  ASSUME NEW F, DInv(F), NEW c \in Clients, UNCHANGED ag,
         \A d \in Clients \ {c} : /\ conn'[d] = conn[d] /\ toA'[d] = toA[d] /\ toC'[d] = toC[d]
                                  /\ cl'[d] = cl[d],
         \A x \in Ctxs : Owner[x] # c => id'[x] = id[x], Belongs(cl'[c], c, id'),
         Row(F, ag.tbl, c, conn'[c], cl'[c], id', ag.rcv[c], ag.buf[c], toA'[c], toC'[c],
             Waits(ag, c))
  PROVE  DInv(F)'
<1>1. ASSUME NEW d \in Clients
      PROVE  Row(F, ag.tbl, d, conn'[d], cl'[d], id', ag.rcv[d], ag.buf[d], toA'[d], toC'[d],
                 Waits(ag, d)) /\ Belongs(cl'[d], d, id')
  <2>1. CASE d = c  BY <2>1
  <2>2. CASE d # c
    <3>1. /\ Row(F, ag.tbl, d, conn[d], cl[d], id, ag.rcv[d], ag.buf[d], toA[d], toC[d], Waits(ag, d))
          /\ Belongs(cl[d], d, id)
      BY DEF DInv, Deal
    <3>2. \A x \in cl[d].list : id'[x] = id[x]  BY <2>2, <3>1 DEF Belongs
    <3>3. Row(F, ag.tbl, d, conn[d], cl[d], id', ag.rcv[d], ag.buf[d], toA[d], toC[d], Waits(ag, d))
      BY <3>1, <3>2, RowApart
    <3>4. Belongs(cl[d], d, id')  BY <2>2, <3>1 DEF Belongs
    <3>5. QED  BY <2>2, <3>3, <3>4
  <2>3. QED  BY <2>1, <2>2
<1>2. Pool(ag, F)  BY DEF DInv, Deal
<1>3. Pool(ag', F) /\ \A d \in Clients :
        Row(F, ag'.tbl, d, conn'[d], cl'[d], id', ag'.rcv[d], ag'.buf[d], toA'[d], toC'[d], Waits(ag', d))
  BY <1>1, <1>2
<1>4. Deal(F, ag, toA, toC)'  BY <1>3 DEF Deal
<1>5. (\A d \in Clients : Belongs(cl[d], d, id))'  BY <1>1
<1>6. QED  BY <1>4, <1>5 DEF DInv

LEMMA RowNow ==
  ASSUME NEW F, DInv(F), NEW c \in Clients
  PROVE  /\ Row(F, ag.tbl, c, conn[c], cl[c], id, ag.rcv[c], ag.buf[c], toA[c], toC[c], Waits(ag, c))
         /\ Belongs(cl[c], c, id) /\ Uses(F, ag.tbl, ag.size)
BY DEF DInv, Deal, Pool

LEMMA RowClosed ==
  ASSUME NEW cn, cn \notin {"open", "left"}
  PROVE  \A F, T, c, k, d, r, b, s, t, v : v = None => Row(F, T, c, cn, k, d, r, b, s, t, v)
BY DEF Row

\* No request of a client that the agent cannot reach waits.
LEMMA ClosedWaits ==
  ASSUME NEW F, DInv(F), NEW c \in Clients, conn[c] \notin {"open", "left"}
  PROVE  Waits(ag, c) = None
<1>1. Row(F, ag.tbl, c, conn[c], cl[c], id, ag.rcv[c], ag.buf[c], toA[c], toC[c], Waits(ag, c))
  BY RowNow
<1>2. QED  BY <1>1 DEF Row

LEMMA CloseDeal ==
  ASSUME NEW F, DInv(F), LInv, NEW W, BInv(W), NEW c \in Clients, conn[c] = "cut",
         NEW keep \in SUBSET Listed(c), close_messenger(c, keep)
  PROVE  DInv(F)'
<1>1. /\ cl' = [cl EXCEPT ![c] = [NewClient EXCEPT !.list = keep]]
      /\ id' = [x \in Ctxs |-> IF x \in cl[c].list THEN NoId ELSE id[x]]
      /\ conn' = [conn EXCEPT ![c] = None]
      /\ toA' = [toA EXCEPT ![c] = <<>>] /\ toC' = [toC EXCEPT ![c] = <<>>] /\ UNCHANGED ag
  BY DEF close_messenger
<1>2. DOMAIN toA = Clients /\ DOMAIN toC = Clients  BY DEF BInv, Lines
<1>3. DOMAIN conn = Clients /\ DOMAIN cl = Clients  BY DEF LInv, Conns, Libs
<1>4. conn'[c] = None /\ cl'[c] = [NewClient EXCEPT !.list = keep]  BY <1>1, <1>3
<1>5. \A d \in Clients \ {c} :
        conn'[d] = conn[d] /\ toA'[d] = toA[d] /\ toC'[d] = toC[d] /\ cl'[d] = cl[d]
  BY <1>1, <1>2, <1>3
<1>6. Belongs(cl[c], c, id)  BY RowNow
<1>7. \A x \in Ctxs : Owner[x] # c => id'[x] = id[x]  BY <1>1, <1>6 DEF Belongs
<1>8. cl'[c].list = keep /\ cl'[c].rem = {} /\ cl'[c].sub = None  BY <1>4 DEF NewClient
<1>9. \A x \in Ctxs : Owner[x] = c => id'[x] = NoId  BY <1>1, <1>6 DEF Belongs
<1>10. Belongs(cl'[c], c, id')  BY <1>6, <1>8, <1>9 DEF Belongs, Listed
<1>11. Row(F, ag.tbl, c, conn'[c], cl'[c], id', ag.rcv[c], ag.buf[c], toA'[c], toC'[c], Waits(ag, c))
  BY <1>4, ClosedWaits, RowClosed DEF None
<1>12. QED  BY <1>1, <1>5, <1>7, <1>10, <1>11, ClientDeal

\* A request other than to deregister; x is the context that it registers, if any.
LEMMA RequestDeal ==
  ASSUME NEW F, DInv(F), LInv, NEW W, BInv(W), NEW c \in Clients, cl[c].up, cl[c].want = None,
         NEW k \in Requests \ {"got", "deregister"}, NEW i \in W, NEW x,
         IF k = "register" THEN x \in Ctxs /\ Owner[x] = c /\ id[x] = NoId ELSE x = None,
         Request(c, k, i, x)
  PROVE  DInv(F)'
<1>1. CASE conn[c] = "cut"  BY <1>1, CloseDeal DEF Request
<1>2. CASE conn[c] # "cut"
  <2> DEFINE m == Msg(k, i, 0)
  <2>1. /\ toA' = [toA EXCEPT ![c] = Append(@, m)] /\ UNCHANGED <<id, ag, conn, toC>>
        /\ cl' = [cl EXCEPT ![c].want = AnswerTo(k), ![c].sub = x]
    BY <1>2 DEF Request
  <2>2. conn[c] = "open"  BY <1>2 DEF LInv, Conns
  <2>3. m \in ToAgent(W) /\ m.k = k /\ m.id = i  BY MsgTypes DEF Msg
  <2>4. ~Question(m)  BY <2>3 DEF Question, Requests
  <2> HIDE DEF m
  <2>5. DOMAIN cl = Clients /\ DOMAIN cl[c] = LibFields /\ DOMAIN toA = Clients
    BY DEF LInv, Libs, BInv, Lines
  <2>6. /\ cl'[c].want = AnswerTo(k) /\ cl'[c].sub = x /\ cl'[c].list = cl[c].list
        /\ cl'[c].rem = cl[c].rem /\ cl'[c].up = cl[c].up
        /\ \A d \in Clients \ {c} : cl'[d] = cl[d]
    BY <2>1, <2>5 DEF LibFields
  <2>7. toA'[c] = Append(toA[c], m) /\ \A d \in Clients \ {c} : toA'[d] = toA[d]  BY <2>1, <2>5
  <2>8. Ends(toA[c], m, toA'[c])
    <3>1. toA[c] \in Seq(ToAgent(W))  BY RowTypes
    <3>2. QED  BY <2>3, <2>7, <3>1, AppendEnds
  <2>9. Comes(ag.rcv[c], ag.buf[c], toA[c], m, ag.rcv[c], ag.buf[c], toA'[c])
    BY <2>4, <2>8, QueueChanges
  <2>10. /\ Row(F, ag.tbl, c, "open", cl[c], id, ag.rcv[c], ag.buf[c], toA[c], toC[c], Waits(ag, c))
         /\ Belongs(cl[c], c, id) /\ Uses(F, ag.tbl, ag.size)
    BY <2>2, RowNow
  <2>11. Rest(ag.tbl, c, cl[c], id, ag.rcv[c], ag.buf[c], toA[c], toC[c], Waits(ag, c))
         /\ Known(F, ag.tbl, c, cl[c], id)
    BY <2>10, RowRest
  <2>12. k = "register" => Fitting(F, ag.tbl, c, x)
    <3>1. Held(ag.tbl, c) = Named(cl[c], id)  BY <2>11 DEF Rest
    <3>2. QED  BY <2>10, <2>11, <3>1, RestFits
  <2>13. IF m.k = "register" THEN Fitting(F, ag.tbl, c, cl'[c].sub) ELSE cl'[c].sub = None
    BY <2>3, <2>6, <2>12
  <2>14. Row(F, ag.tbl, c, "open", cl'[c], id, ag.rcv[c], ag.buf[c], toA'[c], toC[c], Waits(ag, c))
    BY <2>3, <2>6, <2>9, <2>10, <2>13, RowRequest
  <2>15. Belongs(cl'[c], c, id')  BY <2>1, <2>6, <2>10 DEF Belongs
  <2>16. Row(F, ag.tbl, c, conn'[c], cl'[c], id', ag.rcv[c], ag.buf[c], toA'[c], toC'[c], Waits(ag, c))
    BY <2>1, <2>2, <2>14
  <2>17. QED  BY <2>1, <2>6, <2>7, <2>15, <2>16, ClientDeal
<1>3. QED  BY <1>1, <1>2

LEMMA DeregisterDeal ==
  ASSUME NEW F, DInv(F), LInv, NEW W, BInv(W), NEW x \in Ctxs, deregister_imcontext(x)
  PROVE  DInv(F)'
<1> DEFINE c == Owner[x]
<1>1. c \in Clients /\ id[x] \in W /\ DOMAIN id = Ctxs  BY OwnerAssumption DEF BInv, Lines
<1>2. cl[c].up /\ cl[c].want = None /\ (x \in cl[c].list \/ cl[c].list = {})
  BY DEF deregister_imcontext, Idle
<1>3. CASE conn[c] = "cut"
  <2>1. close_messenger(c, cl[c].list \ {x})  BY <1>3 DEF deregister_imcontext
  <2>2. cl[c].list \ {x} \in SUBSET Listed(c)  BY DEF Listed
  <2>3. QED  BY <1>1, <1>3, <2>1, <2>2, CloseDeal
<1>4. CASE conn[c] # "cut"
  <2> DEFINE m == Msg("deregister", id[x], 0)
  <2>1. /\ toA' = [toA EXCEPT ![c] = Append(@, m)]
        /\ cl' = [cl EXCEPT ![c].want = AnswerTo("deregister"), ![c].list = @ \ {x}]
        /\ id' = [id EXCEPT ![x] = NoId] /\ UNCHANGED <<ag, conn, toC>>
    BY <1>4 DEF deregister_imcontext
  <2>0. Owner[x] = c  OBVIOUS
  <2> HIDE DEF c
  <2>2. conn[c] = "open"  BY <1>1, <1>2, <1>4 DEF LInv, Conns
  <2>3. m \in ToAgent(W)  BY <1>1, MsgTypes DEF Requests
  <2>4. m.k = "deregister" /\ m.id = id[x] /\ ~Question(m)  BY DEF Question, Msg
  <2> HIDE DEF m
  <2>5. DOMAIN cl = Clients /\ DOMAIN cl[c] = LibFields /\ DOMAIN toA = Clients
    BY <1>1 DEF LInv, Libs, BInv, Lines
  <2>6. /\ cl'[c].want = AnswerTo("deregister") /\ cl'[c].sub = cl[c].sub
        /\ cl'[c].list = cl[c].list \ {x}
        /\ cl'[c].rem = cl[c].rem /\ cl'[c].up = cl[c].up
        /\ \A d \in Clients \ {c} : cl'[d] = cl[d]
    BY <1>1, <2>1, <2>5 DEF LibFields
  <2>7. toA'[c] = Append(toA[c], m) /\ \A d \in Clients \ {c} : toA'[d] = toA[d]
    BY <1>1, <2>1, <2>5
  <2>8. Ends(toA[c], m, toA'[c])
    <3>1. toA[c] \in Seq(ToAgent(W))  BY <1>1, RowTypes
    <3>2. QED  BY <2>3, <2>7, <3>1, AppendEnds
  <2>9. Comes(ag.rcv[c], ag.buf[c], toA[c], m, ag.rcv[c], ag.buf[c], toA'[c])
    BY <2>4, <2>8, QueueChanges
  <2>10. /\ Row(F, ag.tbl, c, "open", cl[c], id, ag.rcv[c], ag.buf[c], toA[c], toC[c], Waits(ag, c))
         /\ Belongs(cl[c], c, id)
    BY <1>1, <2>2, RowNow
  <2>11. \A y \in Ctxs : y # x => id'[y] = id[y]  BY <1>1, <2>1
  <2>12. \A y \in cl[c].list : y # x => id'[y] = id[y]  BY <2>10, <2>11 DEF Belongs
  <2>13. Row(F, ag.tbl, c, "open", cl'[c], id', ag.rcv[c], ag.buf[c], toA'[c], toC[c], Waits(ag, c))
    BY <1>2, <2>4, <2>6, <2>9, <2>10, <2>12, RowDeregister
  <2>20. id'[x] = NoId  BY <1>1, <2>1
  <2>14. Belongs(cl'[c], c, id')  BY <2>6, <2>10, <2>11, <2>20 DEF Belongs
  <2>15. \A y \in Ctxs : Owner[y] # c => id'[y] = id[y]  BY <2>0, <2>11
  <2>16. Row(F, ag.tbl, c, conn'[c], cl'[c], id', ag.rcv[c], ag.buf[c], toA'[c], toC'[c], Waits(ag, c))
    BY <2>1, <2>2, <2>13
  <2>17. UNCHANGED ag /\ \A d \in Clients \ {c} :
           conn'[d] = conn[d] /\ toA'[d] = toA[d] /\ toC'[d] = toC[d] /\ cl'[d] = cl[d]
    BY <2>1, <2>6, <2>7
  <2>18. c \in Clients  BY <1>1
  <2>19. QED  BY <2>14, <2>15, <2>16, <2>17, <2>18, ClientDeal
<1>5. QED  BY <1>3, <1>4

\* The agent that is launched is as the one that was not running.
LEMMA NewAgentSame ==
  /\ Tables(NoAgent, NewAgent) /\ NewAgent.rcv = NoAgent.rcv /\ NewAgent.buf = NoAgent.buf
  /\ NewAgent.ask = NoAgent.ask
<1> DEFINE a == NewAgent
<1>1. DOMAIN a = AgentFields  BY DEF NewAgent, AgentFields
<1>2. NoAgent = [a EXCEPT !.up = FALSE]  BY DEF NoAgent
<1> HIDE DEF a
<1>3. Tables(NoAgent, a) /\ a.rcv = NoAgent.rcv /\ a.buf = NoAgent.buf /\ a.ask = NoAgent.ask
  BY <1>1, <1>2 DEF Tables, AgentFields
<1>4. QED  BY <1>3 DEF a

LEMMA OpenDeal ==
  ASSUME NEW F, DInv(F), LInv, NEW c \in Clients, open_messenger(c)
  PROVE  DInv(F)'
<1>1. /\ conn[c] = None /\ conn' = [conn EXCEPT ![c] = "open"] /\ UNCHANGED <<id, toA, toC>>
      /\ cl' = [cl EXCEPT ![c] = [NewClient EXCEPT !.up = TRUE, !.rem = cl[c].list]]
      /\ (ag' = ag \/ (~ag.up /\ ag' = NewAgent))
  BY DEF open_messenger
<1>2. DOMAIN conn = Clients /\ DOMAIN cl = Clients  BY DEF LInv, Conns, Libs
<1>3. conn'[c] = "open" /\ \A d \in Clients \ {c} : conn'[d] = conn[d] /\ cl'[d] = cl[d]
  BY <1>1, <1>2
<1>4. cl'[c] = [NewClient EXCEPT !.up = TRUE, !.rem = cl[c].list]  BY <1>1, <1>2
<1>5. cl'[c].list = {} /\ cl'[c].rem = cl[c].list /\ cl'[c].sub = None /\ cl'[c].want = None
  BY <1>4 DEF NewClient
<1>6. Belongs(cl[c], c, id)  BY RowNow
<1>7. Belongs(cl'[c], c, id')
  <2>1. id' = id /\ ~cl[c].up  BY <1>1 DEF open_messenger
  <2>2. QED  BY <1>5, <1>6, <2>1 DEF Belongs
<1>8. Tables(ag, ag') /\ ag'.rcv = ag.rcv /\ ag'.buf = ag.buf /\ ag'.ask = ag.ask
  <2>1. ag.up \/ ag = NoAgent  BY DEF LInv, Guests
  <2>2. CASE ag' = ag  BY <2>2 DEF Tables
  <2>3. CASE ag = NoAgent /\ ag' = NewAgent  BY <2>3, NewAgentSame
  <2>4. QED  BY <1>1, <2>1, <2>2, <2>3
<1> DEFINE b == ag'
<1>9. Tables(ag, b) /\ b.rcv = ag.rcv /\ b.buf = ag.buf /\ b.ask = ag.ask  BY <1>8
<1>10. b = ag'  OBVIOUS
<1> HIDE DEF b
<1>11. Pool(b, F)  BY <1>9, TablesPool DEF DInv, Deal
<1>12. /\ c \notin ag.lst /\ Guests(ag)
       /\ At(None, ag.rcv[c], ag.buf[c], toA[c], toC[c], ag.tmo[c])
  BY <1>1, OwnerAssumption DEF LInv, Conns, Guests, Fine, None
<1>13. ag.rcv[c] = <<>> /\ ag.buf[c] = <<>> /\ toA[c] = <<>> /\ toC[c] = <<>>  BY <1>12 DEF At
<1>14. Held(ag.tbl, c) = {}
  <2>1. \A i \in Ids : ag.tbl[i] # c  BY <1>12, OwnerAssumption DEF Guests
  <2>2. QED  BY <2>1 DEF Held
<1>16. Row(F, ag.tbl, c, "open", cl'[c], id, <<>>, <<>>, <<>>, <<>>, None)
  BY <1>5, <1>14, RowOpens
<1>17. Waits(ag, c) = None  BY <1>1, ClosedWaits DEF None
<1>18. \A d : Waits(b, d) = Waits(ag, d)  BY <1>9 DEF Waits
<1>19. ASSUME NEW d \in Clients
       PROVE  Row(F, ag.tbl, d, conn'[d], cl'[d], id, ag.rcv[d], ag.buf[d], toA[d], toC[d],
                  Waits(ag, d)) /\ Belongs(cl'[d], d, id')
  <2>1. CASE d = c  BY <1>3, <1>7, <1>13, <1>16, <1>17, <2>1
  <2>2. CASE d # c  BY <1>1, <1>3, <2>2, RowNow
  <2>3. QED  BY <2>1, <2>2
<1>20. \A d \in Clients :
         Row(F, b.tbl, d, conn'[d], cl'[d], id', b.rcv[d], b.buf[d], toA'[d], toC'[d], Waits(b, d))
  BY <1>1, <1>9, <1>18, <1>19 DEF Tables
<1>21. Deal(F, ag, toA, toC)'  BY <1>10, <1>11, <1>20 DEF Deal
<1>22. (\A d \in Clients : Belongs(cl[d], d, id))'  BY <1>19
<1>23. QED  BY <1>21, <1>22 DEF DInv

LEMMA CallsDeal ==
  ASSUME NEW F, DInv(F), LInv, NEW W, BInv(W), NEW c \in Clients, Calls(c)
  PROVE  DInv(F)'
<1>1. CASE open_messenger(c)  BY <1>1, OpenDeal
<1>2. ASSUME NEW x \in Ctxs, Owner[x] = c,
             \/ register_imcontext(x) \/ deregister_imcontext(x)
             \/ reset_imcontext(x) \/ handle_key_event(x) \/ change_focus(x)
      PROVE  DInv(F)'
  <2>1. id[x] \in W /\ NoId \in W  BY DEF BInv, Lines
  <2>2. \A k \in {"register", "reset", "key", "in", "out"} : k \in Requests \ {"got", "deregister"}
    BY DEF Requests
  <2>3. Idle(c) => cl[c].up /\ cl[c].want = None  BY DEF Idle
  <2>4. CASE register_imcontext(x)
    <3>1. Idle(c) /\ id[x] = NoId /\ Request(c, "register", NoId, x)
      BY <1>2, <2>4 DEF register_imcontext
    <3>2. QED  BY <1>2, <2>1, <2>2, <2>3, <3>1, RequestDeal
  <2>5. CASE deregister_imcontext(x)  BY <2>5, DeregisterDeal
  <2>6. ASSUME NEW k \in {"reset", "key", "in", "out"}, Idle(c), Request(c, k, id[x], None)
        PROVE  DInv(F)'
    BY <1>2, <2>1, <2>2, <2>3, <2>6, RequestDeal
  <2>7. CASE reset_imcontext(x)  BY <1>2, <2>6, <2>7 DEF reset_imcontext
  <2>8. CASE handle_key_event(x)  BY <1>2, <2>6, <2>8 DEF handle_key_event
  <2>9. CASE change_focus(x)  BY <1>2, <2>6, <2>9 DEF change_focus
  <2>10. QED  BY <1>2, <2>4, <2>5, <2>7, <2>8, <2>9
<1>3. QED  BY <1>1, <1>2 DEF Calls

LEMMA DispatchDeal ==
  ASSUME NEW F, DInv(F), LInv, NEW W, BInv(W), NEW c \in Clients, read_and_dispatch(c)
  PROVE  DInv(F)'
<1> DEFINE m == Head(toC[c])  l == Msg("got", m.id, m.q)
<1>1. toC[c] # <<>> /\ cl[c].up  BY DEF read_and_dispatch
<1>2. conn[c] \in {"open", "cut"}  BY <1>1 DEF LInv, Conns
<1>3. toC[c] \in Seq(ToClient(W)) /\ m \in ToClient(W)  BY <1>1, Taken DEF BInv, Lines
<1>4. CASE m.k = "get" /\ conn[c] = "cut"
  <2>1. close_messenger(c, Listed(c))  BY <1>4 DEF read_and_dispatch
  <2>2. Listed(c) \in SUBSET Listed(c)  OBVIOUS
  <2>3. QED  BY <1>4, <2>1, <2>2, CloseDeal
<1>5. CASE ~(m.k = "get" /\ conn[c] = "cut")
  <2>1. toC' = [toC EXCEPT ![c] = Tail(@)] /\ UNCHANGED <<ag, conn>>
    BY <1>5 DEF read_and_dispatch
  <2>2. \/ m.k = "get" /\ toA' = [toA EXCEPT ![c] = Append(@, l)] /\ UNCHANGED <<cl, id>>
        \/ m.k # "get" /\ UNCHANGED toA /\ Answered(c, m)
    BY <1>5 DEF read_and_dispatch
  <2>3. Question(m) <=> m.k = "get"  BY <1>3 DEF Question, ToClient, Answers
  <2>4. l \in ToAgent(W) /\ Question(l)
    <3>1. m.id \in W /\ m.q \in Nat  BY <1>3 DEF ToClient
    <3>2. l \in ToAgent(W)  BY <3>1, MsgTypes DEF Requests
    <3>3. l.k = "got"  BY DEF Msg
    <3>4. QED  BY <3>2, <3>3 DEF Question
  <2>5. Starts(toC[c], m, Tail(toC[c]))  BY <1>1, <1>3, TailStarts
  <2> HIDE DEF m, l
  <2>6. DOMAIN toA = Clients /\ DOMAIN toC = Clients /\ DOMAIN cl = Clients /\ DOMAIN cl[c] = LibFields
        /\ DOMAIN id = Ctxs
    BY DEF BInv, Lines, LInv, Libs
  <2>7. toC'[c] = Tail(toC[c]) /\ \A d \in Clients \ {c} : toC'[d] = toC[d]  BY <2>1, <2>6
  <2>8. Starts(toC[c], m, toC'[c])  BY <2>5, <2>7
  <2>9. /\ Row(F, ag.tbl, c, conn[c], cl[c], id, ag.rcv[c], ag.buf[c], toA[c], toC[c], Waits(ag, c))
        /\ Belongs(cl[c], c, id) /\ Uses(F, ag.tbl, ag.size)
    BY RowNow
  <2>10. CASE m.k = "get"
    <3>1. conn[c] = "open"  BY <1>2, <1>5, <2>10
    <3>2. toA' = [toA EXCEPT ![c] = Append(@, l)] /\ UNCHANGED <<cl, id>>  BY <2>2, <2>10
    <3>3. toA'[c] = Append(toA[c], l) /\ \A d \in Clients \ {c} : toA'[d] = toA[d]
      BY <2>6, <3>2
    <3>4. Ends(toA[c], l, toA'[c])
      <4>1. toA[c] \in Seq(ToAgent(W))  BY RowTypes
      <4>2. QED  BY <2>4, <3>3, <4>1, AppendEnds
    <3>5. Even(ag.rcv[c], ag.buf[c], toA[c], ag.rcv[c], ag.buf[c], toA'[c])
      BY <2>4, <3>4, QueueChanges
    <3>6. Alike(toC[c], toC'[c])  BY <2>3, <2>8, <2>10, LineChanges
    <3>7. Row(F, ag.tbl, c, conn[c], cl[c], id, ag.rcv[c], ag.buf[c], toA'[c], toC'[c], Waits(ag, c))
      BY <2>9, <3>5, <3>6, RowEven
    <3>8. /\ UNCHANGED ag /\ Belongs(cl'[c], c, id')
          /\ Row(F, ag.tbl, c, conn'[c], cl'[c], id', ag.rcv[c], ag.buf[c], toA'[c], toC'[c], Waits(ag, c))
      BY <2>1, <2>9, <3>2, <3>7
    <3>9. \A d \in Clients \ {c} : conn'[d] = conn[d] /\ toA'[d] = toA[d] /\ toC'[d] = toC[d] /\ cl'[d] = cl[d]
      BY <2>1, <2>7, <3>2, <3>3
    <3>10. \A x \in Ctxs : Owner[x] # c => id'[x] = id[x]  BY <3>2
    <3>11. QED  BY <3>8, <3>9, <3>10, ClientDeal
  <2>11. CASE m.k # "get"
    <3> DEFINE q == cl[c].sub
    <3>1. UNCHANGED toA /\ ~Question(m) /\ Answered(c, m)  BY <2>2, <2>3, <2>11
    <3>2. CASE m.k # cl[c].want
      <4>1. UNCHANGED <<cl, id>>  BY <3>1, <3>2 DEF Answered
      <4>2. conn[c] # "open"
        <5> SUFFICES ASSUME conn[c] = "open" PROVE m.k = cl[c].want  BY <3>2
        <5>1. Row(F, ag.tbl, c, "open", cl[c], id, ag.rcv[c], ag.buf[c], toA[c], toC[c], Waits(ag, c))
          BY <2>9
        <5>2. QED  BY <2>8, <3>1, <5>1, RowTold
      <4>3. conn[c] = "cut"  BY <1>2, <4>2
      <4>4. Row(F, ag.tbl, c, conn'[c], cl'[c], id', ag.rcv[c], ag.buf[c], toA'[c], toC'[c], Waits(ag, c))
        BY <2>1, <4>3, ClosedWaits, RowClosed
      <4>5. UNCHANGED ag /\ Belongs(cl'[c], c, id')  BY <2>1, <2>9, <4>1
      <4>6. \A d \in Clients \ {c} : conn'[d] = conn[d] /\ toA'[d] = toA[d] /\ toC'[d] = toC[d] /\ cl'[d] = cl[d]
        BY <2>1, <2>7, <3>1, <4>1
      <4>7. \A x \in Ctxs : Owner[x] # c => id'[x] = id[x]  BY <4>1
      <4>8. QED  BY <4>4, <4>5, <4>6, <4>7, ClientDeal
    <3>3. CASE m.k = cl[c].want
      <4>1. /\ cl' = [cl EXCEPT ![c].want = None, ![c].sub = None, ![c].rem = @ \ {q},
                                ![c].list = IF q = None THEN @ ELSE @ \cup {q}]
            /\ id' = IF q = None THEN id ELSE [id EXCEPT ![q] = m.id]
        BY <3>1, <3>3 DEF Answered
      <4> HIDE DEF q
      <4>2. /\ cl'[c].want = None /\ cl'[c].sub = None /\ cl'[c].rem = cl[c].rem \ {q}
            /\ cl'[c].list = (IF q = None THEN cl[c].list ELSE cl[c].list \cup {q})
            /\ cl'[c].up = cl[c].up /\ \A d \in Clients \ {c} : cl'[d] = cl[d]
        BY <2>6, <4>1 DEF LibFields
      <4>3. q # None => q \in Ctxs /\ Owner[q] = c  BY <2>9 DEF Belongs, q
      <4>4. \A x \in Ctxs : id'[x] = IF x = q THEN m.id ELSE id[x]
        <5>1. None \notin Ctxs  BY OwnerAssumption
        <5>2. QED  BY <2>6, <4>1, <4>3, <5>1
      <4>5. \A x \in cl[c].list \cup cl[c].rem : x \in Ctxs /\ Owner[x] = c  BY <2>9 DEF Belongs
      <4>6. Belongs(cl'[c], c, id')
        <5>1. \A x \in Ctxs : Owner[x] = c /\ (x \in cl'[c].list => ~cl'[c].up) => id'[x] = NoId
          <6> SUFFICES ASSUME NEW x \in Ctxs, Owner[x] = c, x \notin cl'[c].list PROVE id'[x] = NoId
            BY <1>1, <4>2
          <6>1. x # q /\ x \notin cl[c].list  BY <4>2, OwnerAssumption
          <6>2. id[x] = NoId  BY <2>9, <6>1 DEF Belongs
          <6>3. QED  BY <4>4, <6>1, <6>2
        <5>2. QED  BY <4>2, <4>3, <4>5, <5>1 DEF Belongs
      <4>7. \A x \in cl'[c].list : id'[x] = IF x = q THEN m.id ELSE id[x]  BY <4>2, <4>3, <4>4, <4>5
      <4>8. Row(F, ag.tbl, c, conn[c], cl'[c], id', ag.rcv[c], ag.buf[c], toA[c], toC'[c], Waits(ag, c))
        <5>1. CASE conn[c] = "open"
          <6>1. Row(F, ag.tbl, c, "open", cl[c], id, ag.rcv[c], ag.buf[c], toA[c], toC[c], Waits(ag, c))
            BY <2>9, <5>1
          <6>2. \A k, e : /\ k.want = None /\ k.sub = None
                          /\ k.list = (IF cl[c].sub = None THEN cl[c].list ELSE cl[c].list \cup {cl[c].sub})
                          /\ \A x \in k.list : e[x] = IF x = cl[c].sub THEN m.id ELSE id[x]
                   => Row(F, ag.tbl, c, "open", k, e, ag.rcv[c], ag.buf[c], toA[c], toC'[c], Waits(ag, c))
            BY <2>8, <2>9, <3>1, <6>1, RowAnswered
          <6>3. Row(F, ag.tbl, c, "open", cl'[c], id', ag.rcv[c], ag.buf[c], toA[c], toC'[c], Waits(ag, c))
            <7> DEFINE k == cl'[c]  e == id'
            <7>1. /\ k.want = None /\ k.sub = None
                  /\ k.list = (IF q = None THEN cl[c].list ELSE cl[c].list \cup {q})
                  /\ \A x \in k.list : e[x] = IF x = q THEN m.id ELSE id[x]
              BY <4>2, <4>7
            <7>2. q = cl[c].sub  BY DEF q
            <7> HIDE DEF k, e
            <7>3. Row(F, ag.tbl, c, "open", k, e, ag.rcv[c], ag.buf[c], toA[c], toC'[c], Waits(ag, c))
              BY <6>2, <7>1, <7>2
            <7>4. QED  BY <7>3 DEF k, e
          <6>4. QED  BY <5>1, <6>3
        <5>2. CASE conn[c] = "cut"  BY <5>2, ClosedWaits, RowClosed
        <5>3. QED  BY <1>2, <5>1, <5>2
      <4>9. UNCHANGED ag /\ Row(F, ag.tbl, c, conn'[c], cl'[c], id', ag.rcv[c], ag.buf[c], toA'[c], toC'[c], Waits(ag, c))
        BY <2>1, <3>1, <4>8
      <4>10. \A d \in Clients \ {c} : conn'[d] = conn[d] /\ toA'[d] = toA[d] /\ toC'[d] = toC[d] /\ cl'[d] = cl[d]
        BY <2>1, <2>7, <3>1, <4>2
      <4>11. \A x \in Ctxs : Owner[x] # c => id'[x] = id[x]
        <5>1. None \notin Ctxs  BY OwnerAssumption
        <5>2. QED  BY <4>3, <4>4, <5>1
      <4>12. QED  BY <4>6, <4>9, <4>10, <4>11, ClientDeal
    <3>4. QED  BY <3>2, <3>3
  <2>12. QED  BY <2>10, <2>11
<1>6. QED  BY <1>4, <1>5

LEMMA LibraryDeal ==
  ASSUME NEW F, DInv(F), LInv, NEW W, BInv(W), NEW c \in Clients, Library(c)
  PROVE  DInv(F)'
<1>1. CASE RegisterAgain(c)
  <2>1. PICK x \in cl[c].rem : id[x] = NoId /\ Request(c, "register", NoId, x)
    BY <1>1 DEF RegisterAgain
  <2>2. cl[c].up /\ cl[c].want = None /\ NoId \in W  BY <1>1 DEF RegisterAgain, BInv, Lines
  <2>3. x \in Ctxs /\ Owner[x] = c  BY RowNow DEF Belongs
  <2>4. "register" \in Requests \ {"got", "deregister"}  BY DEF Requests
  <2>5. QED  BY <2>1, <2>2, <2>3, <2>4, RequestDeal
<1>2. CASE read_and_dispatch(c)  BY <1>2, DispatchDeal
<1>3. CASE Disconnected(c)
  <2>1. close_messenger(c, Listed(c)) /\ conn[c] = "cut"  BY <1>3 DEF Disconnected
  <2>2. QED  BY <2>1, CloseDeal
<1>4. QED  BY <1>1, <1>2, <1>3 DEF Library

LEMMA DiesDeal ==
  ASSUME NEW F, DInv(F), LInv, NEW W, BInv(W), NEW c \in Clients, ClientDies(c)
  PROVE  DInv(F)'
<1>1. /\ cl[c].up /\ cl' = [cl EXCEPT ![c] = NewClient]
      /\ id' = [x \in Ctxs |-> IF Owner[x] = c THEN NoId ELSE id[x]]
      /\ conn' = [conn EXCEPT ![c] = IF @ = "cut" THEN None ELSE "left"]
      /\ toC' = [toC EXCEPT ![c] = <<>>] /\ UNCHANGED <<toA, ag>>
  BY DEF ClientDies
<1>2. DOMAIN toC = Clients /\ DOMAIN conn = Clients /\ DOMAIN cl = Clients
  BY DEF BInv, Lines, LInv, Conns, Libs
<1>3. /\ conn'[c] = (IF conn[c] = "cut" THEN None ELSE "left")
      /\ \A d \in Clients \ {c} : conn'[d] = conn[d] /\ toC'[d] = toC[d] /\ cl'[d] = cl[d]
                                  /\ toA'[d] = toA[d]
  BY <1>1, <1>2
<1>4. cl'[c] = NewClient  BY <1>1, <1>2
<1>5. Belongs(cl'[c], c, id')
  <2>1. \A x \in Ctxs : Owner[x] = c => id'[x] = NoId  BY <1>1
  <2>2. QED  BY <1>4, <2>1 DEF NewClient, Belongs
<1>6. conn[c] \in {"open", "cut"}  BY <1>1 DEF LInv, Conns
<1>7. \A x \in Ctxs : Owner[x] # c => id'[x] = id[x]  BY <1>1
<1>8. Row(F, ag.tbl, c, conn'[c], cl'[c], id', ag.rcv[c], ag.buf[c], toA[c], toC'[c], Waits(ag, c))
  <2>1. CASE conn[c] = "open"
    <3>1. Row(F, ag.tbl, c, "open", cl[c], id, ag.rcv[c], ag.buf[c], toA[c], toC[c], Waits(ag, c))
      BY <2>1, RowNow
    <3>2. conn'[c] = "left"  BY <1>3, <2>1
    <3>3. QED  BY <3>1, <3>2, RowDies
  <2>2. CASE conn[c] = "cut"
    <3>1. conn'[c] = None  BY <1>3, <2>2
    <3>2. QED  BY <2>2, <3>1, ClosedWaits, RowClosed DEF None
  <2>3. QED  BY <1>6, <2>1, <2>2
<1>9. Row(F, ag.tbl, c, conn'[c], cl'[c], id', ag.rcv[c], ag.buf[c], toA'[c], toC'[c], Waits(ag, c))
  BY <1>1, <1>8
<1>10. QED  BY <1>1, <1>3, <1>5, <1>7, <1>9, ClientDeal

-----------------------------------------------------------------------------
(* The steps of the agent.                                                 *)

LEMMA DealNext ==
  ASSUME NEW F, DInv(F), NEW G, NEW b, ag' = b, Deal(G, b, toA', toC'), UNCHANGED <<cl, id, conn>>
  PROVE  DInv(G)'
<1>1. Deal(G, ag, toA, toC)'  BY DEF Deal
<1>2. (\A c \in Clients : Belongs(cl[c], c, id))'  BY DEF DInv
<1>3. QED  BY <1>1, <1>2 DEF DInv

\* From a to b the queues and requests of no client but c change.
Near(a, b, c) ==
  \A d \in Clients \ {c} :
    b.rcv[d] = a.rcv[d] /\ b.buf[d] = a.buf[d] /\ Waits(b, d) = Waits(a, d)

\* The contexts of no client but c change.
Apart(F, T, G, U, c) ==
  \A d \in Clients \ {c} :
    /\ Held(U, d) = Held(T, d) /\ \A i \in Held(T, d) : G[i] = F[i]
    /\ \A x : Fitting(F, T, d, x) => Fitting(G, U, d, x)

LEMMA NobodyWaits ==
  ASSUME NEW a, a.ask = NoAsk
  PROVE  \A d : Waits(a, d) = None
BY DEF Waits, NoAsk

\* Row by row.
LEMMA DealRow ==
  ASSUME NEW F, NEW a, NEW s, NEW t, Deal(F, a, s, t), NEW c \in Clients, NEW G, NEW b,
         Pool(b, G), Near(a, b, c), Apart(F, a.tbl, G, b.tbl, c), NEW u, NEW v,
         \A d \in Clients \ {c} : u[d] = s[d] /\ v[d] = t[d],
         Row(G, b.tbl, c, conn[c], cl[c], id, b.rcv[c], b.buf[c], u[c], v[c], Waits(b, c))
  PROVE  Deal(G, b, u, v)
<1>1. ASSUME NEW d \in Clients
      PROVE  Row(G, b.tbl, d, conn[d], cl[d], id, b.rcv[d], b.buf[d], u[d], v[d], Waits(b, d))
  <2>1. CASE d = c  BY <2>1
  <2>2. CASE d # c
    <3>1. Row(F, a.tbl, d, conn[d], cl[d], id, a.rcv[d], a.buf[d], s[d], t[d], Waits(a, d))
      BY DEF Deal
    <3>2. /\ Held(b.tbl, d) = Held(a.tbl, d) /\ \A i \in Held(a.tbl, d) : G[i] = F[i]
          /\ \A x : Fitting(F, a.tbl, d, x) => Fitting(G, b.tbl, d, x)
      BY <2>2 DEF Apart
    <3>3. Row(G, b.tbl, d, conn[d], cl[d], id, a.rcv[d], a.buf[d], s[d], t[d], Waits(a, d))
      BY <3>1, <3>2, RowApart
    <3>4. b.rcv[d] = a.rcv[d] /\ b.buf[d] = a.buf[d] /\ Waits(b, d) = Waits(a, d)  BY <2>2 DEF Near
    <3>5. u[d] = s[d] /\ v[d] = t[d]  BY <2>2
    <3>6. QED  BY <3>3, <3>4, <3>5
  <2>3. QED  BY <2>1, <2>2
<1>2. QED  BY <1>1 DEF Deal

LEMMA SameApart == \A F, T, c : Apart(F, T, F, T, c)
BY DEF Apart

\* The queues of c change evenly, and its contexts stay.
LEMMA DealEven ==
  ASSUME NEW F, NEW a, NEW s, NEW t, Deal(F, a, s, t), NEW c \in Clients, NEW b, Tables(a, b),
         Near(a, b, c), Waits(b, c) = Waits(a, c), NEW u, NEW v,
         \A d \in Clients \ {c} : u[d] = s[d] /\ v[d] = t[d],
         Even(a.rcv[c], a.buf[c], s[c], b.rcv[c], b.buf[c], u[c]), Alike(t[c], v[c])
  PROVE  Deal(F, b, u, v)
<1>1. Pool(b, F)  BY TablesPool DEF Deal
<1>2. Apart(F, a.tbl, F, b.tbl, c)  BY SameApart DEF Tables
<1>3. Row(F, a.tbl, c, conn[c], cl[c], id, a.rcv[c], a.buf[c], s[c], t[c], Waits(a, c))
  BY DEF Deal
<1>4. Row(F, a.tbl, c, conn[c], cl[c], id, b.rcv[c], b.buf[c], u[c], v[c], Waits(a, c))
  BY <1>3, RowEven
<1>5. Row(F, b.tbl, c, conn[c], cl[c], id, b.rcv[c], b.buf[c], u[c], v[c], Waits(b, c))
  BY <1>4 DEF Tables
<1>6. QED  BY <1>1, <1>2, <1>5, DealRow

LEMMA DealSame ==
  ASSUME NEW F, NEW a, NEW s, NEW t, Deal(F, a, s, t), NEW b, Tables(a, b), b.rcv = a.rcv,
         b.buf = a.buf, b.ask.to = a.ask.to, b.ask.k = a.ask.k
  PROVE  Deal(F, b, s, t)
<1>1. Pool(b, F)  BY TablesPool DEF Deal
<1>2. \A d : Waits(b, d) = Waits(a, d)  BY DEF Waits
<1>3. QED  BY <1>1, <1>2 DEF Deal, Tables

LEMMA AcceptDeal ==
  ASSUME NEW F, DInv(F), NEW W, BInv(W), NEW c \in Clients, Accept(c)
  PROVE  DInv(F)'
<1> DEFINE b == [ag EXCEPT !.lst = @ \cup {c}]
<1>1. ag' = b /\ UNCHANGED <<cl, id, conn, toA, toC>>  BY DEF Accept, Keep
<1>2. DOMAIN ag = AgentFields  BY DEF BInv, Contexts
<1>3. Tables(ag, b) /\ b.rcv = ag.rcv /\ b.buf = ag.buf /\ b.ask = ag.ask
  BY <1>2 DEF Tables, AgentFields
<1> HIDE DEF b
<1>4. Deal(F, b, toA, toC)  BY <1>3, DealSame DEF DInv
<1>5. Deal(F, b, toA', toC')  BY <1>1, <1>4
<1>6. QED  BY <1>1, <1>5, DealNext

LEMMA RoundDeal ==
  ASSUME NEW F, DInv(F), NEW W, BInv(W), Round \/ \E c \in Clients : EndVisit(c)
  PROVE  DInv(F)'
<1>1. DOMAIN ag = AgentFields  BY DEF BInv, Contexts
<1>2. UNCHANGED <<cl, id, conn, toA, toC>>  BY DEF Round, EndVisit, Keep
<1>3. PICK i, d : ag' = [ag EXCEPT !.intr = i, !.due = d]
  <2>1. CASE Round  BY <2>1 DEF Round
  <2>2. ASSUME NEW c \in Clients, EndVisit(c)
        PROVE  \E i, d : ag' = [ag EXCEPT !.intr = i, !.due = d]
    <3>1. ag' = [ag EXCEPT !.due = @ \ {c}]  BY <2>2 DEF EndVisit
    <3>2. ag' = [ag EXCEPT !.intr = ag.intr, !.due = ag.due \ {c}]
      BY <1>1, <3>1 DEF AgentFields
    <3>3. QED  BY <3>2
  <2>3. QED  BY <2>1, <2>2
<1> DEFINE b == [ag EXCEPT !.intr = i, !.due = d]
<1>4. Tables(ag, b) /\ b.rcv = ag.rcv /\ b.buf = ag.buf /\ b.ask = ag.ask
  BY <1>1 DEF Tables, AgentFields
<1>5. ag' = b  BY <1>3
<1> HIDE DEF b
<1>6. Deal(F, b, toA, toC)  BY <1>4, DealSame DEF DInv
<1>7. Deal(F, b, toA', toC')  BY <1>2, <1>6
<1>8. QED  BY <1>2, <1>5, <1>7, DealNext

LEMMA ReadDeal ==
  ASSUME NEW F, DInv(F), LInv, NEW W, BInv(W), NEW c \in Clients, Read(c)
  PROVE  DInv(F)'
<1>1. PICK k \in Chunk(c) :
        /\ ag' = [ag EXCEPT !.rcv[c] = @ \o ag.buf[c] \o SubSeq(toA[c], 1, k),
                            !.buf[c] = <<>>, !.intr = TRUE]
        /\ toA' = [toA EXCEPT ![c] = SubSeq(@, k + 1, Len(@))]
  BY DEF Read
<1>2. UNCHANGED <<cl, id, conn, toC>>  BY DEF Read, Keep
<1> DEFINE x == SubSeq(toA[c], 1, k)
           y == SubSeq(toA[c], k + 1, Len(toA[c]))
           v == ag.rcv[c] \o ag.buf[c]
           w == v \o x
           R == [ag.rcv EXCEPT ![c] = w]
           B == [ag.buf EXCEPT ![c] = <<>>]
           b == [ag EXCEPT !.rcv = R, !.buf = B, !.intr = TRUE]
<1>3. /\ DOMAIN ag = AgentFields /\ DOMAIN toA = Clients /\ DOMAIN ag.rcv = Clients
      /\ DOMAIN ag.buf = Clients
  BY DEF BInv, Contexts, Queues, Lines
<1>4. ag' = b  BY <1>1, <1>3 DEF AgentFields
<1>5. toA' = [toA EXCEPT ![c] = y]  BY <1>1, <1>3
<1>6. k \in 1..Len(toA[c]) /\ toA[c] \in Seq(ToAgent(W))  BY RowTypes DEF Chunk
<1>7. Blends(x, y, toA[c]) /\ x \in Seq(ToAgent(W))  BY <1>6, SplitBlends, ReadSome
<1> HIDE DEF x, y
<1>8. Blends(ag.rcv[c], ag.buf[c], v) /\ v \in Seq(ToAgent(W))  BY RowTypes, ConcatBlends
<1> HIDE DEF v
<1>9. Blends(v, x, w)  BY <1>7, <1>8, ConcatBlends
<1> HIDE DEF w
<1>10. R[c] = w /\ B[c] = <<>> /\ \A d \in Clients \ {c} : R[d] = ag.rcv[d] /\ B[d] = ag.buf[d]
  BY <1>3
<1> HIDE DEF R, B
<1>11. b.rcv = R /\ b.buf = B /\ b.ask = ag.ask /\ Tables(ag, b)
  BY <1>3 DEF AgentFields, Tables
<1> HIDE DEF b
<1>12. \A d : Waits(b, d) = Waits(ag, d)  BY <1>11 DEF Waits
<1>13. Near(ag, b, c)  BY <1>10, <1>11, <1>12 DEF Near
<1>14. toA'[c] = y /\ \A d \in Clients \ {c} : toA'[d] = toA[d]  BY <1>3, <1>5
<1>15. Even(ag.rcv[c], ag.buf[c], toA[c], b.rcv[c], b.buf[c], toA'[c])
  <2>1. Even(ag.rcv[c], ag.buf[c], toA[c], w, <<>>, y)  BY <1>7, <1>8, <1>9, QueueMoves
  <2>2. QED  BY <1>10, <1>11, <1>14, <2>1
<1>16. Alike(toC[c], toC[c])  BY DEF Alike
<1>17. Deal(F, ag, toA, toC)  BY DEF DInv
<1>18. Deal(F, b, toA', toC)  BY <1>11, <1>12, <1>13, <1>14, <1>15, <1>16, <1>17, DealEven
<1>19. Deal(F, b, toA', toC')  BY <1>2, <1>18
<1>20. QED  BY <1>2, <1>4, <1>19, DealNext

LEMMA NewAgentWaits == \A c : Waits(NoAgent, c) = None
BY NobodyWaits DEF NoAgent, NewAgent

LEMMA CrashDeal ==
  ASSUME NEW F, DInv(F), LInv, ag' = NoAgent, UNCHANGED <<cl, id, toC>>,
         toA' = [c \in Clients |-> <<>>],
         conn' = [c \in Clients |-> IF conn[c] = "open" THEN "cut"
                                     ELSE IF conn[c] = "left" THEN None ELSE conn[c]]
  PROVE  DInv(F)'
<1>1. Pool(NoAgent, F)
  <2> DEFINE T == [i \in Ids |-> None]
  <2>1. NoAgent.tbl = T /\ NoAgent.size = 0 /\ NoAgent.free = <<>>
    BY DEF NoAgent, NewAgent
  <2>2. \A i \in Ids : T[i] = None  OBVIOUS
  <2> HIDE DEF T
  <2>3. DOMAIN F = Ids  BY DEF DInv, Deal, Pool, Uses
  <2>4. Uses(F, T, 0)  BY <2>2, <2>3, IdsAre DEF Uses
  <2>5. Spares(<<>>, T, 0)  BY IdsAre DEF Spares
  <2>6. QED  BY <2>1, <2>4, <2>5 DEF Pool
<1>2. \A c \in Clients : conn'[c] \notin {"open", "left"}  BY DEF LInv, Conns, None
<1> DEFINE b == NoAgent
<1>3. \A c \in Clients :
        Row(F, b.tbl, c, conn'[c], cl'[c], id', b.rcv[c], b.buf[c], toA'[c], toC'[c], Waits(b, c))
  BY <1>2, NewAgentWaits, RowClosed
<1>4. ag' = b /\ Pool(b, F)  BY <1>1
<1> HIDE DEF b
<1>5. Deal(F, ag, toA, toC)'  BY <1>3, <1>4 DEF Deal
<1>6. (\A c \in Clients : Belongs(cl[c], c, id))'  BY DEF DInv
<1>7. QED  BY <1>5, <1>6 DEF DInv

\* Contexts of client c are deleted.
LEMMA DestroyApart ==
  ASSUME NEW a, Contexts(a), NEW F, Pool(a, F), NEW c \in Clients, NEW S \in SUBSET Held(a.tbl, c)
  PROVE  LET b == Destroy(a, S)
         IN /\ Pool(b, F) /\ Apart(F, a.tbl, F, b.tbl, c)
            /\ Held(b.tbl, c) = Held(a.tbl, c) \ S
            /\ b.rcv = a.rcv /\ b.buf = a.buf /\ b.ask = a.ask
<1> DEFINE b == Destroy(a, S)  T == [i \in Ids |-> IF i \in S THEN None ELSE a.tbl[i]]
<1>1. None \notin Clients  BY OwnerAssumption
<1>2. S \in SUBSET Ids /\ \A i \in S : a.tbl[i] = c  BY DEF Held
<1>3. \A i \in S : a.tbl[i] # None  BY <1>1, <1>2
<1>4. Pool(b, F)  BY <1>2, <1>3, DestroyPools
<1>5. b.tbl = T  BY DEF Destroy, Contexts, AgentFields
<1>6. b.rcv = a.rcv /\ b.buf = a.buf /\ b.ask = a.ask  BY DestroyWorks DEF Works
<1>7. \A i \in Ids : T[i] = IF i \in S THEN None ELSE a.tbl[i]  OBVIOUS
<1> HIDE DEF b, T
<1>8. Held(T, c) = Held(a.tbl, c) \ S  BY <1>1, <1>7 DEF Held
<1>9. \A d \in Clients \ {c} : Held(T, d) = Held(a.tbl, d)  BY <1>1, <1>2, <1>7 DEF Held
<1>10. \A d, x : Fitting(F, a.tbl, d, x) => Fitting(F, T, d, x)  BY <1>7 DEF Fitting, Fresh
<1>11. Apart(F, a.tbl, F, T, c)  BY <1>9, <1>10 DEF Apart
<1>12. QED  BY <1>4, <1>5, <1>6, <1>8, <1>11 DEF b

LEMMA RemoveDeal ==
  ASSUME NEW F, DInv(F), LInv, NEW W, BInv(W), NEW c \in Clients, Running, c \in ag.lst,
         remove_client_listener(c)
  PROVE  DInv(F)'
<1>1. UNCHANGED <<cl, id, toC>>  BY DEF remove_client_listener, Keep
<1>2. CASE ag.lst = {c}
  <2>1. ag' = NoAgent  BY <1>2 DEF remove_client_listener
  <2>2. toA' = [d \in Clients |-> <<>>]  BY <1>2 DEF remove_client_listener
  <2>3. conn' = [d \in Clients |-> IF conn[d] = "open" THEN "cut"
                                    ELSE IF conn[d] = "left" THEN None ELSE conn[d]]
    BY <1>2 DEF remove_client_listener
  <2>4. QED  BY <1>1, <2>1, <2>2, <2>3, CrashDeal
<1>3. CASE ag.lst # {c}
  <2> DEFINE S == {i \in Ids : ag.tbl[i] = c}
             a == Destroy(ag, S)
             b == [Destroy(ag, S) EXCEPT !.lst = @ \ {c}, !.due = @ \ {c}, !.rcv[c] = <<>>,
                                         !.buf[c] = <<>>, !.tmo[c] = 0]
  <2>1. ag' = b  BY <1>3 DEF remove_client_listener
  <2>2. \A d \in Clients \ {c} : b.rcv[d] = ag.rcv[d] /\ b.buf[d] = ag.buf[d]
    BY RemovedGuests DEF BInv, LInv
  <2>3. S \in SUBSET Held(ag.tbl, c)  BY DEF Held
  <2>4. Contexts(ag) /\ Pool(ag, F)  BY DEF BInv, DInv, Deal
  <2>5. DOMAIN a = AgentFields  BY <2>4, DestroyWorks DEF Works, Contexts
  <2>6. Pool(a, F) /\ Apart(F, ag.tbl, F, a.tbl, c) /\ a.ask = ag.ask  BY <2>3, <2>4, DestroyApart
  <2> HIDE DEF S
  <2>7. Tables(a, b) /\ b.ask = a.ask
    <3> HIDE DEF a
    <3>1. b = [a EXCEPT !.lst = @ \ {c}, !.due = @ \ {c}, !.rcv[c] = <<>>, !.buf[c] = <<>>,
                        !.tmo[c] = 0]
      BY DEF a
    <3>2. QED  BY <2>5, <3>1 DEF Tables, AgentFields
  <2> HIDE DEF a, b
  <2>8. Pool(b, F)  BY <2>6, <2>7, TablesPool
  <2>9. /\ conn'[c] = IF conn[c] = "open" THEN "cut" ELSE IF conn[c] = "left" THEN None ELSE conn[c]
        /\ \A d \in Clients \ {c} : conn'[d] = conn[d] /\ toA'[d] = toA[d]
    BY <1>3 DEF remove_client_listener
  <2>10. conn'[c] \notin {"open", "left"}  BY <2>9 DEF LInv, Conns, None
  <2>11. \A d : Waits(b, d) = Waits(ag, d)  BY <2>6, <2>7 DEF Waits
  <2>12. ASSUME NEW d \in Clients
         PROVE  Row(F, b.tbl, d, conn'[d], cl[d], id, b.rcv[d], b.buf[d], toA'[d], toC[d], Waits(b, d))
    <3>1. CASE d = c
      <4>1. Waits(b, c) = None  BY <2>11, NobodyWaits DEF Running
      <4>2. QED  BY <2>10, <3>1, <4>1, RowClosed
    <3>2. CASE d # c
      <4>1. Row(F, ag.tbl, d, conn[d], cl[d], id, ag.rcv[d], ag.buf[d], toA[d], toC[d], Waits(ag, d))
        BY RowNow
      <4>2. /\ Held(a.tbl, d) = Held(ag.tbl, d) /\ \A i \in Held(ag.tbl, d) : F[i] = F[i]
            /\ \A x : Fitting(F, ag.tbl, d, x) => Fitting(F, a.tbl, d, x)
        BY <2>6, <3>2 DEF Apart
      <4>3. Row(F, a.tbl, d, conn[d], cl[d], id, ag.rcv[d], ag.buf[d], toA[d], toC[d], Waits(ag, d))
        BY <4>1, <4>2, RowApart
      <4>4. b.tbl = a.tbl  BY <2>7 DEF Tables
      <4>5. QED  BY <2>2, <2>9, <2>11, <3>2, <4>3, <4>4
    <3>3. QED  BY <3>1, <3>2
  <2>13. Deal(F, ag, toA, toC)'  BY <1>1, <2>1, <2>8, <2>12 DEF Deal
  <2>14. (\A d \in Clients : Belongs(cl[d], d, id))'  BY <1>1 DEF DInv
  <2>15. QED  BY <2>13, <2>14 DEF DInv
<1>4. QED  BY <1>2, <1>3

\* From a to p request m of client c is processed, after which G is the map; x is the
\* context that it registers, if any.
Handles(F, a, c, m, x, p, G) ==
  /\ Pool(p, G) /\ Apart(F, a.tbl, G, p.tbl, c) /\ \A j \in Held(a.tbl, c) : G[j] = F[j]
  /\ Held(p.tbl, c) = IF m.k = "register" THEN Held(a.tbl, c) \cup {NewId(a)}
                      ELSE Held(a.tbl, c) \ (IF m.k = "deregister" THEN {m.id} ELSE {})
  /\ m.k = "register" => NewId(a) \in Ids /\ G[NewId(a)] = x
  /\ p.rcv = a.rcv /\ p.buf = a.buf /\ p.ask = a.ask

LEMMA ProcessDeal ==
  ASSUME NEW a, Contexts(a), NEW F, Pool(a, F), NEW c \in Clients, NEW m,
         m.k \in Requests \ {"got"}, NEW e, NEW x, m.k = "register" => Fitting(F, a.tbl, c, x)
  PROVE  \E G : Handles(F, a, c, m, x, process_message(a, c, m, e), G)
<1> DEFINE p == process_message(a, c, m, e)
           n == NewId(a)
           G == [F EXCEPT ![n] = x]
<1>1. p.rcv = a.rcv /\ p.buf = a.buf /\ p.ask = a.ask  BY ProcessWorks DEF Works
<1>2. CASE m.k = "register"
  <2>1. x \in Ctxs /\ Owner[x] = c /\ Fresh(F, a.tbl, x)  BY <1>2 DEF Fitting
  <2>2. p = alloc_imcontext(a, c)  BY <1>2, ProcessCases
  <2>3. n \in Ids /\ a.tbl[n] = None /\ p.tbl = [a.tbl EXCEPT ![n] = c] /\ Pool(p, G)
    BY <2>1, <2>2, AllocPools
  <2>4. DOMAIN F = Ids /\ DOMAIN a.tbl = Ids /\ None \notin Clients
    BY OwnerAssumption DEF Pool, Uses, Contexts
  <2> HIDE DEF p, n
  <2>5. \A i \in Ids : p.tbl[i] = IF i = n THEN c ELSE a.tbl[i]  BY <2>3, <2>4
  <2>6. \A i \in Ids : G[i] = IF i = n THEN x ELSE F[i]  BY <2>3, <2>4
  <2> HIDE DEF G
  <2>7. \A d \in Clients : n \notin Held(a.tbl, d)  BY <2>3, <2>4 DEF Held
  <2>8. Held(p.tbl, c) = Held(a.tbl, c) \cup {n}  BY <2>3, <2>5 DEF Held
  <2>9. \A d \in Clients \ {c} : Held(p.tbl, d) = Held(a.tbl, d)  BY <2>3, <2>4, <2>5 DEF Held
  <2>10. \A d \in Clients : \A j \in Held(a.tbl, d) : G[j] = F[j]  BY <2>6, <2>7 DEF Held
  <2>11. \A d \in Clients \ {c} : \A y : Fitting(F, a.tbl, d, y) => Fitting(G, p.tbl, d, y)
    BY <2>1, <2>5, <2>6 DEF Fitting, Fresh
  <2>12. Apart(F, a.tbl, G, p.tbl, c)  BY <2>9, <2>10, <2>11 DEF Apart
  <2>13. G[n] = x  BY <2>3, <2>6
  <2>14. Handles(F, a, c, m, x, p, G)
    BY <1>1, <1>2, <2>3, <2>8, <2>10, <2>12, <2>13 DEF Handles, n
  <2>15. QED  BY <2>14 DEF p
<1>3. CASE m.k = "deregister"
  <2>1. p = free_imcontext(a, c, m.id)  BY <1>3, ProcessCases
  <2>2. Pool(p, F) /\ Apart(F, a.tbl, F, p.tbl, c) /\ Held(p.tbl, c) = Held(a.tbl, c) \ {m.id}
    <3>1. CASE Found(a, m.id) /\ a.tbl[m.id] = c
      <4>1. {m.id} \in SUBSET Held(a.tbl, c)  BY <3>1 DEF Found, Held
      <4>2. p = Destroy(a, {m.id})  BY <2>1, <3>1 DEF free_imcontext
      <4>3. QED  BY <4>1, <4>2, DestroyApart
    <3>2. CASE ~(Found(a, m.id) /\ a.tbl[m.id] = c)
      <4>1. p = a  BY <2>1, <3>2 DEF free_imcontext
      <4>2. m.id \notin Held(a.tbl, c)  BY <3>2, OwnerAssumption DEF Found, Held
      <4>3. QED  BY <4>1, <4>2, SameApart
    <3>3. QED  BY <3>1, <3>2
  <2>3. Handles(F, a, c, m, x, p, F)  BY <1>1, <1>3, <2>2 DEF Handles
  <2>4. QED  BY <2>3
<1>4. CASE m.k \in {"reset", "key", "in", "out"}
  <2>1. Tables(a, p)  BY <1>4, ProcessTables
  <2>2. Pool(p, F) /\ p.tbl = a.tbl  BY <2>1, TablesPool DEF Tables
  <2>3. Apart(F, a.tbl, F, p.tbl, c)  BY <2>2, SameApart
  <2>4. Handles(F, a, c, m, x, p, F)  BY <1>1, <1>4, <2>2, <2>3 DEF Handles
  <2>5. QED  BY <2>4
<1>5. QED  BY <1>2, <1>3, <1>4 DEF Requests

\* A message is sent.
LEMMA SendEnds ==
  ASSUME NEW W, BInv(W), NEW c \in Clients, NEW l \in ToClient(W), Send(c, l)
  PROVE  /\ conn[c] = "open" => Ends(toC[c], l, toC'[c])
         /\ conn[c] # "open" => toC' = toC
         /\ \A d \in Clients \ {c} : toC'[d] = toC[d]
<1>1. CASE conn[c] # "open"  BY <1>1 DEF Send
<1>2. CASE conn[c] = "open"
  <2>1. toC' = [toC EXCEPT ![c] = Append(@, l)]  BY <1>2 DEF Send
  <2>2. DOMAIN toC = Clients /\ toC[c] \in Seq(ToClient(W))  BY DEF BInv, Lines
  <2>3. toC'[c] = Append(toC[c], l) /\ \A d \in Clients \ {c} : toC'[d] = toC[d]  BY <2>1, <2>2
  <2>4. Ends(toC[c], l, toC'[c])  BY <2>2, <2>3, AppendEnds
  <2>5. QED  BY <1>2, <2>3, <2>4
<1>3. QED  BY <1>1, <1>2

\* A request m of client c is taken from its queues, processed and answered.
LEMMA AnswersDeal ==
  ASSUME NEW F, DInv(F), NEW W, BInv(W), NEW c \in Clients, conn[c] \in {"open", "left"},
         NEW a, Contexts(a), Tables(ag, a), a.ask = ag.ask, Near(ag, a, c),
         NEW m, m.k \in Requests \ {"got"},
         Takes(ag.rcv[c], ag.buf[c], toA[c], m, a.rcv[c], a.buf[c], toA[c]),
         NEW e, ag' = process_message(a, c, m, e), Answer(a, c, m),
         UNCHANGED <<cl, id, conn, toA>>
  PROVE  \E G : DInv(G)'
<1> DEFINE i == IF m.k = "register" THEN NewId(a) ELSE NoId
           l == Msg(AnswerTo(m.k), i, 0)
           p == process_message(a, c, m, e)
           r == ag.rcv[c]
           b == ag.buf[c]
           s == toA[c]
           t == toC[c]
           v == Waits(ag, c)
<1>1. Row(F, ag.tbl, c, conn[c], cl[c], id, r, b, s, t, v)  BY RowNow
<1>2. PICK x : m.k = "register" => Fitting(F, ag.tbl, c, x) /\ (conn[c] = "open" => x = cl[c].sub)
  <2>1. /\ conn[c] = "open" => Underway(F, ag.tbl, c, cl[c], id, r, b, s, t, v, m)
        /\ conn[c] = "left" => (m.k = "register" => \E q : Fitting(F, ag.tbl, c, q))
    BY <1>1, RowTakes
  <2>2. CASE conn[c] = "open"  BY <2>1, <2>2 DEF Underway
  <2>3. CASE conn[c] = "left"  BY <2>1, <2>3
  <2>4. QED  BY <2>2, <2>3
<1>3. a.tbl = ag.tbl /\ Pool(a, F)  BY TablesPool DEF Tables, DInv, Deal
<1>4. m.k = "register" => Fitting(F, a.tbl, c, x)  BY <1>2, <1>3
<1>5. PICK G : Handles(F, a, c, m, x, p, G)  BY <1>3, <1>4, ProcessDeal
<1>6. i \in W  BY <1>5 DEF Handles, BInv, Lines
<1>7. /\ m.k = "register" => i \in Ids /\ (conn[c] = "open" => G[i] = cl[c].sub)
      /\ Held(p.tbl, c) = IF m.k = "register" THEN Held(ag.tbl, c) \cup {i}
                          ELSE Held(ag.tbl, c) \ (IF m.k = "deregister" THEN {m.id} ELSE {})
      /\ \A j \in Held(ag.tbl, c) : G[j] = F[j]
  BY <1>2, <1>3, <1>5 DEF Handles
<1>8. Send(c, l)  BY DEF Answer
<1>9. ag' = p  OBVIOUS
<1> HIDE DEF i, p
<1>10. l \in ToClient(W)  BY <1>6, AnswerTypes, MsgTypes
<1> HIDE DEF l
<1>11. /\ conn[c] = "open" => Ends(t, l, toC'[c])
       /\ \A d \in Clients \ {c} : toC'[d] = toC[d]
  BY <1>8, <1>10, SendEnds
<1>12. Takes(r, b, s, m, a.rcv[c], a.buf[c], s)  OBVIOUS
<1>13. conn[c] = "open" => Ends(t, Msg(AnswerTo(m.k), i, 0), toC'[c])  BY <1>11 DEF l
<1> HIDE DEF r, b, s, t, v
<1>14. Row(G, p.tbl, c, conn[c], cl[c], id, a.rcv[c], a.buf[c], s, toC'[c], v)
  BY <1>1, <1>7, <1>12, <1>13, RowAnswers
<1>15. Row(G, p.tbl, c, conn[c], cl[c], id, p.rcv[c], p.buf[c], toA[c], toC'[c], Waits(p, c))
  <2>1. Waits(p, c) = v  BY <1>5 DEF v, Waits, Handles
  <2>2. p.rcv[c] = a.rcv[c] /\ p.buf[c] = a.buf[c]  BY <1>5 DEF Handles
  <2>3. QED  BY <1>14, <2>1, <2>2 DEF s
<1>16. Near(ag, p, c)
  <2>1. \A d : Waits(p, d) = Waits(a, d)  BY <1>5 DEF Waits, Handles
  <2>2. QED  BY <1>5, <2>1 DEF Near, Handles
<1>17. Deal(F, ag, toA, toC)  BY DEF DInv
<1>18. Apart(F, ag.tbl, G, p.tbl, c) /\ Pool(p, G)  BY <1>3, <1>5 DEF Handles
<1>19. Deal(G, p, toA, toC')  BY <1>11, <1>15, <1>16, <1>17, <1>18, DealRow
<1>20. Deal(G, p, toA', toC')  BY <1>19
<1>21. DInv(G)'  BY <1>9, <1>20, DealNext
<1>22. QED  BY <1>21

\* From a to b a question is asked, before request k of client d is answered.
Inquires(a, b, d, k) ==
  Tables(a, b) /\ b.rcv = a.rcv /\ b.buf = a.buf /\ b.ask.to = d /\ b.ask.k = k

LEMMA AskSends ==
  ASSUME NEW W, BInv(W), NEW a, Contexts(a), NEW i \in Ids, NEW o \in Clients, ag.tbl[i] = o,
         NEW d, NEW k, get_surrounding_string(a, i, d, k)
  PROVE  /\ Inquires(a, ag', d, k)
         /\ Alike(toC[o], toC'[o]) /\ \A e \in Clients \ {o} : toC'[e] = toC[e]
<1> DEFINE n == asked.n + 1
           m == Msg("get", i, n)
           q == [c |-> ag.tbl[i], q |-> n, to |-> d, k |-> k, poll |-> FALSE]
           b == [a EXCEPT !.ask = q]
<1>1. ag' = b /\ Send(o, m)  BY DEF get_surrounding_string
<1>2. n \in Nat /\ i \in W  BY DEF BInv, Lines
<1> HIDE DEF n
<1>3. m \in ToClient(W) /\ m.k = "get"  BY <1>2, MsgTypes DEF Answers, Msg
<1>4. Question(m)  BY <1>3 DEF Question
<1>5. q.to = d /\ q.k = k  OBVIOUS
<1> HIDE DEF m, q
<1>6. Tables(a, b) /\ b.rcv = a.rcv /\ b.buf = a.buf /\ b.ask = q
  BY DEF Contexts, AgentFields, Tables
<1> HIDE DEF b
<1>7. Inquires(a, b, d, k)  BY <1>5, <1>6 DEF Inquires
<1>8. /\ conn[o] = "open" => Ends(toC[o], m, toC'[o])
      /\ conn[o] # "open" => toC' = toC
      /\ \A e \in Clients \ {o} : toC'[e] = toC[e]
  BY <1>1, <1>3, SendEnds
<1>9. Alike(toC[o], toC'[o])
  <2>1. CASE conn[o] = "open"  BY <1>4, <1>8, <2>1, LineChanges
  <2>2. CASE conn[o] # "open"  BY <1>8, <2>2 DEF Alike
  <2>3. QED  BY <2>1, <2>2
<1>10. QED  BY <1>1, <1>7, <1>8, <1>9

LEMMA GotTables ==
  ASSUME NEW a, Contexts(a), NEW c, NEW m, m.k = "got", NEW e
  PROVE  LET p == process_message(a, c, m, e)
         IN Tables(a, p) /\ p.rcv = a.rcv /\ p.buf = a.buf /\ p.ask = a.ask
<1> DEFINE T == [a.tmo EXCEPT ![c] = IF @ > 0 THEN @ - 1 ELSE 0]
           q == [a EXCEPT !.tmo = T]
<1>1. process_message(a, c, m, e) = [a EXCEPT !.tmo[c] = IF @ > 0 THEN @ - 1 ELSE 0]
  BY ProcessCases
<1>2. process_message(a, c, m, e) = q  BY <1>1 DEF Contexts, AgentFields
<1> HIDE DEF T
<1>3. Tables(a, q) /\ q.rcv = a.rcv /\ q.buf = a.buf /\ q.ask = a.ask
  BY DEF Contexts, AgentFields, Tables
<1>4. QED  BY <1>2, <1>3

\* A question on its way to client o changes nothing that they know of each other.
LEMMA LineDeal ==
  ASSUME NEW F, NEW a, NEW s, NEW t, Deal(F, a, s, t), NEW o \in Clients, NEW v,
         Alike(t[o], v[o]), \A d \in Clients \ {o} : v[d] = t[d]
  PROVE  Deal(F, a, s, v)
<1>1. Even(a.rcv[o], a.buf[o], s[o], a.rcv[o], a.buf[o], s[o])  BY EvenSelf
<1>2. Tables(a, a) /\ Near(a, a, o)  BY DEF Tables, Near
<1>3. QED  BY <1>1, <1>2, DealEven

\* While request m of client c is processed a client is asked, which may be another one.
LEMMA QuestionDeal ==
  ASSUME NEW F, DInv(F), NEW W, BInv(W), NEW c \in Clients, Running,
         conn[c] \in {"open", "left"}, NEW a, Contexts(a), Tables(ag, a), Near(ag, a, c),
         NEW m, m.k \in Askers, NEW e, NEW j \in Ids, ag.tbl[j] # None,
         Takes(ag.rcv[c], ag.buf[c], toA[c], m, a.rcv[c], a.buf[c], toA[c]),
         get_surrounding_string(process_message(a, c, m, e), j, c, m.k),
         UNCHANGED <<cl, id, conn, toA>>
  PROVE  \E G : DInv(G)'
<1> DEFINE p == process_message(a, c, m, e)
           o == ag.tbl[j]
           k == m.k
<1>1. Row(F, ag.tbl, c, conn[c], cl[c], id, ag.rcv[c], ag.buf[c], toA[c], toC[c], Waits(ag, c))
  BY RowNow
<1>2. a.tbl = ag.tbl /\ Pool(a, F)  BY TablesPool DEF Tables, DInv, Deal
<1>3. m.k \in Requests \ {"got"} /\ m.k # "register"  BY DEF Askers, Requests
<1>4. PICK G : Handles(F, a, c, m, None, p, G)  BY <1>2, <1>3, ProcessDeal
<1>5. /\ Held(p.tbl, c) = Held(ag.tbl, c) \ (IF m.k = "deregister" THEN {m.id} ELSE {})
      /\ \A i \in Held(ag.tbl, c) : G[i] = F[i]
      /\ Pool(p, G) /\ Apart(F, ag.tbl, G, p.tbl, c) /\ p.rcv = a.rcv /\ p.buf = a.buf
  BY <1>2, <1>3, <1>4 DEF Handles
<1>6. Contexts(p)  BY <1>3, ProcessWorks DEF Works
<1>7. get_surrounding_string(p, j, c, k)  OBVIOUS
<1>8. o \in Clients /\ ag.tbl[j] = o  BY DEF BInv, Contexts
<1> HIDE DEF p, o
<1> DEFINE b == ag'
           v == toC'
<1>9. /\ ag' = b /\ toC' = v /\ Inquires(p, b, c, k) /\ Alike(toC[o], v[o])
      /\ \A d \in Clients \ {o} : v[d] = toC[d]
  BY <1>6, <1>7, <1>8, AskSends
<1> HIDE DEF b, v
<1>10. Tables(p, b) /\ b.rcv = a.rcv /\ b.buf = a.buf /\ b.ask.to = c /\ b.ask.k = k
  BY <1>5, <1>9 DEF Inquires
<1>11. Waits(b, c) = m.k /\ \A d \in Clients \ {c} : Waits(b, d) = None  BY <1>10 DEF Waits
<1>12. \A d : Waits(ag, d) = None  BY NobodyWaits DEF Running
<1>13. Near(ag, b, c)  BY <1>10, <1>11, <1>12 DEF Near
<1>14. Row(G, p.tbl, c, conn[c], cl[c], id, a.rcv[c], a.buf[c], toA[c], toC[c], m.k)
  <2> DEFINE T == ag.tbl  U == p.tbl  n == conn[c]  l == cl[c]  w == Waits(ag, c)
             r == ag.rcv[c]  h == ag.buf[c]  s == toA[c]  t == toC[c]
             x == a.rcv[c]  y == a.buf[c]
  <2>1. n \in {"open", "left"}  OBVIOUS
  <2>2. Row(F, T, c, n, l, id, r, h, s, t, w)  BY <1>1
  <2>3. Takes(r, h, s, m, x, y, s)  OBVIOUS
  <2>4. /\ Held(U, c) = Held(T, c) \ (IF m.k = "deregister" THEN {m.id} ELSE {})
        /\ \A i \in Held(T, c) : G[i] = F[i]
    BY <1>5
  <2> HIDE DEF T, U, n, l, w, r, h, s, t, x, y
  <2>5. Row(G, U, c, n, l, id, x, y, s, t, m.k)  BY SMTT(30), <2>1, <2>2, <2>3, <2>4, RowServed
  <2>6. QED  BY <2>5 DEF U, n, l, s, t, x, y
<1>15. Row(G, b.tbl, c, conn[c], cl[c], id, b.rcv[c], b.buf[c], toA[c], toC[c], Waits(b, c))
  BY <1>10, <1>11, <1>14 DEF Tables
<1>16. Pool(b, G)  BY <1>5, <1>10, TablesPool
<1>17. Apart(F, ag.tbl, G, b.tbl, c)  BY <1>5, <1>10 DEF Tables
<1>18. Deal(F, ag, toA, toC)  BY DEF DInv
<1>19. Deal(G, b, toA, toC)  BY <1>13, <1>15, <1>16, <1>17, <1>18, DealRow
<1>20. Deal(G, b, toA, v)  BY <1>8, <1>9, <1>19, LineDeal
<1>21. Deal(G, b, toA', toC')  BY <1>9, <1>20
<1>22. ag' = b /\ UNCHANGED <<cl, id, conn>>  BY <1>9
<1>23. DInv(G)'  BY <1>21, <1>22, DealNext
<1>24. QED  BY <1>23

LEMMA ServeDeal ==
  ASSUME NEW F, DInv(F), LInv, NEW W, BInv(W), NEW c \in Clients, Serve(c)
  PROVE  \E G : DInv(G)'
<1> DEFINE m == Head(ag.rcv[c])
           R == [ag.rcv EXCEPT ![c] = Tail(@)]
           a == [ag EXCEPT !.rcv = R]
<1>1. Contexts(ag) /\ Queues(ag, W) /\ Lines(W)  BY DEF BInv
<1>2. ag.rcv[c] # <<>> /\ Running /\ c \in ag.lst  BY DEF Serve, LInv, Guests
<1>3. [ag EXCEPT !.rcv[c] = Tail(@)] = a  BY <1>1 DEF Contexts, AgentFields
<1>4. \/ remove_client_listener(c)
      \/ /\ m.k = "got" /\ ag' = process_message(a, c, m, "none")
         /\ Keep /\ UNCHANGED <<conn, toA, toC>>
      \/ /\ \E e : \E j \in Questioned(ag, c, m, e) :
              get_surrounding_string(process_message(a, c, m, e), j, c, m.k)
         /\ Keep /\ UNCHANGED <<conn, toA>>
      \/ /\ m.k # "got" /\ \E e : ag' = process_message(a, c, m, e)
         /\ Answer(a, c, m)
         /\ Keep /\ UNCHANGED <<conn, toA>>
  BY <1>3 DEF Serve
<1>5. conn[c] \in {"open", "left"}  BY <1>2 DEF LInv, Conns
<1>6. m \in ToAgent(W) /\ DOMAIN ag.rcv = Clients  BY <1>1, <1>2, Taken DEF Queues
<1>7. m.k \in Requests  BY <1>6 DEF ToAgent
<1>8. R[c] = Tail(ag.rcv[c]) /\ \A d \in Clients \ {c} : R[d] = ag.rcv[d]  BY <1>6
<1>9. Starts(ag.rcv[c], m, R[c])
  <2>1. ag.rcv[c] \in Seq(ToAgent(W))  BY RowTypes
  <2>2. QED  BY <1>2, <1>8, <2>1, TailStarts
<1> HIDE DEF m, R
<1>10. /\ a.rcv = R /\ a.buf = ag.buf /\ a.ask = ag.ask /\ Tables(ag, a) /\ Stays(ag, a)
  BY <1>1 DEF Contexts, AgentFields, Stays, Tables
<1> HIDE DEF a
<1>11. Contexts(a)  BY <1>1, <1>10, StaysContexts
<1>12. \A d : Waits(a, d) = Waits(ag, d)  BY <1>10 DEF Waits
<1>13. Near(ag, a, c)  BY <1>8, <1>10, <1>12 DEF Near
<1>14. m.k = "got" => Even(ag.rcv[c], ag.buf[c], toA[c], a.rcv[c], a.buf[c], toA[c])
  BY <1>9, <1>10, QueueChanges DEF Question
<1>15. m.k # "got" => Takes(ag.rcv[c], ag.buf[c], toA[c], m, a.rcv[c], a.buf[c], toA[c])
  <2>1. m.k # "got" => ~Question(m)  BY <1>7 DEF Question, Requests
  <2>2. QED  BY <1>9, <1>10, <2>1, QueueChanges
<1>16. CASE remove_client_listener(c)  BY <1>2, <1>16, RemoveDeal
<1>17. CASE /\ m.k = "got" /\ ag' = process_message(a, c, m, "none")
            /\ Keep /\ UNCHANGED <<conn, toA, toC>>
  <2> DEFINE p == process_message(a, c, m, "none")
  <2>1. Tables(a, p) /\ p.rcv = a.rcv /\ p.buf = a.buf /\ p.ask = a.ask  BY <1>11, <1>17, GotTables
  <2>2. ag' = p /\ UNCHANGED <<cl, id, conn, toA, toC>>  BY <1>17 DEF Keep
  <2> HIDE DEF p
  <2>3. Tables(ag, p)  BY <1>10, <2>1 DEF Tables
  <2>4. \A d : Waits(p, d) = Waits(ag, d)  BY <1>12, <2>1 DEF Waits
  <2>5. Near(ag, p, c)  BY <1>13, <2>1, <2>4 DEF Near
  <2>6. Even(ag.rcv[c], ag.buf[c], toA[c], p.rcv[c], p.buf[c], toA[c])  BY <1>14, <1>17, <2>1
  <2>7. Deal(F, ag, toA, toC) /\ Alike(toC[c], toC[c])  BY DEF DInv, Alike
  <2>8. Deal(F, p, toA, toC)  BY <2>3, <2>4, <2>5, <2>6, <2>7, DealEven
  <2>9. Deal(F, p, toA', toC')  BY <2>2, <2>8
  <2>10. DInv(F)'  BY <2>2, <2>9, DealNext
  <2>11. QED  BY <2>10
<1>18. CASE /\ \E e : \E j \in Questioned(ag, c, m, e) :
                 get_surrounding_string(process_message(a, c, m, e), j, c, m.k)
            /\ Keep /\ UNCHANGED <<conn, toA>>
  <2>1. PICK e : \E j \in Questioned(ag, c, m, e) :
                   get_surrounding_string(process_message(a, c, m, e), j, c, m.k)
    BY <1>18
  <2>2. PICK j \in Questioned(ag, c, m, e) :
          get_surrounding_string(process_message(a, c, m, e), j, c, m.k)
    BY <2>1
  <2>3. m.k \in Askers /\ j \in Ids /\ ag.tbl[j] # None  BY QuestionedFound
  <2>4. m.k # "got"  BY <2>3 DEF Askers
  <2>5. Takes(ag.rcv[c], ag.buf[c], toA[c], m, a.rcv[c], a.buf[c], toA[c])  BY <1>15, <2>4
  <2>6. UNCHANGED <<cl, id, conn, toA>>  BY <1>18 DEF Keep
  <2>7. QED  BY <1>2, <1>5, <1>10, <1>11, <1>13, <2>2, <2>3, <2>5, <2>6, QuestionDeal
<1>19. CASE /\ m.k # "got" /\ \E e : ag' = process_message(a, c, m, e)
            /\ Answer(a, c, m)
            /\ Keep /\ UNCHANGED <<conn, toA>>
  <2>1. PICK e : ag' = process_message(a, c, m, e)  BY <1>19
  <2>2. UNCHANGED <<cl, id, conn, toA>>  BY <1>19 DEF Keep
  <2>3. m.k \in Requests \ {"got"}  BY <1>7, <1>19
  <2>4. QED  BY <1>5, <1>10, <1>11, <1>13, <1>15, <1>19, <2>1, <2>2, <2>3, AnswersDeal
<1>20. QED  BY <1>4, <1>16, <1>17, <1>18, <1>19

\* A client is asked because of an event of the panel.
LEMMA PanelQuestion ==
  ASSUME NEW F, DInv(F), NEW W, BInv(W), Running, NEW p, Contexts(p), Tables(ag, p),
         p.rcv = ag.rcv, p.buf = ag.buf, NEW j \in Ids, ag.tbl[j] # None,
         get_surrounding_string(p, j, None, None), UNCHANGED <<cl, id, conn, toA>>
  PROVE  DInv(F)'
<1> DEFINE o == ag.tbl[j]
<1>1. o \in Clients /\ ag.tbl[j] = o  BY DEF BInv, Contexts
<1> HIDE DEF o
<1> DEFINE b == ag'
           v == toC'
<1>2. /\ ag' = b /\ toC' = v /\ Inquires(p, b, None, None) /\ Alike(toC[o], v[o])
      /\ \A d \in Clients \ {o} : v[d] = toC[d]
  BY <1>1, AskSends
<1> HIDE DEF b, v
<1>3. /\ Tables(ag, b) /\ b.rcv = ag.rcv /\ b.buf = ag.buf /\ b.ask.to = None /\ b.ask.k = None
  BY <1>2 DEF Inquires, Tables
<1>4. \A d : Waits(ag, d) = None  BY NobodyWaits DEF Running
<1>5. \A d : Waits(b, d) = None  BY <1>3 DEF Waits
<1>6. Pool(b, F)  BY <1>3, TablesPool DEF DInv, Deal
<1>7. Deal(F, b, toA, toC)  BY <1>3, <1>4, <1>5, <1>6 DEF DInv, Deal, Tables
<1>8. Deal(F, b, toA, v)  BY <1>1, <1>2, <1>7, LineDeal
<1>9. Deal(F, b, toA', toC')  BY <1>2, <1>8
<1>10. ag' = b /\ UNCHANGED <<cl, id, conn>>  BY <1>2
<1>11. QED  BY <1>9, <1>10, DealNext

LEMMA PanelDeal ==
  ASSUME NEW F, DInv(F), NEW W, BInv(W), NEW i \in Ids, PanelChangeFactory(i) \/ PanelAsks(i)
  PROVE  DInv(F)'
<1>1. Contexts(ag)  BY DEF BInv
<1>2. ag.tbl[i] # None /\ Running  BY DEF PanelChangeFactory, PanelAsks, Found
<1>3. Deal(F, ag, toA, toC)  BY DEF DInv
<1>4. CASE PanelChangeFactory(i)
  <2>1. PICK f : \/ ag' = open_imengine(ag, i, f) /\ UNCHANGED <<toC, asked>>
                 \/ \E j \in Questioned(ag, None, Msg("key", i, 0), f) :
                      get_surrounding_string(open_imengine(ag, i, f), j, None, None)
    BY <1>4 DEF PanelChangeFactory
  <2> DEFINE b == open_imengine(ag, i, f)
  <2>2. Works(ag, b) /\ Tables(ag, b)  BY <1>1, <1>2, OpenWorks, OpenTables
  <2>3. UNCHANGED <<cl, id, conn, toA>>  BY <1>4 DEF PanelChangeFactory, Keep
  <2> HIDE DEF b
  <2>4. CASE ag' = b /\ UNCHANGED toC
    <3>1. Deal(F, b, toA, toC)  BY <1>3, <2>2, DealSame DEF Works
    <3>2. Deal(F, b, toA', toC')  BY <2>3, <2>4, <3>1
    <3>3. QED  BY <2>3, <2>4, <3>2, DealNext
  <2>5. ASSUME NEW j \in Questioned(ag, None, Msg("key", i, 0), f),
               get_surrounding_string(b, j, None, None)
        PROVE  DInv(F)'
    <3>1. j \in Ids /\ ag.tbl[j] # None  BY QuestionedFound
    <3>2. Contexts(b) /\ b.rcv = ag.rcv /\ b.buf = ag.buf  BY <2>2 DEF Works
    <3>3. QED  BY <1>2, <2>2, <2>3, <2>5, <3>1, <3>2, PanelQuestion
  <2>6. QED  BY <2>1, <2>4, <2>5 DEF b
<1>5. CASE PanelAsks(i)
  <2>1. get_surrounding_string(ag, i, None, None) /\ UNCHANGED <<cl, id, conn, toA>>
    BY <1>5 DEF PanelAsks, Keep
  <2>2. Tables(ag, ag)  BY DEF Tables
  <2>3. QED  BY <1>1, <1>2, <2>1, <2>2, PanelQuestion
<1>6. QED  BY <1>4, <1>5

LEMMA AskReadDeal ==
  ASSUME NEW F, DInv(F), LInv, NEW W, BInv(W), AskRead
  PROVE  DInv(F)'
<1> DEFINE c == ag.ask.c
<1>1. PICK k \in Chunk(c) :
        /\ ag' = [ag EXCEPT !.buf[c] = @ \o SubSeq(toA[c], 1, k), !.ask.poll = TRUE]
        /\ toA' = [toA EXCEPT ![c] = SubSeq(@, k + 1, Len(@))]
  BY DEF AskRead
<1>2. UNCHANGED <<cl, id, conn, toC>> /\ Waiting  BY DEF AskRead, Keep
<1>3. /\ DOMAIN ag = AgentFields /\ DOMAIN toA = Clients /\ DOMAIN ag.buf = Clients
  BY DEF BInv, Contexts, Queues, Lines
<1> DEFINE x == SubSeq(toA[c], 1, k)
           y == SubSeq(toA[c], k + 1, Len(toA[c]))
           w == ag.buf[c] \o x
           B == [ag.buf EXCEPT ![c] = w]
           q == [ag.ask EXCEPT !.poll = TRUE]
           b == [ag EXCEPT !.buf = B, !.ask = q]
<1>4. ag' = b  BY <1>1, <1>3 DEF AgentFields
<1>5. c \in Clients /\ ag.ask \in Asks  BY <1>2, WaitingAsks
<1>6. q.to = ag.ask.to /\ q.k = ag.ask.k  BY <1>5 DEF Asks
<1>7. toA' = [toA EXCEPT ![c] = y]  BY <1>1, <1>3, <1>5
<1>8. k \in 1..Len(toA[c])  BY DEF Chunk
<1> HIDE DEF c, q
<1>9. ag.buf[c] \in Seq(ToAgent(W)) /\ toA[c] \in Seq(ToAgent(W))  BY <1>5, RowTypes
<1>10. Blends(x, y, toA[c]) /\ x \in Seq(ToAgent(W))  BY <1>8, <1>9, SplitBlends, ReadSome
<1> HIDE DEF x, y
<1>11. Blends(ag.buf[c], x, w)  BY <1>9, <1>10, ConcatBlends
<1> HIDE DEF w
<1>12. B[c] = w /\ \A d \in Clients \ {c} : B[d] = ag.buf[d]  BY <1>3, <1>5
<1>13. toA'[c] = y /\ \A d \in Clients \ {c} : toA'[d] = toA[d]  BY <1>3, <1>5, <1>7
<1> HIDE DEF B
<1>14. b.rcv = ag.rcv /\ b.buf = B /\ b.ask = q /\ Tables(ag, b)
  BY <1>3 DEF AgentFields, Tables
<1> HIDE DEF b
<1>15. \A d : Waits(b, d) = Waits(ag, d)  BY <1>6, <1>14 DEF Waits
<1>16. Near(ag, b, c)  BY <1>12, <1>14, <1>15 DEF Near
<1>17. Even(ag.rcv[c], ag.buf[c], toA[c], b.rcv[c], b.buf[c], toA'[c])
  <2>1. Even(ag.rcv[c], ag.buf[c], toA[c], ag.rcv[c], w, y)  BY <1>10, <1>11, QueueMoves
  <2>2. QED  BY <1>12, <1>13, <1>14, <2>1
<1>18. Alike(toC[c], toC[c])  BY DEF Alike
<1>19. Deal(F, ag, toA, toC)  BY DEF DInv
<1>20. Deal(F, b, toA', toC)  BY <1>5, <1>13, <1>14, <1>15, <1>16, <1>17, <1>18, <1>19, DealEven
<1>21. Deal(F, b, toA', toC')  BY <1>2, <1>20
<1>22. QED  BY <1>2, <1>4, <1>21, DealNext

\* A wait is over: the request that it belonged to is answered.
LEMMA EndAskDeal ==
  ASSUME NEW F, DInv(F), LInv, NEW W, BInv(W), Waiting, NEW a, DOMAIN a = AgentFields,
         a.ask = ag.ask, Deal(F, a, toA, toC), EndAsk(a), UNCHANGED <<cl, id, conn, toA>>
  PROVE  DInv(F)'
<1> DEFINE c == ag.ask.to
           k == ag.ask.k
           l == Msg(AnswerTo(k), NoId, 0)
           b == [a EXCEPT !.ask = NoAsk]
           v == toC'
<1>1. ag.ask \in Asks /\ (c = None \/ k \in Askers)  BY DEF BInv, Queues
<1>2. ag' = b /\ IF c = None THEN UNCHANGED toC ELSE Send(c, l)  BY DEF EndAsk
<1>3. a.ask.to = c /\ a.ask.k = k  OBVIOUS
<1>4. c \in Clients \cup {None}  BY <1>1 DEF Asks
<1> HIDE DEF c, k
<1>5. Tables(a, b) /\ b.rcv = a.rcv /\ b.buf = a.buf /\ b.ask = NoAsk
  BY DEF AgentFields, Tables
<1> HIDE DEF b
<1>6. \A d : Waits(b, d) = None  BY <1>5, NobodyWaits
<1>7. Waits(a, c) = k /\ \A d : d # c => Waits(a, d) = None  BY <1>3 DEF Waits
<1>8. Pool(b, F)  BY <1>5, TablesPool DEF Deal
<1>9. CASE c # None
  <2>1. c \in Clients /\ k \in Askers /\ Send(c, l)  BY <1>1, <1>2, <1>4, <1>9
  <2>2. l \in ToClient(W)
    <3>1. NoId \in W  BY DEF BInv, Lines
    <3>2. AnswerTo(k) \in Answers  BY <2>1, AnswerTypes DEF Requests, Askers
    <3>3. QED  BY <3>1, <3>2, MsgTypes
  <2> HIDE DEF l
  <2>3. (conn[c] = "open" => Ends(toC[c], l, v[c])) /\ \A d \in Clients \ {c} : v[d] = toC[d]
    BY <2>1, <2>2, SendEnds
  <2>4. toC' = v  OBVIOUS
  <2> HIDE DEF v
  <2>5. conn[c] = "open" => Ends(toC[c], Msg(AnswerTo(k), NoId, 0), v[c])  BY <2>3 DEF l
  <2>6. Row(F, a.tbl, c, conn[c], cl[c], id, a.rcv[c], a.buf[c], toA[c], toC[c], k)
    BY <1>7, <2>1 DEF Deal
  <2>7. Row(F, a.tbl, c, conn[c], cl[c], id, a.rcv[c], a.buf[c], toA[c], v[c], None)
    BY <2>1, <2>5, <2>6, RowHandled
  <2>8. Row(F, b.tbl, c, conn[c], cl[c], id, b.rcv[c], b.buf[c], toA[c], v[c], Waits(b, c))
    BY <1>5, <1>6, <2>7 DEF Tables
  <2>9. \A d \in Clients \ {c} : toA[d] = toA[d] /\ v[d] = toC[d]  BY <2>3
  <2>10. Near(a, b, c) /\ Apart(F, a.tbl, F, b.tbl, c)
    BY <1>5, <1>6, <1>7, SameApart DEF Near, Tables
  <2>11. Deal(F, b, toA, v)  BY <1>8, <2>1, <2>8, <2>9, <2>10, DealRow
  <2>12. Deal(F, b, toA', toC')  BY <2>4, <2>11
  <2>13. QED  BY <1>2, <2>12, DealNext
<1>10. CASE c = None
  <2>1. toC' = toC  BY <1>2, <1>10
  <2>2. \A d \in Clients : Waits(b, d) = Waits(a, d)  BY <1>6, <1>7, <1>10, OwnerAssumption
  <2>3. Deal(F, b, toA, toC)  BY <1>5, <1>8, <2>2 DEF Deal, Tables
  <2>4. Deal(F, b, toA', toC')  BY <2>1, <2>3
  <2>5. QED  BY <1>2, <2>4, DealNext
<1>11. QED  BY <1>9, <1>10

LEMMA AskPollDeal ==
  ASSUME NEW F, DInv(F), LInv, NEW W, BInv(W), AskPoll
  PROVE  \E G : DInv(G)'
<1> DEFINE c == ag.ask.c
           m == Head(ag.buf[c])
           B == [ag.buf EXCEPT ![c] = Tail(@)]
           a == [ag EXCEPT !.buf = B]
<1>1. Contexts(ag) /\ Queues(ag, W) /\ Lines(W)  BY DEF BInv
<1>2. /\ Waiting /\ ag.buf[c] # <<>> /\ UNCHANGED <<cl, id, conn, toA>>
  BY DEF AskPoll, Keep
<1>3. [ag EXCEPT !.buf[c] = Tail(@)] = a  BY <1>1 DEF Contexts, AgentFields
<1>4. \/ m.k = "got" /\ EndAsk([a EXCEPT !.wrong = @ \/ m.q # ag.ask.q])
      \/ m.k = "got" /\ ag' = process_message(a, c, m, "none") /\ UNCHANGED toC
      \/ m.k = "reset" /\ ag' = process_message(a, c, m, "none") /\ Answer(a, c, m)
      \/ ag' = [a EXCEPT !.rcv[c] = Append(@, m)] /\ UNCHANGED toC
  BY <1>3 DEF AskPoll
<1>5. /\ ag.up /\ c \in ag.lst /\ c \in Clients /\ ag.ask \in Asks
  BY <1>2, WaitingAsks
<1>6. conn[c] \in {"open", "left"}  BY <1>5 DEF LInv, Conns
<1> HIDE DEF c
<1>7. m \in ToAgent(W) /\ DOMAIN ag.buf = Clients /\ DOMAIN ag.rcv = Clients
  BY <1>1, <1>2, <1>5, Taken DEF Queues
<1>8. B[c] = Tail(ag.buf[c]) /\ \A d \in Clients \ {c} : B[d] = ag.buf[d]  BY <1>5, <1>7
<1>9. ag.buf[c] \in Seq(ToAgent(W)) /\ ag.rcv[c] \in Seq(ToAgent(W))  BY <1>5, RowTypes
<1>10. Starts(ag.buf[c], m, B[c])  BY <1>2, <1>8, <1>9, TailStarts
<1> HIDE DEF m, B
<1>11. /\ DOMAIN a = AgentFields /\ a.rcv = ag.rcv /\ a.buf = B /\ a.ask = ag.ask
       /\ a.tbl = ag.tbl /\ Tables(ag, a) /\ Stays(ag, a)
  BY <1>1 DEF Contexts, AgentFields, Tables, Stays
<1> HIDE DEF a
<1>12. Contexts(a)  BY <1>1, <1>11, StaysContexts
<1>13. \A d : Waits(a, d) = Waits(ag, d)  BY <1>11 DEF Waits
<1>14. Near(ag, a, c)  BY <1>8, <1>11, <1>13 DEF Near
<1>15. Deal(F, ag, toA, toC)  BY DEF DInv
<1>16. Alike(toC[c], toC[c])  BY DEF Alike
<1>17. m.k = "got" => Deal(F, a, toA, toC)
  <2> SUFFICES ASSUME m.k = "got" PROVE Deal(F, a, toA, toC)  OBVIOUS
  <2>1. Question(m)  BY DEF Question
  <2>2. Even(ag.rcv[c], ag.buf[c], toA[c], a.rcv[c], a.buf[c], toA[c])
    BY <1>10, <1>11, <2>1, QueueChanges
  <2>3. QED  BY <1>5, <1>11, <1>13, <1>14, <1>15, <1>16, <2>2, DealEven
<1>18. CASE m.k = "got" /\ EndAsk([a EXCEPT !.wrong = @ \/ m.q # ag.ask.q])
  <2> DEFINE w == a.wrong \/ m.q # ag.ask.q
             e == [a EXCEPT !.wrong = w]
  <2>1. EndAsk(e)  BY <1>18
  <2> HIDE DEF w
  <2>2. /\ DOMAIN e = AgentFields /\ e.ask = a.ask /\ e.rcv = a.rcv /\ e.buf = a.buf /\ Tables(a, e)
    BY <1>11 DEF AgentFields, Tables
  <2> HIDE DEF e
  <2>3. Deal(F, e, toA, toC)  BY <1>17, <1>18, <2>2, DealSame
  <2>4. e.ask = ag.ask  BY <1>11, <2>2
  <2>5. DInv(F)'  BY <1>2, <2>1, <2>2, <2>3, <2>4, EndAskDeal
  <2>6. QED  BY <2>5
<1>19. CASE m.k = "got" /\ ag' = process_message(a, c, m, "none") /\ UNCHANGED toC
  <2> DEFINE p == process_message(a, c, m, "none")
  <2>1. ag' = p  BY <1>19
  <2>2. Tables(a, p) /\ p.rcv = a.rcv /\ p.buf = a.buf /\ p.ask = a.ask  BY <1>12, <1>19, GotTables
  <2> HIDE DEF p
  <2>3. Deal(F, p, toA, toC)  BY <1>17, <1>19, <2>2, DealSame
  <2>4. Deal(F, p, toA', toC')  BY <1>2, <1>19, <2>3
  <2>5. DInv(F)'  BY <1>2, <2>1, <2>4, DealNext
  <2>6. QED  BY <2>5
<1>20. CASE m.k = "reset" /\ ag' = process_message(a, c, m, "none") /\ Answer(a, c, m)
  <2>1. m.k \in Requests \ {"got"} /\ ~Question(m)  BY <1>20 DEF Requests, Question
  <2>2. Takes(ag.rcv[c], ag.buf[c], toA[c], m, a.rcv[c], a.buf[c], toA[c])
    BY <1>10, <1>11, <2>1, QueueChanges
  <2>3. QED  BY <1>2, <1>5, <1>6, <1>11, <1>12, <1>14, <1>20, <2>1, <2>2, AnswersDeal
<1>21. CASE ag' = [a EXCEPT !.rcv[c] = Append(@, m)] /\ UNCHANGED toC
  <2> DEFINE v == Append(ag.rcv[c], m)  R == [ag.rcv EXCEPT ![c] = v]  b == [a EXCEPT !.rcv = R]
  <2>1. ag' = b  BY <1>11, <1>21 DEF AgentFields
  <2>2. Ends(ag.rcv[c], m, v)  BY <1>7, <1>9, AppendEnds
  <2> HIDE DEF v
  <2>3. R[c] = v /\ \A d \in Clients \ {c} : R[d] = ag.rcv[d]  BY <1>5, <1>7
  <2> HIDE DEF R
  <2>4. b.rcv = R /\ b.buf = B /\ b.ask = ag.ask /\ Tables(ag, b)
    BY <1>11 DEF AgentFields, Tables
  <2> HIDE DEF b
  <2>5. \A d : Waits(b, d) = Waits(ag, d)  BY <2>4 DEF Waits
  <2>6. Near(ag, b, c)  BY <1>8, <2>3, <2>4, <2>5 DEF Near
  <2>7. Even(ag.rcv[c], ag.buf[c], toA[c], b.rcv[c], b.buf[c], toA[c])
    <3>1. Even(ag.rcv[c], ag.buf[c], toA[c], v, B[c], toA[c])  BY <1>10, <2>2, QueueMoves
    <3>2. QED  BY <2>3, <2>4, <3>1
  <2>8. Deal(F, b, toA, toC)  BY <1>5, <1>15, <1>16, <2>4, <2>5, <2>6, <2>7, DealEven
  <2>9. Deal(F, b, toA', toC')  BY <1>2, <1>21, <2>8
  <2>10. DInv(F)'  BY <1>2, <2>1, <2>9, DealNext
  <2>11. QED  BY <2>10
<1>22. QED  BY <1>4, <1>18, <1>19, <1>20, <1>21

LEMMA AskOverDeal ==
  ASSUME NEW F, DInv(F), LInv, NEW W, BInv(W), AskPollEnd \/ AskTimeout \/ AskFails
  PROVE  DInv(F)'
<1>1. Waiting /\ UNCHANGED <<cl, id, conn, toA>>
  BY DEF AskPollEnd, AskTimeout, AskFails, Keep
<1>2. DOMAIN ag = AgentFields /\ ag.ask \in Asks  BY <1>1, WaitingAsks DEF BInv, Contexts
<1>3. Deal(F, ag, toA, toC)  BY DEF DInv
<1>4. CASE AskPollEnd
  <2> DEFINE q == [ag.ask EXCEPT !.poll = FALSE]  b == [ag EXCEPT !.ask = q]
  <2>1. ag' = b /\ UNCHANGED toC  BY <1>2, <1>4 DEF AskPollEnd, AgentFields
  <2>2. q.to = ag.ask.to /\ q.k = ag.ask.k  BY <1>2 DEF Asks
  <2> HIDE DEF q
  <2>3. b.rcv = ag.rcv /\ b.buf = ag.buf /\ b.ask = q /\ Tables(ag, b)
    BY <1>2 DEF AgentFields, Tables
  <2> HIDE DEF b
  <2>4. Deal(F, b, toA, toC)  BY <1>3, <2>2, <2>3, DealSame
  <2>5. Deal(F, b, toA', toC')  BY <1>1, <2>1, <2>4
  <2>6. QED  BY <1>1, <2>1, <2>5, DealNext
<1>5. CASE AskTimeout
  <2> DEFINE T == [ag.tmo EXCEPT ![ag.ask.c] = @ + 1]  a == [ag EXCEPT !.tmo = T]
  <2>1. [ag EXCEPT !.tmo[ag.ask.c] = @ + 1] = a  BY <1>2 DEF AgentFields
  <2>2. EndAsk(a)  BY <1>5, <2>1 DEF AskTimeout
  <2> HIDE DEF T
  <2>3. /\ DOMAIN a = AgentFields /\ a.rcv = ag.rcv /\ a.buf = ag.buf /\ a.ask = ag.ask
        /\ Tables(ag, a)
    BY <1>2 DEF AgentFields, Tables
  <2> HIDE DEF a
  <2>4. Deal(F, a, toA, toC)  BY <1>3, <2>3, DealSame
  <2>5. QED  BY <1>1, <2>2, <2>3, <2>4, EndAskDeal
<1>6. CASE AskFails
  <2>1. EndAsk(ag)  BY <1>6 DEF AskFails
  <2>2. QED  BY <1>1, <1>2, <1>3, <2>1, EndAskDeal
<1>7. QED  BY <1>4, <1>5, <1>6

AgreeInv == \E F : DInv(F)

LEMMA AgreeInit == Init => AgreeInv
<1> SUFFICES ASSUME Init PROVE AgreeInv  OBVIOUS
<1> DEFINE F == [i \in Ids |-> None]  b == NoAgent
<1>1. /\ cl = [c \in Clients |-> NewClient] /\ conn = [c \in Clients |-> None] /\ ag = b
      /\ id = [x \in Ctxs |-> NoId]
  BY DEF Init
<1>2. DOMAIN F = Ids  OBVIOUS
<1> HIDE DEF F
<1>3. Pool(b, F)
  <2> DEFINE T == [i \in Ids |-> None]
  <2>1. b.tbl = T /\ b.size = 0 /\ b.free = <<>>  BY DEF NoAgent, NewAgent
  <2>2. \A i \in Ids : T[i] = None  OBVIOUS
  <2> HIDE DEF T
  <2>3. Uses(F, T, 0)  BY <1>2, <2>2, IdsAre DEF Uses
  <2>4. Spares(<<>>, T, 0)  BY IdsAre DEF Spares
  <2>5. QED  BY <2>1, <2>3, <2>4 DEF Pool
<1>4. \A c \in Clients : conn[c] \notin {"open", "left"}  BY <1>1 DEF None
<1>5. \A c \in Clients : Row(F, b.tbl, c, conn[c], cl[c], id, b.rcv[c], b.buf[c], toA[c], toC[c],
                             Waits(b, c))
  BY <1>4, NewAgentWaits, RowClosed
<1> HIDE DEF b
<1>6. Deal(F, ag, toA, toC)  BY <1>1, <1>3, <1>5 DEF Deal
<1>7. \A c \in Clients : Belongs(cl[c], c, id)
  <2>1. \A c \in Clients : cl[c].list = {} /\ cl[c].rem = {} /\ cl[c].sub = None
    BY <1>1 DEF NewClient
  <2>2. \A x \in Ctxs : id[x] = NoId  BY <1>1
  <2>3. QED  BY <2>1, <2>2 DEF Belongs
<1>8. QED  BY <1>6, <1>7 DEF DInv, AgreeInv

LEMMA AgreeStep == BridgeInv /\ LInv /\ AgreeInv /\ [Next]_vars => AgreeInv'
<1> SUFFICES ASSUME BridgeInv, LInv, AgreeInv, [Next]_vars PROVE AgreeInv'  OBVIOUS
<1>1. PICK W : BInv(W)  BY DEF BridgeInv
<1>2. PICK F : DInv(F)  BY DEF AgreeInv
<1>3. (\E G : DInv(G)') => AgreeInv'  BY DEF AgreeInv
<1>4. ASSUME NEW c \in Clients, Calls(c) \/ Library(c) \/ ClientDies(c) PROVE AgreeInv'
  <2>1. DInv(F)'  BY <1>1, <1>2, <1>4, CallsDeal, LibraryDeal, DiesDeal
  <2>2. QED  BY <1>3, <2>1
<1>5. ASSUME NEW c \in Clients, Accept(c) \/ Read(c) \/ EndVisit(c) PROVE AgreeInv'
  <2>1. DInv(F)'  BY <1>1, <1>2, <1>5, AcceptDeal, ReadDeal, RoundDeal
  <2>2. QED  BY <1>3, <2>1
<1>6. ASSUME NEW c \in Clients, ReadEnd(c) PROVE AgreeInv'
  <2>1. Running /\ c \in ag.lst /\ remove_client_listener(c)  BY <1>6 DEF ReadEnd
  <2>2. DInv(F)'  BY <1>1, <1>2, <2>1, RemoveDeal
  <2>3. QED  BY <1>3, <2>2
<1>7. ASSUME NEW c \in Clients, Serve(c) PROVE AgreeInv'
  <2>1. \E G : DInv(G)'  BY <1>1, <1>2, <1>7, ServeDeal
  <2>2. QED  BY <1>3, <2>1
<1>8. CASE Round \/ AskRead \/ AskPollEnd \/ AskTimeout \/ AskFails
  <2>1. DInv(F)'  BY <1>1, <1>2, <1>8, RoundDeal, AskReadDeal, AskOverDeal
  <2>2. QED  BY <1>3, <2>1
<1>9. CASE AskPoll
  <2>1. \E G : DInv(G)'  BY <1>1, <1>2, <1>9, AskPollDeal
  <2>2. QED  BY <1>3, <2>1
<1>10. ASSUME NEW i \in Ids, PanelChangeFactory(i) \/ PanelAsks(i) PROVE AgreeInv'
  <2>1. DInv(F)'  BY <1>1, <1>2, <1>10, PanelDeal
  <2>2. QED  BY <1>3, <2>1
<1>11. CASE AgentCrash
  <2>1. DInv(F)'  BY <1>2, <1>11, CrashDeal DEF AgentCrash
  <2>2. QED  BY <1>3, <2>1
<1>12. CASE UNCHANGED vars
  <2>1. UNCHANGED <<ag, cl, id, conn, toA, toC>>  BY <1>12 DEF vars
  <2>2. Deal(F, ag, toA, toC)  BY <1>2 DEF DInv
  <2>3. Deal(F, ag, toA', toC')  BY <2>1, <2>2
  <2>4. DInv(F)'  BY <1>2, <2>1, <2>3, DealNext
  <2>5. QED  BY <1>3, <2>4
<1>13. QED
  BY <1>4, <1>5, <1>6, <1>7, <1>8, <1>9, <1>10, <1>11, <1>12 DEF Next, Listener, Wait

\* A client that waits for nothing has registered what the agent has of it, by as many ids.
LEMMA RestAgrees ==
  ASSUME NEW F, NEW T, NEW c, NEW k, NEW d, NEW r, NEW b, NEW s, NEW t, NEW v,
         Row(F, T, c, "open", k, d, r, b, s, t, v), k.want = None, k.list \subseteq Ctxs
  PROVE  Held(T, c) = Named(k, d) /\ Cardinality(Named(k, d)) = Cardinality(k.list)
<1>1. Held(T, c) = Named(k, d) /\ Known(F, T, c, k, d)  BY RowRest DEF Rest
<1> DEFINE L == k.list
           N == Named(k, d)
           f == [x \in L |-> d[x]]
<1>2. IsFiniteSet(L)  BY FiniteAssumption, FS_Subset
<1>3. \A i : i \in N <=> \E x \in L : i = d[x]  BY DEF Named
<1>4. \A x, y \in L : d[x] = d[y] => x = y  BY <1>1 DEF Known
<1> HIDE DEF L, N
<1>5. f \in [L -> N] /\ \A x, y \in L : f[x] = f[y] => x = y  BY <1>3, <1>4
<1>6. \A i \in N : \E x \in L : f[x] = i  BY <1>3
<1> HIDE DEF f
<1>7. f \in Injection(L, N)  BY <1>5, Fun_IsInj
<1>8. f \in Surjection(L, N)  BY <1>5, <1>6, Fun_IsSurj
<1>9. Cardinality(L) = Cardinality(N)  BY <1>2, <1>7, <1>8, FS_Surjection
<1>10. QED  BY <1>1, <1>9 DEF L, N

\* Whenever a client waits for nothing, the contexts that it has registered and those that
\* the agent keeps for it are the same, each under an id of its own, so that no event goes
\* to another's context or to none: for any number of applications and contexts, however
\* registrations, key events, engines' questions and deregistrations of several clients
\* interleave, ids are reused, and clients die and the agent crashes and is started again.
THEOREM ContextsAgreeAlways == Spec => []ContextsAgree
<1>1. AgreeInv => ContextsAgree
  <2> SUFFICES ASSUME AgreeInv, NEW c \in Clients, Idle(c), conn[c] = "open"
               PROVE  /\ {i \in Ids : ag.tbl[i] = c} = {id[x] : x \in cl[c].list}
                      /\ Cardinality({id[x] : x \in cl[c].list}) = Cardinality(cl[c].list)
    BY DEF ContextsAgree
  <2>1. PICK F : DInv(F)  BY DEF AgreeInv
  <2>2. /\ Row(F, ag.tbl, c, conn[c], cl[c], id, ag.rcv[c], ag.buf[c], toA[c], toC[c], Waits(ag, c))
        /\ Belongs(cl[c], c, id)
    BY <2>1, RowNow
  <2>3. Row(F, ag.tbl, c, "open", cl[c], id, ag.rcv[c], ag.buf[c], toA[c], toC[c], Waits(ag, c))
    BY <2>2
  <2>4. cl[c].want = None /\ cl[c].list \subseteq Ctxs  BY <2>2 DEF Idle, Belongs
  <2>5. /\ Held(ag.tbl, c) = Named(cl[c], id)
        /\ Cardinality(Named(cl[c], id)) = Cardinality(cl[c].list)
    BY <2>3, <2>4, RestAgrees
  <2>6. QED  BY <2>5 DEF Held, Named
<1>2. QED
  BY <1>1, BridgeInit, BridgeNext, BooksInit, BooksStep, AgreeInit, AgreeStep, PTL DEF Spec
=============================================================================
