------------------------------ MODULE ScimBridge ------------------------------
(***************************************************************************)
(* scim-bridge (extras/immodules): applications talk to one agent process, *)
(* over a socket each.  Modelled are the client library (client-common),   *)
(* which the GTK, Qt and Clutter modules call, and in the agent its client *)
(* listeners, event loop and contexts.                                     *)
(*                                                                         *)
(* A client sends a request and dispatches what it reads until the answer  *)
(* is among it; meanwhile its other calls are refused.  The agent reads    *)
(* messages into a queue per client, interrupts itself, and processes the  *)
(* queues in its next round.  An engine may stop that to ask a client for  *)
(* its surrounding text, which need not be the client that is served.      *)
(*                                                                         *)
(* Left out is what has no answer and changes no state below: text that an *)
(* engine sends (commit, preedit, status), and the client's notices of it. *)
(***************************************************************************)
EXTENDS Integers, SequencesExt

CONSTANTS
  Clients,      \* applications
  Ctxs,         \* their input contexts
  Owner,        \* Ctxs -> Clients
  SharedModes,  \* values of imengine_shared
  Events,       \* bound: what applications, which register, and the panel do
  MaxFaults,    \* bound: crashes of the agent and of applications
  MaxAsk,       \* bound: questions for surrounding text
  MaxTrouble    \* bound: both together

None == "none"
NoId == -1
Ids  == 0..(Cardinality(Ctxs) - 1)

AllEvents == {"deregister", "reset", "key", "in", "out", "factory", "ask"}

ASSUME OwnerAssumption == Owner \in [Ctxs -> Clients] /\ None \notin Clients \cup Ctxs
ASSUME FiniteAssumption == IsFiniteSet(Ctxs)
ASSUME BoundsAssumption ==
  /\ SharedModes \subseteq BOOLEAN /\ Events \subseteq AllEvents
  /\ MaxFaults \in Nat /\ MaxAsk \in Nat /\ MaxTrouble \in Nat

VARIABLES
  cl,      \* per client: the library's static variables
  id,      \* per context: its id in the client
  conn,    \* per client: "none", "open", "cut" (by the agent), "left" (by the client)
  toA,     \* per client: messages on their way to the agent
  toC,     \* per client: messages on their way to the client
  ag,      \* the agent
  shared,  \* imengine_shared
  faults,  \* faults so far
  asked    \* questions so far; the clients a request of whom was read in a wait

vars == <<cl, id, conn, toA, toC, ag, shared, faults, asked>>

Msg(k, i, q) == [k |-> k, id |-> i, q |-> q]

\* The header of the answer to a request.
AnswerTo(k) ==
  CASE k = "register" -> "registered" [] k = "deregister" -> "deregistered"
    [] k = "reset" -> "reseted" [] k = "key" -> "handled"
    [] k \in {"in", "out"} -> "focused"

-----------------------------------------------------------------------------
(* The client library.                                                     *)

\* up: there is a messenger; want: the header of the pending response; sub: the
\* context being registered; list: imcontext_list; rem: the rest of that list
\* while open_messenger registers its contexts again.
NewClient == [up |-> FALSE, want |-> None, sub |-> None, list |-> {}, rem |-> {}]

Idle(c) == cl[c].up /\ cl[c].want = None /\ cl[c].rem = {}

\* close_messenger: no response is pending any more and the contexts lose their
\* ids; keep is the list it leaves.
close_messenger(c, keep) ==
  /\ cl' = [cl EXCEPT ![c] = [NewClient EXCEPT !.list = keep]]
  /\ id' = [x \in Ctxs |-> IF x \in cl[c].list THEN NoId ELSE id[x]]
  /\ conn' = [conn EXCEPT ![c] = None]
  /\ toA' = [toA EXCEPT ![c] = <<>>] /\ toC' = [toC EXCEPT ![c] = <<>>]
  /\ UNCHANGED <<ag, shared, faults, asked>>

\* A failing open_messenger lists the contexts it has not registered yet again.
Listed(c) == cl[c].list \cup cl[c].rem

\* A request about context x, or its id i, is sent, and the client waits for the
\* answer; on a connection that the agent has cut it fails.
Request(c, k, i, x) ==
  IF conn[c] = "cut" THEN close_messenger(c, Listed(c))
  ELSE /\ toA' = [toA EXCEPT ![c] = Append(@, Msg(k, i, 0))]
       /\ cl' = [cl EXCEPT ![c].want = AnswerTo(k), ![c].sub = x]
       /\ UNCHANGED <<id, conn, toC, ag, shared, faults, asked>>

register_imcontext(x) ==
  LET c == Owner[x]
  IN Idle(c) /\ id[x] = NoId /\ Request(c, "register", NoId, x)

\* deregister_imcontext: the context leaves the list before the agent is told.  One
\* that is not listed is an error, unless the list is empty.
deregister_imcontext(x) ==
  LET c == Owner[x]
  IN /\ "deregister" \in Events /\ Idle(c) /\ (x \in cl[c].list \/ cl[c].list = {})
     /\ IF conn[c] = "cut" THEN close_messenger(c, cl[c].list \ {x})
        ELSE /\ toA' = [toA EXCEPT ![c] = Append(@, Msg("deregister", id[x], 0))]
             /\ cl' = [cl EXCEPT ![c].want = AnswerTo("deregister"), ![c].list = @ \ {x}]
             /\ id' = [id EXCEPT ![x] = NoId]
             /\ UNCHANGED <<conn, toC, ag, shared, faults, asked>>

\* The other requests, for any context, a registered one or not.
reset_imcontext(x) ==
  "reset" \in Events /\ Idle(Owner[x]) /\ Request(Owner[x], "reset", id[x], None)

handle_key_event(x) ==
  "key" \in Events /\ Idle(Owner[x]) /\ Request(Owner[x], "key", id[x], None)

change_focus(x) ==
  /\ Idle(Owner[x])
  /\ \E k \in {"in", "out"} \cap Events : Request(Owner[x], k, id[x], None)

\* received_message_...: an answer in the wrong context is ignored.
Answered(c, m) ==
  LET x == cl[c].sub
  IN IF m.k # cl[c].want THEN UNCHANGED <<cl, id>>
     ELSE /\ cl' = [cl EXCEPT ![c].want = None, ![c].sub = None, ![c].rem = @ \ {x},
                              ![c].list = IF x = None THEN @ ELSE @ \cup {x}]
          /\ id' = IF x = None THEN id ELSE [id EXCEPT ![x] = m.id]

\* read_and_dispatch, one message at a time.  A question is answered at once.  The
\* answer ends the request; what was read behind it is dispatched next.
read_and_dispatch(c) ==
  /\ cl[c].up /\ toC[c] # <<>>
  /\ LET m == Head(toC[c])
     IN IF m.k = "get" /\ conn[c] = "cut" THEN close_messenger(c, Listed(c))
        ELSE /\ IF m.k = "get"
                  THEN toA' = [toA EXCEPT ![c] = Append(@, Msg("got", m.id, m.q))]
                       /\ UNCHANGED <<cl, id>>
                  ELSE Answered(c, m) /\ UNCHANGED toA
             /\ toC' = [toC EXCEPT ![c] = Tail(@)]
             /\ UNCHANGED <<conn, ag, shared, faults, asked>>

\* read_and_dispatch finds the end of the stream.
Disconnected(c) == cl[c].up /\ conn[c] = "cut" /\ toC[c] = <<>> /\ close_messenger(c, Listed(c))

\* up: the program, which open_messenger launches when nobody listens, is running;
\* lst: the client listeners; tbl and free: imcontexts and free_imcontexts; foc: the
\* contexts with focused set; fdata: the shared engine's frontend data; rcv:
\* received_messages; buf: the receiving buffer; tmo: get_surrounding_timeout_count;
\* intr: the interruption; due: the clients still to be visited in this round; ask:
\* the question that is waited for, to client c, with the client to and the kind k of
\* the request to be answered then (None for the panel's events).  stray and wrong are history: a factory was
\* changed in a context that the shared engine did not serve; an answer was taken
\* for that to another question.
NoAsk == [c |-> None, q |-> 0, to |-> None, k |-> None, poll |-> FALSE]

NewAgent ==
  [up |-> TRUE, lst |-> {}, tbl |-> [i \in Ids |-> None], free |-> <<>>, size |-> 0,
   foc |-> {}, fdata |-> NoId,
   rcv |-> [c \in Clients |-> <<>>], buf |-> [c \in Clients |-> <<>>],
   tmo |-> [c \in Clients |-> 0], intr |-> FALSE, due |-> {}, ask |-> NoAsk,
   stray |-> FALSE, wrong |-> FALSE]

NoAgent == [NewAgent EXCEPT !.up = FALSE]

\* open_messenger: the agent is launched if nobody listens, and the contexts of the
\* list are to be registered again.
open_messenger(c) ==
  /\ ~cl[c].up /\ conn[c] = None
  /\ ag' = IF ag.up THEN ag ELSE NewAgent
  /\ conn' = [conn EXCEPT ![c] = "open"]
  /\ cl' = [cl EXCEPT ![c] = [NewClient EXCEPT !.up = TRUE, !.rem = cl[c].list]]
  /\ UNCHANGED <<id, toA, toC, shared, faults, asked>>

\* Its loop over the contexts.
RegisterAgain(c) ==
  /\ cl[c].up /\ cl[c].want = None
  /\ \E x \in cl[c].rem : id[x] = NoId /\ Request(c, "register", NoId, x)

Trouble == faults + asked.n < MaxTrouble

\* The application dies, and starts again with no context.
ClientDies(c) ==
  /\ cl[c].up /\ faults < MaxFaults /\ Trouble /\ faults' = faults + 1
  /\ cl' = [cl EXCEPT ![c] = NewClient]
  /\ id' = [x \in Ctxs |-> IF Owner[x] = c THEN NoId ELSE id[x]]
  /\ conn' = [conn EXCEPT ![c] = IF @ = "cut" THEN None ELSE "left"]
  /\ toC' = [toC EXCEPT ![c] = <<>>]
  /\ UNCHANGED <<toA, ag, shared, asked>>

-----------------------------------------------------------------------------
(* The agent's contexts: operators on the agent.                           *)

\* The engine of context i has i as its frontend data.
Serves(a, i) == IF shared THEN a.fdata = i ELSE i \in a.foc

\* focus_out: the shared engine keeps its frontend data.
focus_out(a, i) == [a EXCEPT !.foc = @ \ {i}]

\* focus_in: the context that the engine serves loses the focus first.
focus_in(a, i) ==
  LET b == IF shared /\ a.fdata # NoId THEN focus_out(a, a.fdata) ELSE a
  IN [b EXCEPT !.fdata = IF shared THEN i ELSE @, !.foc = @ \cup {i}]

\* open_imengine, with the factory in use ("same", or none), or with another one:
\* a new engine, with this context as its frontend data.
open_imengine(a, i, f) ==
  LET b == focus_out(a, i)
  IN IF f = "same" THEN b
     ELSE focus_in([b EXCEPT !.fdata = IF shared THEN i ELSE @,
                             !.stray = @ \/ (shared /\ a.fdata \notin {i, NoId})], i)

\* The ids of S in ascending order.
Ascending(S) ==
  [k \in 1..Cardinality(S) |-> CHOOSE i \in S : Cardinality({j \in S : j < i}) = k - 1]

\* (Mutant: the engine is not told that its context is deleted.)
DestroyQuietly(a, S) ==
  [a EXCEPT !.tbl = [i \in Ids |-> IF i \in S THEN None ELSE @[i]],
            !.free = @ \o Ascending(S), !.foc = @ \ S]

\* The destructor, of contexts S in the order of their ids: the engine forgets them
\* and their ids are free.
Destroy(a, S) ==
  [a EXCEPT !.tbl = [i \in Ids |-> IF i \in S THEN None ELSE @[i]],
            !.free = @ \o Ascending(S), !.foc = @ \ S,
            !.fdata = IF @ \in S THEN NoId ELSE @]

NewId(a) == IF a.free = <<>> THEN a.size ELSE Last(a.free)

\* (Mutant: the id stays in the list of the free ones.)
AllocReusing(a, c) ==
  [a EXCEPT !.tbl[NewId(a)] = c, !.size = IF a.free = <<>> THEN @ + 1 ELSE @]

alloc_imcontext(a, c) ==
  [a EXCEPT !.tbl[NewId(a)] = c,
            !.size = IF a.free = <<>> THEN @ + 1 ELSE @,
            !.free = IF @ = <<>> THEN @ ELSE Front(@)]

Found(a, i) == i \in Ids /\ a.tbl[i] # None

\* free_imcontext: only the owner may.
free_imcontext(a, c, i) == IF Found(a, i) /\ a.tbl[i] = c THEN Destroy(a, {i}) ELSE a

\* filter_key_event: a hotkey opens an engine; else a context that the engine does
\* not serve is focused first.
filter_key_event(a, i, e) ==
  IF e \in {"same", "other"} THEN open_imengine(a, i, e)
  ELSE IF Serves(a, i) THEN a ELSE focus_in(a, i)

\* process_message, without its answer.  An id of -1 arrives as an unsigned number
\* that no context has.
process_message(a, c, m, e) ==
  CASE m.k = "register"   -> alloc_imcontext(a, c)
    [] m.k = "deregister" -> free_imcontext(a, c, m.id)
    [] m.k = "got"        -> [a EXCEPT !.tmo[c] = IF @ > 0 THEN @ - 1 ELSE 0]
    [] m.k = "in"    -> IF Found(a, m.id) THEN focus_in(a, m.id) ELSE a
    [] m.k = "out"   -> IF Found(a, m.id) THEN focus_out(a, m.id) ELSE a
    [] m.k = "key"   -> IF Found(a, m.id) THEN filter_key_event(a, m.id, e) ELSE a
    [] m.k = "reset" -> a

-----------------------------------------------------------------------------
(* The agent's event loop and client listeners.                            *)

Running == ag.up /\ ag.ask = NoAsk

Keep == UNCHANGED <<cl, id, shared, faults>>

\* remove_client_listener: its contexts are deleted, and the agent quits with its
\* last client; those who wait to be accepted are cut off.
remove_client_listener(c) ==
  LET gone == ag.lst = {c}
      mine == {i \in Ids : ag.tbl[i] = c}
  IN /\ ag' = IF gone THEN NoAgent
              ELSE [Destroy(ag, mine) EXCEPT
                      !.lst = @ \ {c}, !.due = @ \ {c}, !.rcv[c] = <<>>,
                      !.buf[c] = <<>>, !.tmo[c] = 0]
     /\ conn' = [d \in Clients |->
                   IF d # c /\ ~gone THEN conn[d]
                   ELSE IF conn[d] = "open" THEN "cut"
                   ELSE IF conn[d] = "left" THEN None ELSE conn[d]]
     /\ toA' = [d \in Clients |-> IF d = c \/ gone THEN <<>> ELSE toA[d]]
     /\ Keep /\ UNCHANGED <<toC, asked>>

\* The accept listener's handle_event.
Accept(c) ==
  /\ Running /\ conn[c] \in {"open", "left"} /\ c \notin ag.lst
  /\ ag' = [ag EXCEPT !.lst = @ \cup {c}]
  /\ Keep /\ UNCHANGED <<conn, toA, toC, asked>>

Chunk(c) == 1..Len(toA[c])

\* handle_event, READ: what arrived, behind what was left in the buffer, is queued,
\* and the agent interrupts itself.
Read(c) ==
  /\ Running /\ c \in ag.lst \ ag.due
  /\ \E k \in Chunk(c) :
       /\ ag' = [ag EXCEPT !.rcv[c] = @ \o ag.buf[c] \o SubSeq(toA[c], 1, k),
                           !.buf[c] = <<>>, !.intr = TRUE]
       /\ toA' = [toA EXCEPT ![c] = SubSeq(@, k + 1, Len(@))]
  /\ Keep /\ UNCHANGED <<conn, toC, asked>>

\* handle_event, READ at the end of the stream.
ReadEnd(c) ==
  /\ Running /\ c \in ag.lst \ ag.due /\ conn[c] = "left" /\ toA[c] = <<>>
  /\ remove_client_listener(c)

\* run_event_loop: an interrupted round visits the clients with messages.
Round ==
  /\ Running /\ ag.intr /\ ag.due = {}
  /\ ag' = [ag EXCEPT !.intr = FALSE, !.due = {c \in ag.lst : ag.rcv[c] # <<>>}]
  /\ Keep /\ UNCHANGED <<conn, toA, toC, asked>>

EndVisit(c) ==
  /\ Running /\ c \in ag.due /\ ag.rcv[c] = <<>>
  /\ ag' = [ag EXCEPT !.due = @ \ {c}]
  /\ Keep /\ UNCHANGED <<conn, toA, toC, asked>>

\* A message to client c, unless it has gone.
Send(c, m) == toC' = IF conn[c] = "open" THEN [toC EXCEPT ![c] = Append(@, m)] ELSE toC

\* The answer to m, which carries the new context's id.
Answer(a, c, m) ==
  Send(c, Msg(AnswerTo(m.k), IF m.k = "register" THEN NewId(a) ELSE NoId, 0))

\* The contexts about which an engine may ask while it processes m: it is called for
\* the context of m, if it serves it, and first for the one that is its frontend data,
\* of whatever client, when the focus moves or a hotkey opens an engine.  One question
\* per request; those about contexts of a client that is being removed go nowhere.
Questioned(a, c, m, e) ==
  {j \in {m.id, a.fdata} :
     /\ Found(a, m.id) /\ Found(a, j)
     /\ \/ m.k \in {"in", "key"} /\ (j = m.id \/ j \in a.foc \/ e # "none")
        \/ m.k = "out" /\ j = m.id /\ j \in a.foc
        \/ m.k = "reset" /\ j = m.id /\ Serves(a, j)
        \/ m.k = "deregister" /\ j = m.id /\ Serves(a, j) /\ a.tbl[j] = c}

\* It asks for the surrounding text of context i, with the agent at a when it is done:
\* the agent waits, and then answers the request k of client to, if one caused it.
get_surrounding_string(a, i, to, k) ==
  /\ asked.n < MaxAsk /\ Trouble
  /\ asked' = [n |-> asked.n + 1, read |-> asked.read]
  /\ ag' = [a EXCEPT !.ask = [c |-> ag.tbl[i], q |-> asked.n + 1, to |-> to, k |-> k,
                              poll |-> FALSE]]
  /\ Send(ag.tbl[i], Msg("get", i, asked.n + 1))

\* The hotkeys are those of filter_key_event.
Hotkeys(k) == IF k = "key" THEN {"none", "same", "other"} ELSE {"none"}

\* handle_event, INTERRUPT: the next message of the queue.  A key event is the one
\* request whose id is sent as a signed number: -1 closes the connection.
Serve(c) ==
  /\ Running /\ c \in ag.due /\ ag.rcv[c] # <<>>
  /\ LET m == Head(ag.rcv[c])
         a == [ag EXCEPT !.rcv[c] = Tail(@)]
     IN \/ m.k = "key" /\ m.id = NoId /\ remove_client_listener(c)
        \/ /\ m.k = "got" /\ ag' = process_message(a, c, m, "none")
           /\ Keep /\ UNCHANGED <<conn, toA, toC, asked>>
        \/ /\ \E e \in Hotkeys(m.k) : \E j \in Questioned(ag, c, m, e) :
                get_surrounding_string(process_message(a, c, m, e), j, c, m.k)
           /\ Keep /\ UNCHANGED <<conn, toA>>
        \/ /\ m.k # "got" /\ ~(m.k = "key" /\ m.id = NoId)
           /\ \E e \in Hotkeys(m.k) : ag' = process_message(a, c, m, e)
           /\ Answer(a, c, m)
           /\ Keep /\ UNCHANGED <<conn, toA, asked>>

-----------------------------------------------------------------------------
(* The wait in get_surrounding_string.                                     *)

Waiting == ag.up /\ ag.ask # NoAsk

\* (Mutant: the request stays unanswered.)
EndAskSilently(a) == ag' = [a EXCEPT !.ask = NoAsk] /\ UNCHANGED toC

\* The wait is over.  The request is answered, if a request caused the question.
EndAsk(a) ==
  /\ ag' = [a EXCEPT !.ask = NoAsk]
  /\ IF ag.ask.to = None THEN UNCHANGED toC
     ELSE Send(ag.ask.to, Msg(AnswerTo(ag.ask.k), NoId, 0))

\* receive_message.
AskRead ==
  LET c == ag.ask.c
  IN /\ Waiting /\ ~ag.ask.poll
     /\ \E k \in Chunk(c) :
          /\ ag' = [ag EXCEPT !.buf[c] = @ \o SubSeq(toA[c], 1, k), !.ask.poll = TRUE]
          /\ toA' = [toA EXCEPT ![c] = SubSeq(@, k + 1, Len(@))]
          /\ asked' = [n |-> asked.n,
                       read |-> IF \A n \in 1..k : toA[c][n].k = "got" THEN asked.read
                                ELSE asked.read \cup {c}]
     /\ Keep /\ UNCHANGED <<conn, toC>>

\* poll_message: an answer counts unless older ones are still to come; a reset is
\* processed (that its engine asks again, one wait inside the other, is left out);
\* anything else is queued, and nobody is interrupted.
AskPoll ==
  LET c == ag.ask.c  m == Head(ag.buf[c])  a == [ag EXCEPT !.buf[c] = Tail(@)]
  IN /\ Waiting /\ ag.ask.poll /\ ag.buf[c] # <<>>
     /\ \/ m.k = "got" /\ ag.tmo[c] = 0 /\ EndAsk([a EXCEPT !.wrong = @ \/ m.q # ag.ask.q])
        \/ m.k = "got" /\ ag.tmo[c] > 0 /\ ag' = process_message(a, c, m, "none") /\ UNCHANGED toC
        \/ /\ m.k = "reset" /\ ag' = process_message(a, c, m, "none")
           /\ Answer(a, c, m)
        \/ m.k \notin {"got", "reset"} /\ ag' = [a EXCEPT !.rcv[c] = Append(@, m)] /\ UNCHANGED toC
     /\ Keep /\ UNCHANGED <<conn, toA, asked>>

AskPollEnd ==
  /\ Waiting /\ ag.ask.poll /\ ag.buf[ag.ask.c] = <<>>
  /\ ag' = [ag EXCEPT !.ask.poll = FALSE]
  /\ Keep /\ UNCHANGED <<conn, toA, toC, asked>>

\* (Mutant: a question without an answer is forgotten.)
AskTimeoutForgotten ==
  /\ Waiting /\ ~ag.ask.poll /\ EndAsk(ag)
  /\ Keep /\ UNCHANGED <<conn, toA, asked>>

\* Five seconds have passed: one answer is to be ignored when it comes.
AskTimeout ==
  /\ Waiting /\ ~ag.ask.poll /\ EndAsk([ag EXCEPT !.tmo[ag.ask.c] = @ + 1])
  /\ Keep /\ UNCHANGED <<conn, toA, asked>>

\* The client has gone.
AskFails ==
  /\ Waiting /\ ~ag.ask.poll /\ conn[ag.ask.c] = "left" /\ toA[ag.ask.c] = <<>>
  /\ EndAsk(ag)
  /\ Keep /\ UNCHANGED <<conn, toA, asked>>

-----------------------------------------------------------------------------
(* The panel's events, in a context it names, and crashes of the agent.    *)

\* slot_change_factory.
PanelChangeFactory(i) ==
  /\ "factory" \in Events /\ Running /\ Found(ag, i) /\ ag.due = {}
  /\ \E f \in {"same", "other"} :
       \/ ag' = open_imengine(ag, i, f) /\ UNCHANGED <<toC, asked>>
       \/ \E j \in Questioned(ag, None, Msg("key", i, 0), f) :
            get_surrounding_string(open_imengine(ag, i, f), j, None, None)
  /\ Keep /\ UNCHANGED <<conn, toA>>

\* slot_process_helper_event, slot_select_candidate...: the engine asks the context
\* it serves.
PanelAsks(i) ==
  /\ "ask" \in Events /\ Running /\ ag.due = {} /\ i \in Ids /\ Found(ag, i) /\ Serves(ag, i)
  /\ get_surrounding_string(ag, i, None, None)
  /\ Keep /\ UNCHANGED <<conn, toA>>

AgentCrash ==
  /\ ag.up /\ faults < MaxFaults /\ Trouble /\ faults' = faults + 1
  /\ ag' = NoAgent
  /\ conn' = [c \in Clients |-> IF conn[c] = "open" THEN "cut"
                                 ELSE IF conn[c] = "left" THEN None ELSE conn[c]]
  /\ toA' = [c \in Clients |-> <<>>]
  /\ UNCHANGED <<cl, id, toC, shared, asked>>

-----------------------------------------------------------------------------
Init ==
  /\ cl = [c \in Clients |-> NewClient] /\ id = [x \in Ctxs |-> NoId]
  /\ conn = [c \in Clients |-> None]
  /\ toA = [c \in Clients |-> <<>>] /\ toC = [c \in Clients |-> <<>>]
  /\ ag = NoAgent /\ shared \in SharedModes
  /\ faults = 0 /\ asked = [n |-> 0, read |-> {}]

Calls(c) ==
  \/ open_messenger(c)
  \/ \E x \in Ctxs :
       /\ Owner[x] = c
       /\ \/ register_imcontext(x) \/ deregister_imcontext(x)
          \/ reset_imcontext(x) \/ handle_key_event(x) \/ change_focus(x)

Library(c) == RegisterAgain(c) \/ read_and_dispatch(c) \/ Disconnected(c)

Listener(c) == Serve(c) \/ EndVisit(c)

Wait == AskRead \/ AskPoll \/ AskPollEnd

Next ==
  \/ \E c \in Clients : Calls(c) \/ Library(c) \/ ClientDies(c)
  \/ \E c \in Clients : Accept(c) \/ Read(c) \/ ReadEnd(c) \/ Listener(c)
  \/ Round \/ Wait \/ AskTimeout \/ AskFails
  \/ \E i \in Ids : PanelChangeFactory(i) \/ PanelAsks(i)
  \/ AgentCrash

Spec == Init /\ [][Next]_vars

\* The library's loops and the agent execute; select () reports every ready
\* descriptor and each round serves all of them, so no client is passed over; a
\* wait ends after five seconds, whatever arrives.
FairSpec ==
  /\ Spec
  /\ \A c \in Clients : WF_vars(Library(c)) /\ SF_vars(Accept(c) \/ Read(c))
  /\ WF_vars(Round \/ Wait \/ \E c \in Clients : Listener(c)) /\ SF_vars(AskTimeout)

-----------------------------------------------------------------------------
(* Properties.                                                             *)

\* The shared engine's frontend data is a context that exists, and no other context
\* believes that it has the focus, however focus changes, late key events of other
\* applications, deregistrations and lost clients are interleaved; a factory change
\* for a context that the engine did not serve is the exception (open_imengine).
OneFocused ==
  shared => /\ ag.fdata # NoId => Found(ag, ag.fdata)
            /\ ag.stray \/ ag.foc \subseteq {ag.fdata}

\* A client that waits for nothing and the agent agree on its contexts: each id the
\* client uses names a context of its own, each context of the agent is listed.
ContextsAgree ==
  \A c \in Clients : Idle(c) /\ conn[c] = "open" =>
    /\ {i \in Ids : ag.tbl[i] = c} = {id[x] : x \in cl[c].list}
    /\ Cardinality({id[x] : x \in cl[c].list}) = Cardinality(cl[c].list)

\* An engine never takes a late answer for the answer to its question.
AnswerMatches == ~ag.wrong

\* A client's request ends, although the agent and other clients die and engines ask
\* any client in between, unless one was read in a wait for an answer of this client:
\* it is queued, or left in the buffer, and nobody is interrupted (poll_message).  The
\* question may come from a request of another client, or from the panel.
RequestEnds ==
  \A c \in Clients : (cl[c].want # None) ~> (cl[c].want = None \/ c \in asked.read)
=============================================================================
