------------------------ MODULE HelperLifecycleProofs ------------------------
(***************************************************************************)
(* The books of panel and helper agree, for every set of contexts and of   *)
(* processes, and however long the queues grow.                            *)
(*                                                                         *)
(* What a process will have attached (Attached) changes with what the      *)
(* panel writes and not with what the process reads; the reference count   *)
(* the panel keeps is at most the number of contexts that use the process. *)
(***************************************************************************)
EXTENDS HelperLifecycle, FiniteSetTheorems, SequenceTheorems, TLAPS

-----------------------------------------------------------------------------
(* What is attached when everything has been read.                         *)

\* Message k of box, or the contexts attached before, attach c; and no message
\* after it detaches c.
Gains(c, att, box, k) ==
  IF k = 0 THEN c \in att ELSE box[k].m \in {"OK", "ATTACH"} /\ c \in box[k].ics
Drops(c, m) == m.m \in {"DETACH", "DETACH_EXIT"} /\ c \in m.ics
Has(c, att, box) ==
  \E k \in 0..Len(box) : /\ Gains(c, att, box, k)
                         /\ \A j \in (k + 1)..Len(box) : ~Drops(c, box[j])

Held(att, box) == {c \in Ics : Has(c, att, box)}
Exits(box) == \E k \in 1..Len(box) : box[k].m = "DETACH_EXIT"

\* Nothing to read.
LEMMA HasEmpty ==
  ASSUME NEW c, NEW att
  PROVE  Has(c, att, <<>>) <=> c \in att
<1>1. Len(<<>>) = 0 /\ 0..0 = {0} /\ (0 + 1)..0 = {}  OBVIOUS
<1>2. QED  BY <1>1 DEF Has, Gains

\* One more message to read.
LEMMA HasAppend ==
  ASSUME NEW c, NEW att, NEW box \in Seq(Messages), NEW m \in Messages
  PROVE  Has(c, att, Append(box, m)) <=>
           \/ m.m \in {"OK", "ATTACH"} /\ c \in m.ics
           \/ Has(c, att, box) /\ ~Drops(c, m)
<1> DEFINE n == Len(box)  bx == Append(box, m)
<1>1. n \in Nat /\ Len(bx) = n + 1 /\ bx[n + 1] = m /\ (\A k \in 1..n : bx[k] = box[k])
  OBVIOUS
<1>2. \A k \in 0..n : Gains(c, att, bx, k) <=> Gains(c, att, box, k)
  BY <1>1 DEF Gains
<1>3. Gains(c, att, bx, n + 1) <=> m.m \in {"OK", "ATTACH"} /\ c \in m.ics
  BY <1>1 DEF Gains
<1> HIDE DEF bx
<1>4. ASSUME NEW k \in 0..n
      PROVE  (\A j \in (k + 1)..(n + 1) : ~Drops(c, bx[j])) <=>
             (\A j \in (k + 1)..n : ~Drops(c, box[j])) /\ ~Drops(c, m)
  <2>1. \A j \in (k + 1)..n : j \in 1..n /\ j \in (k + 1)..(n + 1) /\ bx[j] = box[j]  BY <1>1
  <2>2. \A j \in (k + 1)..(n + 1) : j \in (k + 1)..n \/ j = n + 1  BY <1>1
  <2>3. n + 1 \in (k + 1)..(n + 1)  BY <1>1
  <2>4. QED  BY <1>1, <2>1, <2>2, <2>3
<1>5. 0..(n + 1) = 0..n \cup {n + 1} /\ ((n + 1) + 1)..(n + 1) = {}  BY <1>1
<1>6. Has(c, att, bx) <=> \E k \in 0..(n + 1) : /\ Gains(c, att, bx, k)
                                               /\ \A j \in (k + 1)..(n + 1) : ~Drops(c, bx[j])
  BY <1>1 DEF Has
<1>7. Has(c, att, box) <=> \E k \in 0..n : /\ Gains(c, att, box, k)
                                           /\ \A j \in (k + 1)..n : ~Drops(c, box[j])
  BY DEF Has
<1> HIDE DEF n
<1>8. QED  BY <1>2, <1>3, <1>4, <1>5, <1>6, <1>7 DEF bx

\* One message read: nothing changes.
LEMMA HasTail ==
  ASSUME NEW c, NEW att, NEW box \in Seq(Messages), box # <<>>
  PROVE  Has(c, Attach(att, Head(box)), Tail(box)) <=> Has(c, att, box)
<1> DEFINE n == Len(box)  t == Tail(box)  m == Head(box)  a == Attach(att, m)
<1>1. /\ n \in Nat /\ n >= 1 /\ Len(t) = n - 1 /\ m = box[1] /\ m \in Messages
      /\ \A k \in 1..(n - 1) : t[k] = box[k + 1]
  OBVIOUS
<1>2. c \in a <=> (m.m \in {"OK", "ATTACH"} /\ c \in m.ics) \/ (c \in att /\ ~Drops(c, m))
  BY <1>1 DEF Attach, Drops, Messages
<1> HIDE DEF t, m, a
<1>3. \A k \in 1..(n - 1) : Gains(c, a, t, k) <=> Gains(c, att, box, k + 1)
  BY <1>1 DEF Gains
<1>4. ASSUME NEW k \in 0..(n - 1)
      PROVE  (\A j \in (k + 1)..(n - 1) : ~Drops(c, t[j])) <=>
             (\A j \in (k + 2)..n : ~Drops(c, box[j]))
  <2>1. \A j \in (k + 1)..(n - 1) : j + 1 \in (k + 2)..n /\ t[j] = box[j + 1]  BY <1>1
  <2>2. \A j \in (k + 2)..n : j - 1 \in (k + 1)..(n - 1) /\ t[j - 1] = box[j]
    <3>1. \A j \in (k + 2)..n : j - 1 \in (k + 1)..(n - 1) /\ j - 1 \in 1..(n - 1) /\ (j - 1) + 1 = j
      BY <1>1
    <3>2. QED  BY <1>1, <3>1
  <2>3. QED  BY <2>1, <2>2
<1>5. (\A j \in 1..n : ~Drops(c, box[j])) <=>
      ~Drops(c, m) /\ (\A j \in 2..n : ~Drops(c, box[j]))
  <2>1. 1..n = {1} \cup 2..n  BY <1>1
  <2>2. QED  BY <1>1, <2>1
<1>6. Has(c, a, t) <=>
        \/ c \in a /\ \A j \in 2..n : ~Drops(c, box[j])
        \/ \E k \in 1..(n - 1) : /\ Gains(c, att, box, k + 1)
                                 /\ \A j \in (k + 2)..n : ~Drops(c, box[j])
  <2>1. 0..(n - 1) = {0} \cup 1..(n - 1) /\ 0 + 2 = 2 /\ 0 + 1 = 1  BY <1>1
  <2>2. Gains(c, a, t, 0) <=> c \in a  BY DEF Gains
  <2>3. Has(c, a, t) <=> \E k \in 0..(n - 1) : /\ Gains(c, a, t, k)
                                              /\ \A j \in (k + 1)..(n - 1) : ~Drops(c, t[j])
    BY <1>1 DEF Has
  <2>4. Has(c, a, t) <=> \E k \in 0..(n - 1) : /\ Gains(c, a, t, k)
                                              /\ \A j \in (k + 2)..n : ~Drops(c, box[j])
    BY <1>4, <2>3
  <2> HIDE DEF n
  <2>5. QED  BY <1>3, <2>1, <2>2, <2>4
<1>7. Has(c, att, box) <=>
        \/ c \in att /\ \A j \in 1..n : ~Drops(c, box[j])
        \/ (m.m \in {"OK", "ATTACH"} /\ c \in m.ics) /\ \A j \in 2..n : ~Drops(c, box[j])
        \/ \E k \in 1..(n - 1) : /\ Gains(c, att, box, k + 1)
                                 /\ \A j \in (k + 2)..n : ~Drops(c, box[j])
  <2>1. 0..n = {0, 1} \cup 2..n /\ 0 + 1 = 1 /\ 1 + 1 = 2  BY <1>1
  <2>2. /\ Gains(c, att, box, 0) <=> c \in att
        /\ Gains(c, att, box, 1) <=> m.m \in {"OK", "ATTACH"} /\ c \in m.ics
    BY <1>1 DEF Gains
  <2>3. /\ \A k \in 2..n : k - 1 \in 1..(n - 1) /\ (k - 1) + 1 = k /\ (k - 1) + 2 = k + 1
        /\ \A k \in 1..(n - 1) : k + 1 \in 2..n /\ (k + 1) + 1 = k + 2
    BY <1>1
  <2>4. Has(c, att, box) <=> \E k \in 0..n : /\ Gains(c, att, box, k)
                                             /\ \A j \in (k + 1)..n : ~Drops(c, box[j])
    BY DEF Has
  <2> HIDE DEF n
  <2>5. (\E k \in 2..n : /\ Gains(c, att, box, k)
                         /\ \A j \in (k + 1)..n : ~Drops(c, box[j])) <=>
        \E k \in 1..(n - 1) : /\ Gains(c, att, box, k + 1)
                              /\ \A j \in (k + 2)..n : ~Drops(c, box[j])
    <3>1. ASSUME NEW k \in 2..n, Gains(c, att, box, k), \A j \in (k + 1)..n : ~Drops(c, box[j])
          PROVE  \E i \in 1..(n - 1) : /\ Gains(c, att, box, i + 1)
                                       /\ \A j \in (i + 2)..n : ~Drops(c, box[j])
      <4> k - 1 \in 1..(n - 1) /\ (k - 1) + 1 = k /\ (k - 1) + 2 = k + 1  BY <2>3
      <4>1. WITNESS k - 1 \in 1..(n - 1)
      <4>2. QED  BY <3>1
    <3>2. ASSUME NEW k \in 1..(n - 1), Gains(c, att, box, k + 1),
                 \A j \in (k + 2)..n : ~Drops(c, box[j])
          PROVE  \E i \in 2..n : /\ Gains(c, att, box, i)
                                 /\ \A j \in (i + 1)..n : ~Drops(c, box[j])
      <4> k + 1 \in 2..n /\ (k + 1) + 1 = k + 2  BY <2>3
      <4>1. WITNESS k + 1 \in 2..n
      <4>2. QED  BY <3>2
    <3>3. QED  BY <3>1, <3>2
  <2>6. QED  BY <2>1, <2>2, <2>4, <2>5
<1> HIDE DEF n
<1>8. Has(c, a, t) <=> Has(c, att, box)  BY <1>2, <1>5, <1>6, <1>7
<1>9. QED  BY <1>8 DEF a, t, m

-----------------------------------------------------------------------------
(* The types.                                                              *)

Proc == [st : States, reg : BOOLEAN, att : SUBSET Ics, inbox : Seq(Messages)]
Agent == [up : BOOLEAN, link : BOOLEAN, auto : BOOLEAN,
          helper : Pids \cup {NoPid}, ref : Int, queue : SUBSET Ics]

\* HelperManager::run_helper touches the connection to the manager, and may end
\* the panel.
LEMMA RunHelper ==
  ASSUME Types, NEW q \in Agent, run_helper(q)
  PROVE  /\ pa' \in Agent
         /\ pa'.helper = q.helper /\ pa'.ref = q.ref /\ pa'.queue = q.queue
         /\ pa'.up => q.up
         /\ mgr' \in [up : BOOLEAN, req : Nat, failed : BOOLEAN] /\ faults' \in Nat
<1>1. mgr \in [up : BOOLEAN, req : Nat, failed : BOOLEAN] /\ faults \in Nat  BY DEF Types
<1>2. CASE Written(q)  BY <1>1, <1>2 DEF Written, Agent
<1>3. CASE Relaunch(q)  BY <1>1, <1>3 DEF Relaunch, Agent
<1>4. CASE Listless(q)
  <2>1. pa' = [q EXCEPT !.link = FALSE]  BY <1>4 DEF Listless
  <2>2. pa' \in Agent  BY <2>1 DEF Agent
  <2>3. pa'.helper = q.helper /\ pa'.ref = q.ref /\ pa'.queue = q.queue  BY <2>1 DEF Agent
  <2>4. pa'.up = q.up  BY <2>1 DEF Agent
  <2>5. faults' \in Nat  BY <1>1, <1>4 DEF Listless, Fault
  <2>6. mgr' \in [up : BOOLEAN, req : Nat, failed : BOOLEAN]  BY <1>1, <1>4 DEF Listless
  <2>7. QED  BY <2>2, <2>3, <2>4, <2>5, <2>6
<1>5. CASE Unreachable(q)
  <2>1. pa' = [q EXCEPT !.link = FALSE]  BY <1>5 DEF Unreachable
  <2>2. pa' \in Agent  BY <2>1 DEF Agent
  <2>3. pa'.helper = q.helper /\ pa'.ref = q.ref /\ pa'.queue = q.queue  BY <2>1 DEF Agent
  <2>4. pa'.up = q.up  BY <2>1 DEF Agent
  <2>5. faults' \in Nat  BY <1>1, <1>5 DEF Unreachable, Fault
  <2>6. mgr' \in [up : BOOLEAN, req : Nat, failed : BOOLEAN]  BY <1>1, <1>5 DEF Unreachable
  <2>7. QED  BY <2>2, <2>3, <2>4, <2>5, <2>6
<1>6. CASE LaunchFails(q)
  <2>1. pa' = [q EXCEPT !.up = FALSE, !.link = FALSE]  BY <1>6 DEF LaunchFails
  <2>2. pa' \in Agent  BY <2>1 DEF Agent
  <2>3. pa'.helper = q.helper /\ pa'.ref = q.ref /\ pa'.queue = q.queue  BY <2>1 DEF Agent
  <2>4. pa'.up = FALSE  BY <2>1 DEF Agent
  <2>5. faults' \in Nat  BY <1>1, <1>6 DEF LaunchFails, Fault
  <2>6. mgr' \in [up : BOOLEAN, req : Nat, failed : BOOLEAN]  BY <1>1, <1>6 DEF LaunchFails
  <2>7. QED  BY <2>2, <2>3, <2>4, <2>5, <2>6
<1>7. CASE NoLink(q)  BY <1>1, <1>7 DEF NoLink, Agent
<1>8. QED  BY <1>2, <1>3, <1>4, <1>5, <1>6, <1>7 DEF run_helper

\* A process that is not there.
LEMMA NoProcType ==
  /\ NoProc \in Proc
  /\ NoProc.st = "none" /\ NoProc.reg = FALSE /\ NoProc.att = {} /\ NoProc.inbox = <<>>
<1>1. NoProc \in Proc  BY DEF NoProc, Proc, States
<1>2. QED  BY <1>1 DEF NoProc

\* What writing to a process makes of it.
LEMMA WriteProc ==
  ASSUME Types, NEW p \in Pids, NEW m \in {"OK", "FAIL", "ATTACH", "DETACH", "DETACH_EXIT"},
         NEW ics \in SUBSET Ics, Write(p, m, ics)
  PROVE  /\ proc' \in [Pids -> Proc]
         /\ \A x \in Pids : x # p => proc'[x] = proc[x]
         /\ proc'[p].st = proc[p].st /\ proc'[p].reg = proc[p].reg /\ proc'[p].att = proc[p].att
         /\ proc[p].st = "dead" => proc'[p] = proc[p]
         /\ proc[p].st # "dead" => proc'[p].inbox = Append(proc[p].inbox, Msg(m, ics))
<1>1. proc \in [Pids -> Proc]  BY DEF Types, Proc
<1>2. Msg(m, ics) \in Messages  BY DEF Msg, Messages
<1>3. Append(proc[p].inbox, Msg(m, ics)) \in Seq(Messages)  BY <1>1, <1>2 DEF Proc
<1> DEFINE bx == IF proc[p].st = "dead" THEN proc[p].inbox ELSE Append(proc[p].inbox, Msg(m, ics))
<1>4. bx \in Seq(Messages)  BY <1>1, <1>3 DEF Proc
<1>5. proc' = [proc EXCEPT ![p] = [proc[p] EXCEPT !.inbox = bx]]  BY <1>1 DEF Write, Proc
<1> HIDE DEF bx
<1>6. [proc[p] EXCEPT !.inbox = bx] \in Proc  BY <1>1, <1>4 DEF Proc
<1>7. proc' \in [Pids -> Proc] /\ (\A x \in Pids : x # p => proc'[x] = proc[x])
      /\ proc'[p] = [proc[p] EXCEPT !.inbox = bx]
  BY <1>1, <1>5, <1>6
<1>8. /\ proc'[p].st = proc[p].st /\ proc'[p].reg = proc[p].reg /\ proc'[p].att = proc[p].att
      /\ proc'[p].inbox = bx
  BY <1>1, <1>7 DEF Proc
<1>9. proc[p].st = "dead" => proc'[p] = proc[p]  BY <1>1, <1>7 DEF Proc, bx
<1>10. QED  BY <1>7, <1>8, <1>9 DEF bx

\* What the end of a process makes of it.
LEMMA EndsProc ==
  ASSUME Types, NEW p \in Pids, Ends(p)
  PROVE  /\ proc' \in [Pids -> Proc]
         /\ \A x \in Pids : x # p => proc'[x] = proc[x]
         /\ proc[p].st = "launched" => proc'[p] = NoProc
         /\ proc[p].st # "launched" => /\ proc'[p].st = "dead" /\ proc'[p].reg = proc[p].reg
                                       /\ proc'[p].att = {} /\ proc'[p].inbox = <<>>
<1>1. proc \in [Pids -> Proc]  BY DEF Types, Proc
<1>2. NoProc \in Proc  BY DEF NoProc, Proc, States
<1> DEFINE d == [proc[p] EXCEPT !.st = "dead", !.att = {}, !.inbox = <<>>]
<1>3. /\ d \in Proc /\ d.st = "dead" /\ d.reg = proc[p].reg /\ d.att = {} /\ d.inbox = <<>>
  <2>1. proc[p] \in Proc  BY <1>1
  <2>2. d.st = "dead" /\ d.att = {} /\ d.inbox = <<>>  BY <2>1 DEF Proc
  <2>3. d.reg = proc[p].reg  BY <2>1 DEF Proc
  <2>4. <<>> \in Seq(Messages) /\ {} \in SUBSET Ics /\ "dead" \in States  BY DEF States
  <2>5. d \in Proc  BY <2>1, <2>4 DEF Proc
  <2>6. QED  BY <2>2, <2>3, <2>5
<1>4. proc' = [proc EXCEPT ![p] = IF proc[p].st = "launched" THEN NoProc ELSE d]
  BY <1>1 DEF Ends
<1> HIDE DEF d
<1>5. QED  BY <1>1, <1>2, <1>3, <1>4

\* A process record is replaced.
LEMMA SetProc ==
  ASSUME Types, NEW p \in Pids, NEW r \in Proc, proc' = [proc EXCEPT ![p] = r]
  PROVE  /\ proc' \in [Pids -> Proc] /\ proc'[p] = r
         /\ \A x \in Pids : x # p => proc'[x] = proc[x]
<1>1. proc \in [Pids -> Proc]  BY DEF Types, Proc
<1>2. QED  BY <1>1

-----------------------------------------------------------------------------
(* The inductive invariant.                                                *)

\* What a process and the panel know of each other: only the registered process
\* runs, and what a process that waits for its reply reads first is its reply.
ProcOK(p) ==
  /\ proc[p].st \in {"none", "launched"} =>
       proc[p].reg = FALSE /\ proc[p].att = {} /\ proc[p].inbox = <<>>
  /\ proc[p].st = "asked" => proc[p].att = {}
  /\ proc[p].st = "running" => p = pa.helper
  /\ proc[p].st = "dead" => proc[p].att = {} /\ proc[p].inbox = <<>>
  /\ proc[p].reg => p # pa.helper /\ proc[p].inbox = <<>>
  /\ proc[p].st = "asked" /\ ~proc[p].reg /\ p # pa.helper =>
       proc[p].inbox # <<>> /\ proc[p].inbox[1].m = "FAIL"
  /\ p = pa.helper => /\ proc[p].st \in {"asked", "running", "dead"}
                      /\ \A k \in 1..Len(proc[p].inbox) : proc[p].inbox[k].m # "FAIL"

\* The contexts the registered process will have; it has ended, or will.
Of == IF pa.helper = NoPid THEN {} ELSE Attached(pa.helper)
Going == pa.helper # NoPid /\ (proc[pa.helper].st = "dead" \/ Leaving(pa.helper))

\* The contexts, those lost apart from those that are not; and the reference
\* count of a process that stays.
Covered == wants \subseteq pa.queue \cup Of \cup lost \/ Going
Used    == pa.queue \cup Of \subseteq wants \cup stale
Apart   == lost \cap (pa.queue \cup Of) = {} /\ (pa.helper # NoPid => pa.queue = {})
Counted ==
  pa.helper # NoPid /\ ~Going =>
    pa.ref >= 1 /\ (~idle /\ stale = {} => pa.ref <= Cardinality(wants \ lost))

Procs == \A p \in Pids : ProcOK(p)
Books == Covered /\ Used /\ Apart /\ Counted
HInv  == Types /\ (pa.up => Procs /\ Books)

\* A process that a step leaves alone.
LEMMA OtherProc ==
  ASSUME NEW p \in Pids, ProcOK(p), proc'[p] = proc[p], pa'.helper = pa.helper
  PROVE  ProcOK(p)'
BY DEF ProcOK

\* A step that leaves the registered process alone.
LEMMA SameView ==
  ASSUME pa'.helper = pa.helper, pa.helper # NoPid => proc'[pa.helper] = proc[pa.helper]
  PROVE  Of' = Of /\ (Going' <=> Going)
<1>1. CASE pa.helper = NoPid  BY <1>1 DEF Of, Going
<1>2. CASE pa.helper # NoPid
  <2>1. Of' = Of
    <3>1. Attached(pa.helper)' = Attached(pa.helper)  BY <1>2 DEF Attached
    <3>2. QED  BY <1>2, <3>1 DEF Of
  <2>2. Going' <=> Going  BY <1>2 DEF Going, Leaving
  <2>3. QED  BY <2>1, <2>2
<1>3. QED  BY <1>1, <1>2

\* Nothing that the books are about has changed.
LEMMA SameBooks ==
  ASSUME Books, Of' = Of, Going' <=> Going, pa'.helper = pa.helper, pa'.queue = pa.queue,
         pa'.ref = pa.ref, UNCHANGED <<wants, lost, idle, stale>>
  PROVE  Books'
BY DEF Books, Covered, Used, Apart, Counted

\* What the panel and the registered process share, before and after a step.
LEMMA View ==
  /\ pa.helper # NoPid =>
       /\ Of = Held(proc[pa.helper].att, proc[pa.helper].inbox)
       /\ Going <=> proc[pa.helper].st = "dead" \/ Exits(proc[pa.helper].inbox)
  /\ pa.helper = NoPid => Of = {} /\ ~Going
  /\ pa'.helper # NoPid =>
       /\ Of' = Held(proc'[pa'.helper].att, proc'[pa'.helper].inbox)
       /\ Going' <=> proc'[pa'.helper].st = "dead" \/ Exits(proc'[pa'.helper].inbox)
  /\ pa'.helper = NoPid => Of' = {} /\ ~Going'
<1>1. pa.helper = NoPid => Of = {} /\ ~Going  BY DEF Of, Going
<1>2. pa'.helper = NoPid => Of' = {} /\ ~Going'  BY DEF Of, Going
<1>3. pa.helper # NoPid => Of = Attached(pa.helper)  BY DEF Of
<1>4. pa'.helper # NoPid => Of' = Attached(pa.helper)'  BY DEF Of
<1>5. Attached(pa.helper) = Held(proc[pa.helper].att, proc[pa.helper].inbox)
  BY DEF Attached, Held, Has, Gains, Drops
<1>6. Attached(pa.helper)' = Held(proc'[pa'.helper].att, proc'[pa'.helper].inbox)
  BY DEF Attached, Held, Has, Gains, Drops
<1>7. (pa.helper # NoPid) => (Going <=> proc[pa.helper].st = "dead" \/ Exits(proc[pa.helper].inbox))
  BY DEF Going, Leaving, Exits
<1>8. (pa'.helper # NoPid) =>
        (Going' <=> proc'[pa'.helper].st = "dead" \/ Exits(proc'[pa'.helper].inbox))
  BY DEF Going, Leaving, Exits
<1>9. QED  BY <1>1, <1>2, <1>3, <1>4, <1>5, <1>6, <1>7, <1>8

\* A process with nothing to read; one more message; one message read.
LEMMA HeldEmpty ==
  ASSUME NEW att \in SUBSET Ics
  PROVE  Held(att, <<>>) = att /\ ~Exits(<<>>)
<1>1. Held(att, <<>>) = {c \in Ics : c \in att}  BY HasEmpty DEF Held
<1>2. 1..Len(<<>>) = {}  OBVIOUS
<1>3. QED  BY <1>1, <1>2 DEF Exits

LEMMA HeldAppend ==
  ASSUME NEW att \in SUBSET Ics, NEW box \in Seq(Messages), NEW m \in Messages
  PROVE  /\ m.m \in {"OK", "ATTACH"} => Held(att, Append(box, m)) = Held(att, box) \cup m.ics
         /\ m.m \in {"DETACH", "DETACH_EXIT"} => Held(att, Append(box, m)) = Held(att, box) \ m.ics
         /\ Exits(Append(box, m)) <=> Exits(box) \/ m.m = "DETACH_EXIT"
<1>1. \A c \in Ics : Has(c, att, Append(box, m)) <=>
                     \/ m.m \in {"OK", "ATTACH"} /\ c \in m.ics
                     \/ Has(c, att, box) /\ ~Drops(c, m)
  BY HasAppend
<1>2. m.ics \subseteq Ics  BY DEF Messages
<1>3. m.m \in {"OK", "ATTACH"} => Held(att, Append(box, m)) = Held(att, box) \cup m.ics
  BY <1>1, <1>2 DEF Held, Drops
<1>4. m.m \in {"DETACH", "DETACH_EXIT"} => Held(att, Append(box, m)) = Held(att, box) \ m.ics
  BY <1>1, <1>2 DEF Held, Drops
<1>5. Exits(Append(box, m)) <=> Exits(box) \/ m.m = "DETACH_EXIT"
  <2> DEFINE n == Len(box)  bx == Append(box, m)
  <2>1. n \in Nat /\ Len(bx) = n + 1 /\ bx[n + 1] = m /\ (\A k \in 1..n : bx[k] = box[k])
    OBVIOUS
  <2>2. 1..(n + 1) = 1..n \cup {n + 1}  BY <2>1
  <2> HIDE DEF bx, n
  <2>3. QED  BY <2>1, <2>2 DEF Exits, bx, n
<1>6. QED  BY <1>3, <1>4, <1>5

LEMMA HeldTail ==
  ASSUME NEW att \in SUBSET Ics, NEW box \in Seq(Messages), box # <<>>
  PROVE  /\ Held(Attach(att, Head(box)), Tail(box)) = Held(att, box)
         /\ Head(box).m # "DETACH_EXIT" => (Exits(Tail(box)) <=> Exits(box))
         /\ Head(box).m = "DETACH_EXIT" => Exits(box)
<1>1. Held(Attach(att, Head(box)), Tail(box)) = Held(att, box)  BY HasTail DEF Held
<1> DEFINE n == Len(box)  t == Tail(box)
<1>2. /\ n \in Nat /\ n >= 1 /\ Len(t) = n - 1 /\ Head(box) = box[1]
      /\ \A k \in 1..(n - 1) : t[k] = box[k + 1]
  OBVIOUS
<1>3. Head(box).m = "DETACH_EXIT" => Exits(box)
  BY <1>2 DEF Exits
<1> HIDE DEF t
<1>4. ASSUME Exits(t)  PROVE Exits(box)
  <2>1. PICK k \in 1..(n - 1) : t[k].m = "DETACH_EXIT"  BY <1>2, <1>4 DEF Exits
  <2>2. k + 1 \in 1..n /\ box[k + 1].m = "DETACH_EXIT"  BY <1>2, <2>1
  <2>3. QED  BY <2>2 DEF Exits
<1>5. ASSUME Exits(box), box[1].m # "DETACH_EXIT"  PROVE Exits(t)
  <2>1. PICK k \in 1..n : box[k].m = "DETACH_EXIT"  BY <1>5 DEF Exits
  <2>2. k - 1 \in 1..(n - 1) /\ (k - 1) + 1 = k  BY <1>2, <1>5, <2>1
  <2>3. t[k - 1].m = "DETACH_EXIT"  BY <1>2, <2>1, <2>2
  <2>4. QED  BY <1>2, <2>2, <2>3 DEF Exits
<1>6. QED  BY <1>1, <1>2, <1>3, <1>4, <1>5 DEF t

-----------------------------------------------------------------------------
(* The steps of the front ends.                                            *)

\* How many contexts use the helper when one more does, or one less.
LEMMA CountContexts ==
  ASSUME Types, NEW c \in Ics
  PROVE  /\ Cardinality(wants \ lost) \in Nat
         /\ c \notin wants => Cardinality((wants \cup {c}) \ lost) = Cardinality(wants \ lost) + 1
         /\ c \in wants \ lost =>
              Cardinality((wants \ {c}) \ (lost \ {c})) = Cardinality(wants \ lost) - 1
         /\ c \in lost => (wants \ {c}) \ (lost \ {c}) = wants \ lost
<1>1. IsFiniteSet(wants \ lost)  BY HelperAssumption, FS_Subset DEF Types
<1>2. Cardinality(wants \ lost) \in Nat  BY <1>1, FS_CardinalityType
<1>3. ASSUME c \notin wants
      PROVE  Cardinality((wants \cup {c}) \ lost) = Cardinality(wants \ lost) + 1
  <2>1. (wants \cup {c}) \ lost = (wants \ lost) \cup {c}  BY <1>3 DEF Types
  <2>2. QED  BY <1>1, <1>3, <2>1, FS_AddElement
<1>4. ASSUME c \in wants \ lost
      PROVE  Cardinality((wants \ {c}) \ (lost \ {c})) = Cardinality(wants \ lost) - 1
  <2>1. (wants \ {c}) \ (lost \ {c}) = (wants \ lost) \ {c}  BY <1>4
  <2>2. QED  BY <1>1, <1>4, <2>1, FS_RemoveElement
<1>5. c \in lost => (wants \ {c}) \ (lost \ {c}) = wants \ lost  BY DEF Types
<1>6. QED  BY <1>2, <1>3, <1>4, <1>5

\* What the panel writes to the registered process leaves it as it should be.
LEMMA WriteProcs ==
  ASSUME Types, Procs, pa.helper # NoPid, pa'.helper = pa.helper,
         NEW m \in {"ATTACH", "DETACH", "DETACH_EXIT"},
         NEW ics \in SUBSET Ics, Write(pa.helper, m, ics)
  PROVE  Procs'
<1> DEFINE h == pa.helper
<1>1. h \in Pids  BY DEF Types
<1>2. /\ \A x \in Pids : x # h => proc'[x] = proc[x]
      /\ proc'[h].st = proc[h].st /\ proc'[h].reg = proc[h].reg /\ proc'[h].att = proc[h].att
      /\ proc[h].st = "dead" => proc'[h] = proc[h]
      /\ proc[h].st # "dead" => proc'[h].inbox = Append(proc[h].inbox, Msg(m, ics))
  <2>1. m \in {"OK", "FAIL", "ATTACH", "DETACH", "DETACH_EXIT"} /\ Write(h, m, ics)  OBVIOUS
  <2> HIDE DEF h
  <2>2. QED  BY <1>1, <2>1, WriteProc
<1>3. ProcOK(h)  BY <1>1 DEF Procs
<1>4. ASSUME NEW x \in Pids  PROVE ProcOK(x)'
  <2>1. CASE x # h \/ proc[h].st = "dead"
    <3>1. proc'[x] = proc[x] /\ ProcOK(x)  BY <1>2, <2>1 DEF Procs
    <3>2. QED  BY <3>1, OtherProc
  <2>2. CASE x = h /\ proc[h].st # "dead"
    <3> DEFINE box == proc[h].inbox  bx == proc'[h].inbox
    <3>1. box \in Seq(Messages) /\ bx = Append(box, Msg(m, ics)) /\ Msg(m, ics).m = m
      BY <1>1, <1>2, <2>2 DEF Types, Msg
    <3>2. \A k \in 1..Len(bx) : bx[k].m # "FAIL"
      <4>1. \A k \in 1..Len(box) : box[k].m # "FAIL"  BY <1>3 DEF ProcOK
      <4>2. Len(box) \in Nat /\ Len(bx) = Len(box) + 1 /\ bx[Len(box) + 1] = Msg(m, ics)
            /\ \A k \in 1..Len(box) : bx[k] = box[k]
        BY <3>1
      <4>3. 1..Len(bx) = 1..Len(box) \cup {Len(box) + 1}  BY <4>2
      <4>4. QED  BY <3>1, <4>1, <4>2, <4>3
    <3>3. ~proc[h].reg /\ proc[h].st \in {"asked", "running"}  BY <1>3, <2>2 DEF ProcOK
    <3>4. proc[h].st = "asked" => proc[h].att = {}  BY <1>3 DEF ProcOK
    <3> HIDE DEF box, bx
    <3>5. QED  BY <1>2, <2>2, <3>2, <3>3, <3>4 DEF ProcOK, bx
  <2>3. QED  BY <2>1, <2>2
<1>5. QED  BY <1>4 DEF Procs

LEMMA StartStep ==
  ASSUME HInv, NEW c \in Ics, socket_start_helper(c)
  PROVE  HInv'
<1>1. /\ Types /\ Procs /\ Covered /\ Used /\ Apart /\ Counted
      /\ pa.up /\ c \notin wants /\ wants' = wants \cup {c} /\ UNCHANGED <<idle, stale>>
  BY DEF HInv, Books, socket_start_helper
<1>2. pa \in Agent /\ proc \in [Pids -> Proc]  BY <1>1 DEF Types, Agent, Proc
<1>3. CASE pa.helper = NoPid
  <2> DEFINE q == [pa EXCEPT !.queue = @ \cup {c}]
  <2>1. run_helper(q) /\ UNCHANGED <<proc, lost>>  BY <1>3 DEF socket_start_helper
  <2>2. q \in Agent /\ q.helper = NoPid /\ q.queue = pa.queue \cup {c}  BY <1>2, <1>3 DEF Agent
  <2> HIDE DEF q
  <2>3. /\ pa' \in Agent /\ pa'.helper = NoPid /\ pa'.queue = pa.queue \cup {c}
        /\ mgr' \in [up : BOOLEAN, req : Nat, failed : BOOLEAN] /\ faults' \in Nat
    BY <1>1, <2>1, <2>2, RunHelper
  <2>4. Types'  BY <1>1, <2>1, <2>3 DEF Types, Agent
  <2>5. Procs'
    <3>1. \A x \in Pids : ProcOK(x) /\ proc'[x] = proc[x]  BY <1>1, <2>1 DEF Procs
    <3>2. QED  BY <1>3, <2>3, <3>1, OtherProc DEF Procs
  <2>6. Of = {} /\ Of' = {} /\ ~Going /\ ~Going'  BY <1>3, <2>3, View
  <2>7. Books'
    BY <1>1, <1>3, <2>1, <2>3, <2>6 DEF Books, Covered, Used, Apart, Counted, Types
  <2>8. QED  BY <2>4, <2>5, <2>7 DEF HInv
<1>4. CASE pa.helper # NoPid
  <2> DEFINE h == pa.helper
  <2>1. /\ pa' = [pa EXCEPT !.ref = @ + 1] /\ Write(h, "ATTACH", {c})
        /\ lost' = (IF proc[h].st = "dead" THEN lost \cup {c} ELSE lost)
        /\ UNCHANGED <<mgr, faults>>
    BY <1>4 DEF socket_start_helper
  <2>2. h \in Pids  BY <1>2, <1>4 DEF Agent
  <2>3. /\ pa' \in Agent /\ pa'.helper = h /\ pa'.queue = pa.queue /\ pa'.ref = pa.ref + 1
        /\ pa.ref \in Int
    BY <1>2, <2>1 DEF Agent
  <2>4. /\ proc' \in [Pids -> Proc] /\ proc'[h].st = proc[h].st /\ proc'[h].att = proc[h].att
        /\ proc[h].st = "dead" => proc'[h] = proc[h]
        /\ proc[h].st # "dead" => proc'[h].inbox = Append(proc[h].inbox, Msg("ATTACH", {c}))
    BY <1>1, <2>1, <2>2, WriteProc
  <2>5. Types'  BY <1>1, <2>1, <2>3, <2>4 DEF Types, Agent, Proc
  <2>6. Procs'  BY <1>1, <1>4, <2>1, <2>3, WriteProcs
  <2>7. CASE proc[h].st = "dead"
    <3>1. Of' = Of /\ Going' /\ Going  BY <1>4, <2>3, <2>4, <2>7, View
    <3>2. Of = {}
      <4>1. proc[h].att = {} /\ proc[h].inbox = <<>>  BY <1>1, <2>2, <2>7 DEF Procs, ProcOK
      <4>2. QED  BY <1>4, <4>1, HeldEmpty, View
    <3>3. Books'
      BY <1>1, <1>4, <2>1, <2>3, <2>7, <3>1, <3>2 DEF Books, Covered, Used, Apart, Counted, Types
    <3>4. QED  BY <2>5, <2>6, <3>3 DEF HInv
  <2>8. CASE proc[h].st # "dead"
    <3>1. /\ proc[h].att \in SUBSET Ics /\ proc[h].inbox \in Seq(Messages)
          /\ Msg("ATTACH", {c}) \in Messages
          /\ Msg("ATTACH", {c}).m = "ATTACH" /\ Msg("ATTACH", {c}).ics = {c}
      BY <1>2, <2>2 DEF Proc, Msg, Messages
    <3>2. /\ Held(proc'[h].att, proc'[h].inbox) = Held(proc[h].att, proc[h].inbox) \cup {c}
          /\ Exits(proc'[h].inbox) <=> Exits(proc[h].inbox)
      <4> DEFINE g == Msg("ATTACH", {c})
      <4>1. g \in Messages /\ g.m = "ATTACH" /\ g.ics = {c}  BY <3>1
      <4> HIDE DEF g
      <4>2. /\ Held(proc[h].att, Append(proc[h].inbox, g)) = Held(proc[h].att, proc[h].inbox) \cup {c}
            /\ Exits(Append(proc[h].inbox, g)) <=> Exits(proc[h].inbox)
        BY <2>2, <3>1, <4>1, HeldAppend
      <4>3. proc'[h].inbox = Append(proc[h].inbox, g) /\ proc'[h].att = proc[h].att
        BY <2>4, <2>8 DEF g
      <4>4. QED  BY <4>2, <4>3
    <3>3. Of' = Of \cup {c} /\ (Going' <=> Going)  BY <1>4, <2>3, <2>4, <3>2, View
    <3>4. Cardinality(wants' \ lost') = Cardinality(wants \ lost) + 1
          /\ Cardinality(wants \ lost) \in Nat
      BY <1>1, <2>1, <2>8, CountContexts
    <3>5. Covered' /\ Used' /\ Apart'
      BY <1>1, <1>4, <2>1, <2>3, <2>8, <3>3 DEF Covered, Used, Apart, Types
    <3>6. Counted'  BY <1>1, <1>4, <2>3, <3>3, <3>4 DEF Counted
    <3>7. QED  BY <2>5, <2>6, <3>5, <3>6 DEF HInv, Books
  <2>9. QED  BY <2>7, <2>8
<1>5. QED  BY <1>3, <1>4

LEMMA StopStep ==
  ASSUME HInv, NEW c \in Ics, socket_stop_helper(c)
  PROVE  HInv'
<1>1. /\ Types /\ Procs /\ Covered /\ Used /\ Apart /\ Counted
      /\ pa.up /\ c \in wants /\ wants' = wants \ {c} /\ lost' = lost \ {c}
      /\ UNCHANGED <<idle, mgr, faults>>
  BY DEF HInv, Books, socket_stop_helper
<1>2. pa \in Agent /\ proc \in [Pids -> Proc]  BY <1>1 DEF Types, Agent, Proc
<1>3. CASE pa.helper = NoPid
  <2>1. stale' = stale \cup (pa.queue \cap {c}) /\ UNCHANGED <<pa, proc>>
    BY <1>3 DEF socket_stop_helper
  <2>2. Types'  BY <1>1, <2>1 DEF Types
  <2>3. Procs'
    <3>1. \A x \in Pids : ProcOK(x) /\ proc'[x] = proc[x]  BY <1>1, <2>1 DEF Procs
    <3>2. QED  BY <2>1, <3>1, OtherProc DEF Procs
  <2>4. Of = {} /\ Of' = {} /\ ~Going /\ ~Going'  BY <1>3, <2>1, View
  <2>5. Books'
    BY <1>1, <1>3, <2>1, <2>4 DEF Books, Covered, Used, Apart, Counted, Types
  <2>6. QED  BY <2>2, <2>3, <2>5 DEF HInv
<1>4. CASE pa.helper # NoPid
  <2> DEFINE h == pa.helper
             m == IF pa.ref <= 1 THEN "DETACH_EXIT" ELSE "DETACH"
  <2>1. /\ pa' = [pa EXCEPT !.ref = @ - 1] /\ Write(h, m, {c}) /\ UNCHANGED stale
    BY <1>4 DEF socket_stop_helper
  <2>2. h \in Pids /\ m \in {"DETACH", "DETACH_EXIT"}  BY <1>2, <1>4 DEF Agent
  <2>3. /\ pa' \in Agent /\ pa'.helper = h /\ pa'.queue = pa.queue /\ pa'.ref = pa.ref - 1
        /\ pa.ref \in Int /\ (pa.ref <= 1 <=> m = "DETACH_EXIT")
    BY <1>2, <2>1 DEF Agent
  <2> HIDE DEF m
  <2>4. /\ proc' \in [Pids -> Proc] /\ proc'[h].st = proc[h].st /\ proc'[h].att = proc[h].att
        /\ proc[h].st = "dead" => proc'[h] = proc[h]
        /\ proc[h].st # "dead" => proc'[h].inbox = Append(proc[h].inbox, Msg(m, {c}))
    <3>1. /\ m \in {"OK", "FAIL", "ATTACH", "DETACH", "DETACH_EXIT"} /\ {c} \in SUBSET Ics
          /\ Write(h, m, {c})
      BY <2>1, <2>2
    <3> HIDE DEF h
    <3>2. QED  BY <1>1, <2>2, <3>1, WriteProc
  <2>5. Types'  BY <1>1, <2>1, <2>3, <2>4 DEF Types, Agent, Proc
  <2>6. Procs'  BY <1>1, <1>4, <2>1, <2>2, <2>3, WriteProcs
  <2>7. CASE proc[h].st = "dead"
    <3>1. Of' = Of /\ Going' /\ Going  BY <1>4, <2>3, <2>4, <2>7, View
    <3>2. Of = {}
      <4>1. proc[h].att = {} /\ proc[h].inbox = <<>>  BY <1>1, <2>2, <2>7 DEF Procs, ProcOK
      <4>2. QED  BY <1>4, <4>1, HeldEmpty, View
    <3>3. Books'
      BY <1>1, <1>4, <2>1, <2>3, <2>7, <3>1, <3>2 DEF Books, Covered, Used, Apart, Counted, Types
    <3>4. QED  BY <2>5, <2>6, <3>3 DEF HInv
  <2>8. CASE proc[h].st # "dead"
    <3>1. /\ proc[h].att \in SUBSET Ics /\ proc[h].inbox \in Seq(Messages)
          /\ Msg(m, {c}) \in Messages
          /\ Msg(m, {c}).m = m /\ Msg(m, {c}).ics = {c}
      BY <1>2, <2>2 DEF Proc, Msg, Messages
    <3>2. /\ Held(proc'[h].att, proc'[h].inbox) = Held(proc[h].att, proc[h].inbox) \ {c}
          /\ Exits(proc'[h].inbox) <=> Exits(proc[h].inbox) \/ m = "DETACH_EXIT"
      <4> DEFINE g == Msg(m, {c})
      <4>1. g \in Messages /\ g.m = m /\ g.ics = {c}  BY <3>1
      <4> HIDE DEF g
      <4>2. /\ Held(proc[h].att, Append(proc[h].inbox, g)) = Held(proc[h].att, proc[h].inbox) \ {c}
            /\ Exits(Append(proc[h].inbox, g)) <=> Exits(proc[h].inbox) \/ m = "DETACH_EXIT"
        <5>1. /\ g.m \in {"DETACH", "DETACH_EXIT"} =>
                   Held(proc[h].att, Append(proc[h].inbox, g)) = Held(proc[h].att, proc[h].inbox) \ g.ics
              /\ Exits(Append(proc[h].inbox, g)) <=> Exits(proc[h].inbox) \/ g.m = "DETACH_EXIT"
          BY <3>1, <4>1, HeldAppend
        <5>2. QED  BY <2>2, <4>1, <5>1
      <4>3. proc'[h].inbox = Append(proc[h].inbox, g) /\ proc'[h].att = proc[h].att
        BY <2>4, <2>8 DEF g
      <4>4. QED  BY <4>2, <4>3
    <3>3. Of' = Of \ {c} /\ (Going' <=> Going \/ m = "DETACH_EXIT")
      BY <1>4, <2>3, <2>4, <3>2, View
    <3>4. /\ Cardinality(wants \ lost) \in Nat
          /\ c \notin lost => Cardinality(wants' \ lost') = Cardinality(wants \ lost) - 1
          /\ c \in lost => wants' \ lost' = wants \ lost
      BY <1>1, CountContexts
    <3>5. Covered' /\ Used' /\ Apart'
      BY <1>1, <1>4, <2>1, <2>3, <2>8, <3>3 DEF Covered, Used, Apart, Types
    <3>6. Counted'  BY <1>1, <1>4, <2>1, <2>3, <3>3, <3>4 DEF Counted
    <3>7. QED  BY <2>5, <2>6, <3>5, <3>6 DEF HInv, Books
  <2>9. QED  BY <2>7, <2>8
<1>5. QED  BY <1>3, <1>4

LEMMA ContextGoneStep ==
  ASSUME HInv, NEW c \in Ics, ContextGone(c)
  PROVE  HInv'
<1>1. /\ Types /\ c \in wants /\ wants' = wants \ {c} /\ lost' = lost \ {c}
      /\ stale' = (IF c \in lost THEN stale ELSE stale \cup {c})
      /\ faults' = faults + 1 /\ UNCHANGED <<idle, pa, mgr, proc>>
  BY DEF HInv, ContextGone, Fault
<1>2. Types'  BY <1>1 DEF Types
<1>3. ASSUME pa'.up  PROVE Procs' /\ Books'
  <2>1. Procs /\ Covered /\ Used /\ Apart /\ Counted  BY <1>1, <1>3 DEF HInv, Books
  <2>2. Procs'
    <3>1. \A x \in Pids : ProcOK(x) /\ proc'[x] = proc[x]  BY <1>1, <2>1 DEF Procs
    <3>2. QED  BY <1>1, <3>1, OtherProc DEF Procs
  <2>3. Of' = Of /\ (Going' <=> Going)  BY <1>1, SameView
  <2>4. c \in lost => wants' \ lost' = wants \ lost  BY <1>1, CountContexts
  <2>5. Covered' /\ Used' /\ Apart'  BY <1>1, <2>1, <2>3 DEF Covered, Used, Apart, Types
  <2>6. Counted'
    <3>1. CASE c \in lost  BY <1>1, <2>1, <2>3, <2>4, <3>1 DEF Counted
    <3>2. CASE c \notin lost  BY <1>1, <2>1, <2>3, <3>2 DEF Counted
    <3>3. QED  BY <3>1, <3>2
  <2>7. QED  BY <2>2, <2>5, <2>6 DEF Books
<1>4. QED  BY <1>2, <1>3 DEF HInv

-----------------------------------------------------------------------------
(* The steps of the manager and of the processes.                          *)

\* A step of a process that is not registered.
LEMMA Elsewhere ==
  ASSUME HInv, pa.up, Types', NEW p \in Pids, p # pa.helper,
         pa'.helper = pa.helper, pa'.queue = pa.queue, pa'.ref = pa.ref,
         UNCHANGED <<wants, lost, idle, stale>>,
         \A x \in Pids : x # p => proc'[x] = proc[x], ProcOK(p)'
  PROVE  HInv'
<1>1. Types /\ Procs /\ Books  BY DEF HInv
<1>2. pa.helper # NoPid => pa.helper \in Pids  BY <1>1 DEF Types
<1>3. Of' = Of /\ (Going' <=> Going)  BY <1>2, SameView
<1>4. Books'  BY <1>1, <1>3, SameBooks
<1>5. Procs'
  <2>1. ASSUME NEW x \in Pids  PROVE ProcOK(x)'
    <3>1. CASE x = p  BY <3>1
    <3>2. CASE x # p
      <4>1. ProcOK(x) /\ proc'[x] = proc[x]  BY <1>1, <3>2 DEF Procs
      <4>2. QED  BY <4>1, OtherProc
    <3>3. QED  BY <3>1, <3>2
  <2>2. QED  BY <2>1 DEF Procs
<1>6. QED  BY <1>4, <1>5 DEF HInv

\* The panel has exited: nothing is left but the types.
LEMMA Exited ==
  ASSUME Types', ~pa'.up
  PROVE  HInv'
BY DEF HInv

\* A step that the panel, the contexts and the processes take no part in.
LEMMA Unmoved ==
  ASSUME HInv, Types', UNCHANGED <<idle, pa, proc, wants, lost, stale>>
  PROVE  HInv'
<1>1. CASE ~pa.up  BY <1>1, Exited
<1>2. CASE pa.up
  <2>1. Procs /\ Books  BY <1>2 DEF HInv
  <2>2. Of' = Of /\ (Going' <=> Going)  BY SameView
  <2>3. Books'  BY <2>1, <2>2, SameBooks
  <2>4. \A x \in Pids : ProcOK(x) /\ proc'[x] = proc[x]  BY <2>1 DEF Procs
  <2>5. Procs'  BY <2>4, OtherProc DEF Procs
  <2>6. QED  BY <2>3, <2>5 DEF HInv
<1>3. QED  BY <1>1, <1>2

\* A process that is not there, or has been forked.
LEMMA FreshProc ==
  ASSUME NEW p \in Pids, proc'[p].st \in {"none", "launched"}, proc'[p].reg = FALSE,
         proc'[p].att = {}, proc'[p].inbox = <<>>, p # pa'.helper
  PROVE  ProcOK(p)'
BY DEF ProcOK

LEMMA ManagerForksStep ==
  ASSUME HInv, ManagerForks
  PROVE  HInv'
<1>1. /\ Types /\ mgr.req > 0 /\ mgr \in [up : BOOLEAN, req : Nat, failed : BOOLEAN]
      /\ UNCHANGED <<idle, pa, wants, lost, stale>>
  BY DEF HInv, Types, ManagerForks
<1>2. CASE \E p \in Pids : /\ proc[p] = NoProc
                           /\ proc' = [proc EXCEPT ![p].st = "launched"]
                           /\ mgr' = [mgr EXCEPT !.req = @ - 1]
                           /\ UNCHANGED faults
  <2>1. PICK p \in Pids : /\ proc[p] = NoProc
                          /\ proc' = [proc EXCEPT ![p].st = "launched"]
                          /\ mgr' = [mgr EXCEPT !.req = @ - 1]
                          /\ UNCHANGED faults
    BY <1>2
  <2> DEFINE r == [NoProc EXCEPT !.st = "launched"]
  <2>2. r \in Proc /\ r.st = "launched" /\ r.reg = FALSE /\ r.att = {} /\ r.inbox = <<>>
    <3>1. NoProc \in Proc /\ "launched" \in States  BY NoProcType DEF States
    <3>2. r \in Proc /\ r.st = "launched"  BY <3>1 DEF Proc
    <3>3. r.reg = NoProc.reg /\ r.att = NoProc.att /\ r.inbox = NoProc.inbox  BY <3>1 DEF Proc
    <3>4. QED  BY <3>2, <3>3, NoProcType
  <2>3. proc' = [proc EXCEPT ![p] = r]
    <3>1. proc \in [Pids -> Proc]  BY <1>1 DEF Types, Proc
    <3>2. QED  BY <2>1, <3>1
  <2> HIDE DEF r
  <2>4. proc' \in [Pids -> Proc] /\ proc'[p] = r /\ \A x \in Pids : x # p => proc'[x] = proc[x]
    BY <1>1, <2>2, <2>3, SetProc
  <2>5. mgr' \in [up : BOOLEAN, req : Nat, failed : BOOLEAN]  BY <1>1, <2>1
  <2>6. Types'  BY <1>1, <2>1, <2>4, <2>5 DEF Types, Proc
  <2>7. CASE pa.up
    <3>1. p # pa.helper
      <4>1. ProcOK(p)  BY <2>7 DEF HInv, Procs
      <4>2. proc[p].st = "none"  BY <2>1 DEF NoProc
      <4>3. QED  BY <4>1, <4>2 DEF ProcOK
    <3>2. ProcOK(p)'  BY <1>1, <2>2, <2>4, <3>1, FreshProc
    <3>3. QED  BY <1>1, <2>4, <2>6, <2>7, <3>1, <3>2, Elsewhere
  <2>8. CASE ~pa.up  BY <1>1, <2>6, <2>8, Exited
  <2>9. QED  BY <2>7, <2>8
<1>3. CASE mgr' = [mgr EXCEPT !.req = @ - 1, !.failed = TRUE] /\ UNCHANGED proc /\ Fault
  <2>1. mgr' \in [up : BOOLEAN, req : Nat, failed : BOOLEAN]
    <3>1. mgr.req - 1 \in Nat  BY <1>1
    <3>2. mgr' = [mgr EXCEPT !.req = mgr.req - 1, !.failed = TRUE]  BY <1>3
    <3>3. mgr' = [up |-> mgr.up, req |-> mgr.req - 1, failed |-> TRUE]  BY <1>1, <3>2
    <3>4. QED  BY <1>1, <3>1, <3>3
  <2>2. Types'  BY <1>1, <1>3, <2>1 DEF Types, Fault
  <2>3. QED  BY <1>1, <1>3, <2>2, Unmoved
<1>4. QED  BY <1>2, <1>3 DEF ManagerForks

LEMMA ManagerDiesStep ==
  ASSUME HInv, ManagerDies
  PROVE  HInv'
<1>1. /\ Types /\ mgr' = [up |-> FALSE, req |-> 0, failed |-> mgr.failed \/ mgr.req > 0]
      /\ UNCHANGED <<idle, pa, proc, wants, lost, stale>> /\ Fault
  BY DEF HInv, ManagerDies
<1>2. (mgr.failed \/ mgr.req > 0) \in BOOLEAN  OBVIOUS
<1>3. mgr' \in [up : BOOLEAN, req : Nat, failed : BOOLEAN]  BY <1>1, <1>2
<1>4. Types'  BY <1>1, <1>3 DEF Types, Fault
<1>5. QED  BY <1>1, <1>4, Unmoved

\* HelperAgent::open_connection is a step of a process that is not registered.
LEMMA OpenStep ==
  ASSUME HInv, NEW p \in Pids, open_connection(p)
  PROVE  HInv'
<1>1. /\ Types /\ proc[p].st = "launched"
      /\ UNCHANGED <<idle, pa, mgr, wants, lost, stale, faults>>
  BY DEF HInv, open_connection
<1>2. proc \in [Pids -> Proc]  BY <1>1 DEF Types, Proc
<1>3. CASE pa.up
  <2>1. ProcOK(p)  BY <1>3 DEF HInv, Procs
  <2> DEFINE r == [proc[p] EXCEPT !.st = "asked", !.reg = TRUE]
  <2>2. proc' = [proc EXCEPT ![p] = r]  BY <1>2, <1>3 DEF open_connection
  <2>3. proc[p].att = {} /\ proc[p].inbox = <<>> /\ p # pa.helper
    BY <1>1, <2>1 DEF ProcOK, NoProc
  <2>4. r.st = "asked" /\ r.att = {} /\ r.inbox = <<>>  BY <1>2, <2>3 DEF Proc
  <2>5. r.reg = TRUE  BY <1>2 DEF Proc
  <2>6. r \in Proc  BY <1>2 DEF Proc, States
  <2> HIDE DEF r
  <2>7. proc' \in [Pids -> Proc] /\ proc'[p] = r /\ \A x \in Pids : x # p => proc'[x] = proc[x]
    BY <1>1, <2>2, <2>6, SetProc
  <2>8. Types'  BY <1>1, <2>7 DEF Types, Proc
  <2>9. ProcOK(p)'  BY <1>1, <2>3, <2>4, <2>5, <2>7 DEF ProcOK
  <2>10. QED  BY <1>1, <1>3, <2>3, <2>7, <2>8, <2>9, Elsewhere
<1>4. CASE ~pa.up
  <2>1. proc' \in [Pids -> Proc]  BY <1>1, <1>4, EndsProc DEF open_connection
  <2>2. Types'  BY <1>1, <2>1 DEF Types, Proc
  <2>3. QED  BY <1>1, <1>4, <2>2, Exited
<1>5. QED  BY <1>3, <1>4

\* The end of a process, registered or not.
LEMMA EndsStep ==
  ASSUME HInv, NEW p \in Pids, Ends(p), proc[p].st \in {"launched", "asked", "running"},
         UNCHANGED <<idle, pa, wants, lost, stale>>,
         mgr' \in [up : BOOLEAN, req : Nat, failed : BOOLEAN], faults' \in Nat
  PROVE  HInv'
<1>1. Types  BY DEF HInv
<1>2. /\ proc' \in [Pids -> Proc]
      /\ \A x \in Pids : x # p => proc'[x] = proc[x]
      /\ proc[p].st = "launched" => proc'[p] = NoProc
      /\ proc[p].st # "launched" => /\ proc'[p].st = "dead" /\ proc'[p].reg = proc[p].reg
                                    /\ proc'[p].att = {} /\ proc'[p].inbox = <<>>
  BY <1>1, EndsProc
<1>3. Types'  BY <1>1, <1>2 DEF Types, Proc
<1>4. CASE ~pa.up  BY <1>3, <1>4, Exited
<1>5. CASE pa.up
  <2>1. Procs /\ Books /\ ProcOK(p)  BY <1>5 DEF HInv, Procs
  <2>2. ProcOK(p)'
    <3>1. CASE proc[p].st = "launched"
      <4>1. p # pa'.helper  BY <2>1, <3>1 DEF ProcOK
      <4>2. proc'[p] = NoProc  BY <1>2, <3>1
      <4>3. QED  BY <4>1, <4>2, NoProcType, FreshProc
    <3>2. CASE proc[p].st # "launched"
      <4>1. proc[p].reg => p # pa.helper  BY <2>1 DEF ProcOK
      <4>2. Len(proc'[p].inbox) = 0  BY <1>2, <3>2
      <4>3. QED  BY <1>2, <3>2, <4>1, <4>2 DEF ProcOK
    <3>3. QED  BY <3>1, <3>2
  <2>3. CASE p # pa.helper  BY <1>2, <1>3, <1>5, <2>2, <2>3, Elsewhere
  <2>4. CASE p = pa.helper
    <3>1. Procs'
      <4>1. ASSUME NEW x \in Pids, x # p  PROVE ProcOK(x)'
        <5>1. ProcOK(x) /\ proc'[x] = proc[x]  BY <1>2, <2>1, <4>1 DEF Procs
        <5>2. QED  BY <5>1, OtherProc
      <4>2. QED  BY <2>2, <4>1 DEF Procs
    <3>2. pa.helper # NoPid /\ proc[p].st # "launched"
      BY <2>1, <2>4, HelperAssumption DEF ProcOK
    <3>3. Of' = {} /\ Going'  BY <1>2, <2>4, <3>2, HeldEmpty, View
    <3>4. Books'  BY <2>1, <3>2, <3>3 DEF Books, Covered, Used, Apart, Counted
    <3>5. QED  BY <1>3, <3>1, <3>4 DEF HInv
  <2>5. QED  BY <2>3, <2>4
<1>6. QED  BY <1>4, <1>5

LEMMA HelperDiesStep ==
  ASSUME HInv, NEW p \in Pids, HelperDies(p)
  PROVE  HInv'
<1>1. /\ Types /\ Ends(p) /\ proc[p].st \in {"launched", "asked", "running"}
      /\ UNCHANGED <<idle, pa, wants, lost, stale>>
      /\ mgr' = [mgr EXCEPT !.failed = @ \/ proc[p].st = "launched"] /\ Fault
  BY DEF HInv, HelperDies, Alive
<1>2. (mgr.failed \/ proc[p].st = "launched") \in BOOLEAN  OBVIOUS
<1>3. mgr' \in [up : BOOLEAN, req : Nat, failed : BOOLEAN]  BY <1>1, <1>2 DEF Types
<1>4. faults' \in Nat  BY <1>1 DEF Types, Fault
<1>5. QED  BY <1>1, <1>3, <1>4, EndsStep

LEMMA PanelGoneStep ==
  ASSUME HInv, NEW p \in Pids, PanelGone(p)
  PROVE  HInv'
<1>1. /\ Types /\ ~pa.up /\ proc' = [proc EXCEPT ![p] = NoProc]
      /\ UNCHANGED <<idle, pa, mgr, wants, lost, stale, faults>>
  BY DEF HInv, PanelGone
<1>2. NoProc \in Proc  BY DEF NoProc, Proc, States
<1>3. proc' \in [Pids -> Proc]  BY <1>1, <1>2, SetProc
<1>4. Types'  BY <1>1, <1>3 DEF Types, Proc
<1>5. QED  BY <1>1, <1>4, Exited

\* Reading changes what the registered process has attached, and not what it will
\* have.
LEMMA FilterStep ==
  ASSUME HInv, NEW p \in Pids, filter_event(p)
  PROVE  HInv'
<1> DEFINE box == proc[p].inbox  m == Head(box)
<1>1. /\ Types /\ proc[p].st \in {"asked", "running"} /\ box # <<>>
      /\ UNCHANGED <<idle, pa, mgr, wants, lost, stale, faults>>
  BY DEF HInv, filter_event
<1>2. proc \in [Pids -> Proc]  BY <1>1 DEF Types, Proc
<1>3. box \in Seq(Messages) /\ proc[p].att \in SUBSET Ics  BY <1>2 DEF Proc
<1>4. m \in Messages /\ m = box[1] /\ Tail(box) \in Seq(Messages)  BY <1>1, <1>3
<1>5. CASE m.m \in {"FAIL", "DETACH_EXIT"}
  <2>1. Ends(p)  BY <1>5 DEF filter_event
  <2>2. mgr' \in [up : BOOLEAN, req : Nat, failed : BOOLEAN] /\ faults' \in Nat  BY <1>1 DEF Types
  <2>3. QED  BY <1>1, <2>1, <2>2, EndsStep
<1>6. CASE m.m \notin {"FAIL", "DETACH_EXIT"}
  <2> DEFINE r == [proc[p] EXCEPT !.st = "running", !.inbox = Tail(box), !.att = Attach(proc[p].att, m)]
  <2>1. proc' = [proc EXCEPT ![p] = r]  BY <1>2, <1>6 DEF filter_event
  <2>2. Attach(proc[p].att, m) \in SUBSET Ics  BY <1>3, <1>4 DEF Attach, Messages
  <2>3. r.st = "running" /\ r.inbox = Tail(box) /\ r.att = Attach(proc[p].att, m)
    BY <1>2 DEF Proc
  <2>4. r.reg = proc[p].reg  BY <1>2 DEF Proc
  <2>5. r \in Proc
    <3>1. proc[p] \in Proc /\ "running" \in States  BY <1>2 DEF States
    <3>2. r = [proc[p] EXCEPT !.st = "running", !.inbox = Tail(box), !.att = Attach(proc[p].att, m)]
      BY <1>2 DEF Proc
    <3>3. QED  BY <1>4, <2>2, <3>1, <3>2 DEF Proc
  <2> HIDE DEF r
  <2>6. proc' \in [Pids -> Proc] /\ proc'[p] = r /\ \A x \in Pids : x # p => proc'[x] = proc[x]
    BY <1>1, <2>1, <2>5, SetProc
  <2>7. Types'  BY <1>1, <2>6 DEF Types, Proc
  <2>8. CASE ~pa.up  BY <1>1, <2>7, <2>8, Exited
  <2>9. CASE pa.up
    <3>1. Procs /\ Books /\ ProcOK(p)  BY <2>9 DEF HInv, Procs
    <3>2. p = pa.helper /\ ~proc[p].reg /\ p # NoPid
      <4>1. ~proc[p].reg  BY <1>1, <3>1 DEF ProcOK
      <4>2. p = pa.helper  BY <1>1, <1>4, <1>6, <3>1, <4>1 DEF ProcOK
      <4>3. QED  BY <4>1, <4>2, HelperAssumption
    <3>3. ProcOK(p)'
      <4>1. \A k \in 1..Len(Tail(box)) : Tail(box)[k].m # "FAIL"
        <5>1. \A k \in 1..Len(box) : box[k].m # "FAIL"  BY <3>1, <3>2 DEF ProcOK
        <5>2. /\ Len(box) \in Nat /\ Len(Tail(box)) = Len(box) - 1
              /\ \A k \in 1..(Len(box) - 1) : Tail(box)[k] = box[k + 1] /\ k + 1 \in 1..Len(box)
          BY <1>1, <1>3
        <5>3. QED  BY <5>1, <5>2
      <4>2. QED  BY <1>1, <2>3, <2>4, <2>6, <3>2, <4>1 DEF ProcOK
    <3>4. Procs'
      <4>1. ASSUME NEW x \in Pids, x # p  PROVE ProcOK(x)'
        <5>1. ProcOK(x) /\ proc'[x] = proc[x]  BY <2>6, <3>1, <4>1 DEF Procs
        <5>2. QED  BY <1>1, <5>1, OtherProc
      <4>2. QED  BY <3>3, <4>1 DEF Procs
    <3>5. /\ Held(proc'[p].att, proc'[p].inbox) = Held(proc[p].att, proc[p].inbox)
          /\ Exits(proc'[p].inbox) <=> Exits(proc[p].inbox)
      <4>1. proc'[p].inbox = Tail(box) /\ proc'[p].att = Attach(proc[p].att, Head(box))
        BY <2>3, <2>6
      <4>2. Head(box).m # "DETACH_EXIT" /\ box # <<>>  BY <1>1, <1>6
      <4>3. /\ Held(Attach(proc[p].att, Head(box)), Tail(box)) = Held(proc[p].att, box)
            /\ Exits(Tail(box)) <=> Exits(box)
        BY <1>3, <4>2, HeldTail
      <4>4. QED  BY <4>1, <4>3
    <3>6. Of' = Of /\ (Going' <=> Going)  BY <1>1, <2>3, <2>6, <3>2, <3>5, View
    <3>7. Books'  BY <1>1, <3>1, <3>6, SameBooks
    <3>8. QED  BY <2>7, <3>4, <3>7 DEF HInv
  <2>10. QED  BY <2>8, <2>9
<1>7. QED  BY <1>5, <1>6

-----------------------------------------------------------------------------
(* The steps of the panel.                                                 *)

LEMMA RegisterStep ==
  ASSUME HInv, NEW p \in Pids, socket_helper_register_helper(p)
  PROVE  HInv'
<1> DEFINE first == pa.helper = NoPid
           g == IF first THEN Msg("OK", pa.queue) ELSE Msg("FAIL", {})
           bx == IF proc[p].st = "dead" THEN proc[p].inbox ELSE Append(proc[p].inbox, g)
           r == [proc[p] EXCEPT !.reg = FALSE, !.inbox = bx]
<1>1. /\ Types /\ Procs /\ Covered /\ Used /\ Apart /\ Counted /\ ProcOK(p)
      /\ pa.up /\ proc[p].reg /\ UNCHANGED <<mgr, wants, stale, faults>>
  BY DEF HInv, Books, Procs, socket_helper_register_helper
<1>2. pa \in Agent /\ proc \in [Pids -> Proc]  BY <1>1 DEF Types, Agent, Proc
<1>3. /\ proc[p].st \in {"asked", "dead"} /\ proc[p].inbox = <<>> /\ proc[p].att = {}
      /\ p # pa.helper /\ p # NoPid
  <2>1. proc[p].st \in States  BY <1>2 DEF Proc
  <2>2. QED  BY <1>1, <2>1, HelperAssumption DEF ProcOK, States
<1>4. g \in Messages  BY <1>2 DEF Agent, Msg, Messages
<1>5. bx \in Seq(Messages)  BY <1>2, <1>4 DEF Proc
<1>6. proc' = [proc EXCEPT ![p] = r]  BY <1>2 DEF socket_helper_register_helper
<1> HIDE DEF bx
<1>7. r.st = proc[p].st /\ r.att = {} /\ r.inbox = bx  BY <1>2, <1>3 DEF Proc
<1>8. r.reg = FALSE  BY <1>2 DEF Proc
<1>9. r \in Proc  BY <1>2, <1>5 DEF Proc
<1> HIDE DEF r
<1>10. proc' \in [Pids -> Proc] /\ proc'[p] = r /\ \A x \in Pids : x # p => proc'[x] = proc[x]
  BY <1>1, <1>6, <1>9, SetProc
<1>11. /\ proc[p].st = "dead" => bx = <<>>
       /\ proc[p].st # "dead" => bx = <<g>> /\ bx # <<>> /\ Len(bx) = 1 /\ bx[1] = g
  BY <1>3, <1>4 DEF bx
<1>12. CASE ~first
  <2>1. pa' = pa /\ UNCHANGED <<idle, lost>>  BY <1>12 DEF socket_helper_register_helper
  <2>2. Types'  BY <1>1, <1>10, <2>1 DEF Types, Proc
  <2>3. g.m = "FAIL"  BY <1>12 DEF Msg
  <2>4. ProcOK(p)'  BY <1>3, <1>7, <1>8, <1>10, <1>11, <2>1, <2>3 DEF ProcOK
  <2>5. QED  BY <1>1, <1>3, <1>10, <2>1, <2>2, <2>4, Elsewhere
<1>13. CASE first
  <2>1. /\ pa' = [pa EXCEPT !.helper = p, !.ref = 1, !.queue = {}]
        /\ idle' = (pa.queue = {})
        /\ lost' = (IF proc[p].st = "dead" THEN lost \cup (pa.queue \cap wants) ELSE lost)
    BY <1>13 DEF socket_helper_register_helper
  <2>2. pa' \in Agent /\ pa'.helper = p /\ pa'.ref = 1 /\ pa'.queue = {}
    <3>1. pa'.helper = p /\ pa'.ref = 1 /\ pa'.queue = {}  BY <1>2, <2>1 DEF Agent
    <3>2. p \in Pids \cup {NoPid} /\ 1 \in Int /\ {} \in SUBSET Ics  OBVIOUS
    <3>3. pa' \in Agent  BY <1>2, <2>1, <3>2 DEF Agent
    <3>4. QED  BY <3>1, <3>3
  <2>3. idle' \in BOOLEAN /\ (idle' <=> pa.queue = {})  BY <2>1
  <2>4. Types'  BY <1>1, <1>10, <2>1, <2>2, <2>3 DEF Types, Agent, Proc
  <2>5. g.m = "OK" /\ g.ics = pa.queue  BY <1>13 DEF Msg
  <2>6. Procs'
    <3>1. ASSUME NEW x \in Pids  PROVE ProcOK(x)'
      <4>1. CASE x = p
        <5>1. \A k \in 1..Len(bx) : bx[k].m # "FAIL"
          <6>1. CASE proc[p].st = "dead"
            <7>1. Len(bx) = 0  BY <1>11, <6>1
            <7>2. QED  BY <7>1
          <6>2. CASE proc[p].st # "dead"  BY <1>11, <2>5, <6>2
          <6>3. QED  BY <6>1, <6>2
        <5>2. QED  BY <1>3, <1>7, <1>8, <1>10, <1>11, <2>2, <4>1, <5>1 DEF ProcOK
      <4>2. CASE x # p
        <5>1. ProcOK(x) /\ proc'[x] = proc[x] /\ x # NoPid
          BY <1>1, <1>10, <4>2, HelperAssumption DEF Procs
        <5>2. QED  BY <1>13, <2>2, <4>2, <5>1 DEF ProcOK
      <4>3. QED  BY <4>1, <4>2
    <3>2. QED  BY <3>1 DEF Procs
  <2>7. Of = {} /\ ~Going  BY <1>13, View
  <2>8. CASE proc[p].st = "dead"
    <3>1. Of' = {} /\ Going'  BY <1>3, <1>7, <1>10, <1>11, <2>2, <2>8, HeldEmpty, View
    <3>2. Books'  BY <1>1, <2>1, <2>2, <2>7, <2>8, <3>1 DEF Books, Covered, Used, Apart, Counted
    <3>3. QED  BY <2>4, <2>6, <3>2 DEF HInv
  <2>9. CASE proc[p].st # "dead"
    <3>1. Of' = pa.queue /\ ~Going'
      <4>1. Held({}, <<>>) = {} /\ ~Exits(<<>>)  BY HeldEmpty
      <4>2. bx = Append(<<>>, g) /\ <<>> \in Seq(Messages)  BY <1>3, <2>9 DEF bx
      <4> HIDE DEF g
      <4>3. Held({}, Append(<<>>, g)) = Held({}, <<>>) \cup g.ics  BY <1>4, <2>5, <4>2, HeldAppend
      <4>4. Exits(Append(<<>>, g)) <=> Exits(<<>>) \/ g.m = "DETACH_EXIT"
        BY <1>4, <4>2, HeldAppend
      <4>5. Held(proc'[p].att, proc'[p].inbox) = pa.queue /\ ~Exits(proc'[p].inbox)
        BY <1>7, <1>10, <2>5, <4>1, <4>2, <4>3, <4>4
      <4>6. QED  BY <1>3, <1>7, <1>10, <2>2, <2>9, <4>5, View
    <3>2. Covered' /\ Used' /\ Apart'
      BY <1>1, <2>1, <2>2, <2>7, <2>9, <3>1 DEF Covered, Used, Apart
    <3>3. Counted'
      <4>1. ASSUME ~idle', stale' = {}  PROVE 1 <= Cardinality(wants' \ lost')
        <5>1. pa.queue # {} /\ stale = {} /\ wants' = wants /\ lost' = lost
          BY <1>1, <2>1, <2>3, <2>9, <4>1
        <5>2. wants \ lost # {}  BY <1>1, <2>7, <5>1 DEF Used, Apart
        <5>3. IsFiniteSet(wants \ lost)  BY <1>1, HelperAssumption, FS_Subset DEF Types
        <5>4. Cardinality(wants \ lost) \in Nat /\ Cardinality(wants \ lost) # 0
          BY <5>2, <5>3, FS_CardinalityType, FS_EmptySet
        <5>5. QED  BY <5>1, <5>4
      <4>2. QED  BY <2>2, <4>1 DEF Counted
    <3>4. QED  BY <2>4, <2>6, <3>2, <3>3 DEF HInv, Books
  <2>10. QED  BY <2>8, <2>9
<1>14. QED  BY <1>12, <1>13

LEMMA CloseStep ==
  ASSUME HInv, NEW p \in Pids, CloseHelper(p)
  PROVE  HInv'
<1>1. /\ Types /\ Procs /\ Covered /\ Used /\ Apart /\ Counted /\ ProcOK(p)
      /\ pa.up /\ proc[p].st = "dead" /\ proc' = [proc EXCEPT ![p] = NoProc]
      /\ UNCHANGED <<idle, wants>>
  BY DEF HInv, Books, Procs, CloseHelper
<1>2. pa \in Agent  BY <1>1 DEF Types, Agent
<1>3. /\ proc' \in [Pids -> Proc] /\ proc'[p] = NoProc
      /\ \A x \in Pids : x # p => proc'[x] = proc[x]
  BY <1>1, NoProcType, SetProc
<1>4. CASE p # pa.helper
  <2>1. UNCHANGED <<pa, mgr, lost, stale, faults>>  BY <1>4 DEF CloseHelper
  <2>2. Types'  BY <1>1, <1>3, <2>1 DEF Types, Proc
  <2>3. ProcOK(p)'  BY <1>3, <1>4, <2>1, NoProcType, FreshProc
  <2>4. QED  BY <1>1, <1>3, <1>4, <2>1, <2>2, <2>3, Elsewhere
<1>5. CASE p = pa.helper
  <2> DEFINE q == [pa EXCEPT !.helper = NoPid, !.ref = 0]
  <2>1. /\ lost' = wants \ pa.queue /\ stale' = stale \cap pa.queue
        /\ run_helper(q) \/ (pa' = q /\ UNCHANGED <<mgr, faults>>)
    BY <1>5 DEF CloseHelper
  <2>2. q \in Agent /\ q.helper = NoPid /\ q.queue = pa.queue
    <3>1. q.helper = NoPid /\ q.queue = pa.queue  BY <1>2 DEF Agent
    <3>2. NoPid \in Pids \cup {NoPid} /\ 0 \in Int  OBVIOUS
    <3>3. q \in Agent  BY <1>2, <3>2 DEF Agent
    <3>4. QED  BY <3>1, <3>3
  <2> HIDE DEF q
  <2>3. /\ pa' \in Agent /\ pa'.helper = NoPid /\ pa'.queue = pa.queue
        /\ mgr' \in [up : BOOLEAN, req : Nat, failed : BOOLEAN] /\ faults' \in Nat
    <3>1. CASE run_helper(q)  BY <1>1, <2>2, <3>1, RunHelper
    <3>2. CASE pa' = q /\ UNCHANGED <<mgr, faults>>  BY <1>1, <2>2, <3>2 DEF Types
    <3>3. QED  BY <2>1, <3>1, <3>2
  <2>4. Types'  BY <1>1, <1>3, <2>1, <2>3 DEF Types, Agent, Proc
  <2>5. Procs'
    <3>1. ASSUME NEW x \in Pids  PROVE ProcOK(x)'
      <4>1. x # pa'.helper  BY <2>3, HelperAssumption
      <4>2. CASE x = p  BY <1>3, <4>1, <4>2, NoProcType, FreshProc
      <4>3. CASE x # p
        <5>1. ProcOK(x) /\ proc'[x] = proc[x]  BY <1>1, <1>3, <4>3 DEF Procs
        <5>2. QED  BY <1>5, <4>1, <4>3, <5>1 DEF ProcOK
      <4>4. QED  BY <4>2, <4>3
    <3>2. QED  BY <3>1 DEF Procs
  <2>6. Of' = {} /\ ~Going' /\ pa.helper # NoPid  BY <1>5, <2>3, View, HelperAssumption
  <2>7. pa.queue = {}  BY <1>1, <2>6 DEF Apart
  <2>8. Books'
    BY <1>1, <2>1, <2>3, <2>6, <2>7 DEF Books, Covered, Used, Apart, Counted
  <2>9. QED  BY <2>4, <2>5, <2>8 DEF HInv
<1>6. QED  BY <1>4, <1>5

-----------------------------------------------------------------------------
(* The invariants.                                                         *)

LEMMA HInvInit == Init => HInv
<1> SUFFICES ASSUME Init  PROVE HInv
  OBVIOUS
<1>1. PICK auto \in AutoRestart :
        pa = [up |-> TRUE, link |-> TRUE, auto |-> auto, helper |-> NoPid, ref |-> 0, queue |-> {}]
  BY DEF Init
<1>2. auto \in BOOLEAN  BY HelperAssumption
<1>3. pa \in Agent /\ pa.helper = NoPid /\ pa.queue = {}  BY <1>1, <1>2 DEF Agent
<1>4. /\ proc = [p \in Pids |-> NoProc] /\ mgr = [up |-> TRUE, req |-> 0, failed |-> FALSE]
      /\ wants = {} /\ lost = {} /\ idle = FALSE /\ stale = {} /\ faults = 0
  BY DEF Init
<1>5. mgr \in [up : BOOLEAN, req : Nat, failed : BOOLEAN]  BY <1>4
<1>6. proc \in [Pids -> Proc]  BY <1>4, NoProcType
<1>7. Types  BY <1>3, <1>4, <1>5, <1>6 DEF Types, Agent, Proc
<1>8. Procs
  <2>1. ASSUME NEW p \in Pids  PROVE ProcOK(p)
    <3>1. proc[p] = NoProc /\ p # pa.helper  BY <1>3, <1>4, HelperAssumption
    <3>2. QED  BY <3>1, NoProcType DEF ProcOK
  <2>2. QED  BY <2>1 DEF Procs
<1>9. Of = {} /\ ~Going  BY <1>3, View
<1>10. Books  BY <1>3, <1>4, <1>9 DEF Books, Covered, Used, Apart, Counted
<1>11. QED  BY <1>7, <1>8, <1>10 DEF HInv

LEMMA HInvNext == HInv /\ [Next]_vars => HInv'
<1> SUFFICES ASSUME HInv, [Next]_vars  PROVE HInv'
  OBVIOUS
<1>1. ASSUME NEW c \in Ics, socket_start_helper(c)  PROVE HInv'  BY <1>1, StartStep
<1>2. ASSUME NEW c \in Ics, socket_stop_helper(c)  PROVE HInv'  BY <1>2, StopStep
<1>3. ASSUME NEW c \in Ics, ContextGone(c)  PROVE HInv'  BY <1>3, ContextGoneStep
<1>4. CASE ManagerForks  BY <1>4, ManagerForksStep
<1>5. CASE ManagerDies  BY <1>5, ManagerDiesStep
<1>6. ASSUME NEW p \in Pids, socket_helper_register_helper(p)  PROVE HInv'  BY <1>6, RegisterStep
<1>7. ASSUME NEW p \in Pids, CloseHelper(p)  PROVE HInv'  BY <1>7, CloseStep
<1>8. ASSUME NEW p \in Pids, open_connection(p)  PROVE HInv'  BY <1>8, OpenStep
<1>9. ASSUME NEW p \in Pids, filter_event(p)  PROVE HInv'  BY <1>9, FilterStep
<1>10. ASSUME NEW p \in Pids, PanelGone(p)  PROVE HInv'  BY <1>10, PanelGoneStep
<1>11. ASSUME NEW p \in Pids, HelperDies(p)  PROVE HInv'  BY <1>11, HelperDiesStep
<1>12. CASE UNCHANGED vars
  <2>1. UNCHANGED <<pa, mgr, proc, wants, lost, idle, stale, faults>>  BY <1>12 DEF vars
  <2>2. Types'  BY <2>1 DEF HInv, Types
  <2>3. QED  BY <2>1, <2>2, Unmoved
<1>13. QED
  BY <1>1, <1>2, <1>3, <1>4, <1>5, <1>6, <1>7, <1>8, <1>9, <1>10, <1>11, <1>12
  DEF Next, Panel, Helpers

LEMMA HInvHolds == Spec => []HInv
<1>1. QED  BY HInvInit, HInvNext, PTL DEF Spec

\* The panel, the manager and the processes of a helper keep their types, and the
\* process registered in m_helper_client_index is one that has asked for it.
THEOREM HelperTypes == Spec => []TypeOK
<1>1. HInv => TypeOK
  <2> SUFFICES ASSUME HInv  PROVE TypeOK
    OBVIOUS
  <2>1. Types  BY DEF HInv
  <2>2. ASSUME pa.up, pa.helper # NoPid
        PROVE  proc[pa.helper].st \in {"asked", "running", "dead"}
    <3>1. pa.helper \in Pids  BY <2>1, <2>2 DEF Types
    <3>2. QED  BY <2>2, <3>1 DEF HInv, Procs, ProcOK
  <2>3. QED  BY <2>1, <2>2 DEF TypeOK
<1>2. QED  BY <1>1, HInvHolds, PTL

\* socket_helper_register_helper admits one process: of all that the manager has
\* forked only the registered one is ever past its open_connection.
THEOREM OneHelperRuns == Spec => []OneHelper
<1>1. HInv => OneHelper  BY DEF HInv, Procs, ProcOK, OneHelper
<1>2. QED  BY <1>1, HInvHolds, PTL

\* No start and no stop gets lost between front end, panel and helper, whatever
\* dies in between: the contexts queued in m_start_helper_ic_index or attached to
\* the registered process are those that use the helper.
THEOREM HelperBooksAgree == Spec => []BooksAgree
<1>1. HInv => BooksAgree
  <2> SUFFICES ASSUME HInv, pa.up  PROVE BooksAgree
    BY DEF BooksAgree
  <2>1. Covered /\ Used  BY DEF HInv, Books
  <2>2. QED  BY <2>1 DEF Covered, Used, BooksAgree, Of, Going
<1>2. QED  BY <1>1, HInvHolds, PTL

\* The reference count of m_helper_client_index ends the helper in time: with no
\* context left that uses it, and none gone without a word, no process runs.
THEOREM NoHelperLeft == Spec => []NoneLeft
<1>1. HInv => NoneLeft
  <2> SUFFICES ASSUME HInv, pa.up, wants = {}, stale = {}, ~idle,
                      NEW p \in Pids, proc[p].inbox = <<>>, proc[p].st = "running"
               PROVE  FALSE
    BY DEF NoneLeft
  <2>1. p = pa.helper /\ p # NoPid  BY HelperAssumption DEF HInv, Procs, ProcOK
  <2>2. Types /\ Counted  BY DEF HInv, Books
  <2>3. ~Going
    <3>1. Len(proc[p].inbox) = 0  OBVIOUS
    <3>2. ~Exits(proc[p].inbox)  BY <3>1 DEF Exits
    <3>3. QED  BY <2>1, <3>2, View
  <2>4. wants \ lost = {} /\ Cardinality({}) = 0  BY FS_EmptySet
  <2>5. pa.ref \in Int /\ pa.ref >= 1 /\ pa.ref <= 0  BY <2>1, <2>2, <2>3, <2>4 DEF Counted, Types
  <2>6. QED  BY <2>5
<1>2. QED  BY <1>1, HInvHolds, PTL
=============================================================================
