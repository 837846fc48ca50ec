--------------------------- MODULE HelperLifecycle ---------------------------
(***************************************************************************)
(* The processes of one helper: the panel's side (PanelAgent's helper      *)
(* tables and HelperManager, src/scim_helper_manager.cpp), the manager     *)
(* that forks them (src/scim_helper_manager_server.cpp), and the helpers   *)
(* with their HelperAgent (src/scim_helper.cpp).                           *)
(*                                                                         *)
(* Contexts start and stop the helper through the panel; the panel asks    *)
(* the manager for a process; the process connects to the panel, registers *)
(* and reads what the panel writes.  Any process but the panel may die.    *)
(***************************************************************************)
EXTENDS Integers, Sequences, FiniteSets

CONSTANTS
  Ics,          \* handles of input contexts (get_helper_ic)
  Pids,         \* processes of the helper; a number is used again
  AutoRestart,  \* values of the option SCIM_HELPER_AUTO_RESTART
  MaxFaults,    \* bound on faults
  MaxInbox,     \* contexts start and stop while no helper has more to read
  MaxRequests   \* and while the manager has no more requests to read

NoPid == "no process"

ASSUME HelperAssumption ==
  /\ IsFiniteSet(Ics) /\ IsFiniteSet(Pids) /\ NoPid \notin Pids
  /\ AutoRestart \subseteq BOOLEAN
  /\ MaxFaults \in Nat /\ MaxInbox \in Nat /\ MaxRequests \in Nat

VARIABLES
  pa,     \* the panel: see Init
  mgr,    \* the helper manager
  proc,   \* the processes
  wants,  \* the contexts that have started the helper and not stopped it
  lost,   \* those of them whose helper process has ended since
  idle,   \* the registered process was registered with no context waiting for it
  stale,  \* contexts of which a start was never taken back, until the process ends
  faults

vars == <<pa, mgr, proc, wants, lost, idle, stale, faults>>

\* A process: "none", "launched" by the manager, "asked" for its registration,
\* "running", or "dead" when the panel has not seen its connection closed yet.
\* reg: its registration is unread; inbox: what the panel has written to it.
NoProc == [st |-> "none", reg |-> FALSE, att |-> {}, inbox |-> <<>>]
Msg(m, ics) == [m |-> m, ics |-> ics]

Init ==
  /\ \E auto \in AutoRestart :
       pa = [up |-> TRUE, link |-> TRUE,   \* runs, can ask the manager
             auto |-> auto,
             helper |-> NoPid, ref |-> 0,  \* m_helper_client_index [uuid]
             queue |-> {}]                 \* m_start_helper_ic_index [uuid]
  /\ mgr = [up |-> TRUE, req |-> 0,        \* runs, requests unread
            failed |-> FALSE]              \* a request has not led to a process
  /\ proc = [p \in Pids |-> NoProc]
  /\ wants = {} /\ lost = {} /\ idle = FALSE /\ stale = {} /\ faults = 0

Fault == faults < MaxFaults /\ faults' = faults + 1
Settled == /\ mgr.req <= MaxRequests
           /\ \A p \in Pids : Len(proc[p].inbox) <= MaxInbox

-----------------------------------------------------------------------------
(* HelperManager::run_helper.  A request is written, or the manager is     *)
(* launched anew and the request written to it; when it cannot be reached, *)
(* the connection stays closed for good, and when it cannot be launched,   *)
(* the panel exits.                                                        *)

Written(q)  == /\ q.link /\ mgr.up /\ pa' = q /\ mgr' = [mgr EXCEPT !.req = @ + 1]
               /\ UNCHANGED faults
Relaunch(q) == /\ q.link /\ ~mgr.up /\ pa' = q /\ mgr' = [mgr EXCEPT !.up = TRUE, !.req = 1]
               /\ UNCHANGED faults
\* The list of helpers has not come back in time: this request is written, and no other.
Listless(q) == /\ q.link /\ ~mgr.up /\ pa' = [q EXCEPT !.link = FALSE]
               /\ mgr' = [mgr EXCEPT !.up = TRUE, !.req = 1] /\ Fault
Unreachable(q) == /\ q.link /\ ~mgr.up /\ pa' = [q EXCEPT !.link = FALSE]
                  /\ UNCHANGED mgr /\ Fault
LaunchFails(q) == /\ q.link /\ ~mgr.up /\ pa' = [q EXCEPT !.up = FALSE, !.link = FALSE]
                  /\ UNCHANGED mgr /\ Fault
NoLink(q) == ~q.link /\ pa' = q /\ UNCHANGED <<mgr, faults>>

run_helper(q) ==
  Written(q) \/ Relaunch(q) \/ Listless(q) \/ Unreachable(q) \/ LaunchFails(q) \/ NoLink(q)

-----------------------------------------------------------------------------
(* Requests of the front ends.                                             *)

Write(p, m, ics) ==
  proc' = [proc EXCEPT ![p].inbox = IF proc[p].st = "dead" THEN @ ELSE Append(@, Msg(m, ics))]

\* (Mutant: only the first context is queued for a helper that is starting.)
StartQueuedOnce(c) ==
  /\ pa.up /\ Settled /\ c \notin wants
  /\ wants' = wants \cup {c}
  /\ IF pa.helper = NoPid
       THEN /\ run_helper([pa EXCEPT !.queue = IF @ = {} THEN {c} ELSE @])
            /\ UNCHANGED <<proc, lost>>
       ELSE /\ pa' = [pa EXCEPT !.ref = @ + 1]
            /\ Write(pa.helper, "ATTACH", {c})
            /\ lost' = IF proc[pa.helper].st = "dead" THEN lost \cup {c} ELSE lost
            /\ UNCHANGED <<mgr, faults>>
  /\ UNCHANGED <<idle, stale>>

socket_start_helper(c) ==
  /\ pa.up /\ Settled /\ c \notin wants
  /\ wants' = wants \cup {c}
  /\ IF pa.helper = NoPid
       THEN /\ run_helper([pa EXCEPT !.queue = @ \cup {c}])
            /\ UNCHANGED <<proc, lost>>
       ELSE /\ pa' = [pa EXCEPT !.ref = @ + 1]
            /\ Write(pa.helper, "ATTACH", {c})
            /\ lost' = IF proc[pa.helper].st = "dead" THEN lost \cup {c} ELSE lost
            /\ UNCHANGED <<mgr, faults>>
  /\ UNCHANGED <<idle, stale>>

\* (Mutant: the last context's stop does not end the helper.)
StopNoExit(c) ==
  /\ pa.up /\ Settled /\ c \in wants
  /\ wants' = wants \ {c} /\ lost' = lost \ {c}
  /\ IF pa.helper = NoPid
       THEN stale' = stale \cup (pa.queue \cap {c}) /\ UNCHANGED <<pa, proc>>
       ELSE /\ pa' = [pa EXCEPT !.ref = @ - 1]
            /\ Write(pa.helper, "DETACH", {c})
            /\ UNCHANGED stale
  /\ UNCHANGED <<idle, mgr, faults>>

\* A helper that has not registered yet is not stopped: the context stays in
\* the queue.
socket_stop_helper(c) ==
  /\ pa.up /\ Settled /\ c \in wants
  /\ wants' = wants \ {c} /\ lost' = lost \ {c}
  /\ IF pa.helper = NoPid
       THEN stale' = stale \cup (pa.queue \cap {c}) /\ UNCHANGED <<pa, proc>>
       ELSE /\ pa' = [pa EXCEPT !.ref = @ - 1]
            /\ Write(pa.helper, IF pa.ref <= 1 THEN "DETACH_EXIT" ELSE "DETACH", {c})
            /\ UNCHANGED stale
  /\ UNCHANGED <<idle, mgr, faults>>

\* A front end dies, or forgets to stop the helper: the panel does nothing.
ContextGone(c) ==
  /\ c \in wants /\ Fault
  /\ wants' = wants \ {c} /\ lost' = lost \ {c}
  /\ stale' = IF c \in lost THEN stale ELSE stale \cup {c}
  /\ UNCHANGED <<idle, pa, mgr, proc>>

-----------------------------------------------------------------------------
(* The manager's server.                                                   *)

\* run_helper of the server forks scim-helper-launcher, which loads the module.
ManagerForks ==
  /\ mgr.up /\ mgr.req > 0
  /\ \/ \E p \in Pids : /\ proc[p] = NoProc
                        /\ proc' = [proc EXCEPT ![p].st = "launched"]
                        /\ mgr' = [mgr EXCEPT !.req = @ - 1]
                        /\ UNCHANGED faults
     \/ mgr' = [mgr EXCEPT !.req = @ - 1, !.failed = TRUE] /\ UNCHANGED proc /\ Fault
  /\ UNCHANGED <<idle, pa, wants, lost, stale>>

\* Its requests are lost with it.
ManagerDies ==
  /\ mgr.up /\ Fault /\ mgr' = [up |-> FALSE, req |-> 0, failed |-> mgr.failed \/ mgr.req > 0]
  /\ UNCHANGED <<idle, pa, proc, wants, lost, stale>>

-----------------------------------------------------------------------------
(* A helper process.                                                       *)

Alive(p) == proc[p].st \in {"launched", "asked", "running"}

\* The process ends; its connection, if it has one, is closed.
Ends(p) ==
  proc' = [proc EXCEPT ![p] = IF @.st = "launched" THEN NoProc
                              ELSE [@ EXCEPT !.st = "dead", !.att = {}, !.inbox = <<>>]]

\* HelperAgent::open_connection, up to the reply.
open_connection(p) ==
  /\ proc[p].st = "launched"
  /\ IF pa.up THEN proc' = [proc EXCEPT ![p].st = "asked", ![p].reg = TRUE]
              ELSE Ends(p)
  /\ UNCHANGED <<idle, pa, mgr, wants, lost, stale, faults>>

\* What a message makes of the contexts attached.
Attach(att, m) ==
  IF m.m \in {"OK", "ATTACH"} THEN att \cup m.ics
  ELSE IF m.m \in {"DETACH", "DETACH_EXIT"} THEN att \ m.ics ELSE att

\* The reply ends open_connection (), the rest is read by filter_event (); the
\* helper ends when it is told to, or was not registered.
filter_event(p) ==
  /\ proc[p].st \in {"asked", "running"} /\ proc[p].inbox # <<>>
  /\ LET m == Head(proc[p].inbox)
     IN IF m.m \in {"FAIL", "DETACH_EXIT"} THEN Ends(p)
        ELSE proc' = [proc EXCEPT ![p].st = "running", ![p].inbox = Tail(@),
                                   ![p].att = Attach(@, m)]
  /\ UNCHANGED <<idle, pa, mgr, wants, lost, stale, faults>>

\* The process dies; or takes the panel's reply for too late, and ends.
HelperDies(p) ==
  /\ Alive(p) /\ Fault /\ Ends(p)
  /\ mgr' = [mgr EXCEPT !.failed = @ \/ proc[p].st = "launched"]
  /\ UNCHANGED <<idle, pa, wants, lost, stale>>

\* The panel has exited: filter_event () fails.
PanelGone(p) ==
  /\ ~pa.up /\ proc[p].st \in {"asked", "running"}
  /\ proc' = [proc EXCEPT ![p] = NoProc]
  /\ UNCHANGED <<idle, pa, mgr, wants, lost, stale, faults>>

-----------------------------------------------------------------------------
(* The panel's handling of its helpers.                                    *)

\* (Mutant: a second process is not told that it is not registered.)
RegisterAnyway(p) ==
  /\ pa.up /\ proc[p].reg
  /\ LET first == pa.helper = NoPid
     IN /\ pa' = IF first THEN [pa EXCEPT !.helper = p, !.ref = 1, !.queue = {}] ELSE pa
        /\ proc' = [proc EXCEPT ![p].reg = FALSE,
                                ![p].inbox = IF proc[p].st = "dead" THEN @
                                             ELSE Append(@, Msg("OK", pa.queue))]
        /\ idle' = IF first THEN pa.queue = {} ELSE idle
        /\ lost' = IF first /\ proc[p].st = "dead" THEN lost \cup (pa.queue \cap wants) ELSE lost
  /\ UNCHANGED <<mgr, wants, stale, faults>>

\* The first process is registered, with all the contexts that wait for it; a
\* second one is refused.
socket_helper_register_helper(p) ==
  /\ pa.up /\ proc[p].reg
  /\ LET first == pa.helper = NoPid
     IN /\ pa' = IF first THEN [pa EXCEPT !.helper = p, !.ref = 1, !.queue = {}] ELSE pa
        /\ proc' = [proc EXCEPT ![p].reg = FALSE,
                                ![p].inbox = IF proc[p].st = "dead" THEN @
                                             ELSE Append(@, IF first THEN Msg("OK", pa.queue)
                                                            ELSE Msg("FAIL", {}))]
        /\ idle' = IF first THEN pa.queue = {} ELSE idle
        /\ lost' = IF first /\ proc[p].st = "dead" THEN lost \cup (pa.queue \cap wants) ELSE lost
  /\ UNCHANGED <<mgr, wants, stale, faults>>

\* (Mutant: a helper that has died is not started again.)
CloseNoRestart(p) ==
  /\ pa.up /\ proc[p].st = "dead" /\ ~proc[p].reg
  /\ proc' = [proc EXCEPT ![p] = NoProc]
  /\ IF p # pa.helper THEN UNCHANGED <<pa, mgr, lost, stale, faults>>
     ELSE /\ pa' = [pa EXCEPT !.helper = NoPid, !.ref = 0]
          /\ lost' = wants \ pa.queue /\ stale' = stale \cap pa.queue
          /\ UNCHANGED <<mgr, faults>>
  /\ UNCHANGED <<idle, wants>>

\* socket_close_connection of a helper: the tables forget it and its contexts;
\* with SCIM_HELPER_AUTO_RESTART a helper that is in use is started again.
CloseHelper(p) ==
  /\ pa.up /\ proc[p].st = "dead" /\ ~proc[p].reg
  /\ proc' = [proc EXCEPT ![p] = NoProc]
  /\ IF p # pa.helper THEN UNCHANGED <<pa, mgr, lost, stale, faults>>
     ELSE LET q == [pa EXCEPT !.helper = NoPid, !.ref = 0]
          IN /\ IF pa.auto /\ pa.ref > 0 THEN run_helper(q)
                ELSE pa' = q /\ UNCHANGED <<mgr, faults>>
             /\ lost' = wants \ pa.queue /\ stale' = stale \cap pa.queue
  /\ UNCHANGED <<idle, wants>>

-----------------------------------------------------------------------------
Panel   == \E p \in Pids : socket_helper_register_helper(p) \/ CloseHelper(p)
Helpers == \E p \in Pids : open_connection(p) \/ filter_event(p) \/ PanelGone(p)

Next ==
  \/ \E c \in Ics : socket_start_helper(c) \/ socket_stop_helper(c) \/ ContextGone(c)
  \/ ManagerForks \/ ManagerDies
  \/ Panel \/ Helpers \/ \E p \in Pids : HelperDies(p)

\* The panel's thread serves every descriptor; manager and helpers run.
Fairness ==
  /\ \A p \in Pids : /\ WF_vars(socket_helper_register_helper(p)) /\ WF_vars(CloseHelper(p))
                     /\ WF_vars(open_connection(p)) /\ WF_vars(filter_event(p))
                     /\ WF_vars(PanelGone(p))
  /\ WF_vars(ManagerForks)

Spec == Init /\ [][Next]_vars /\ Fairness

-----------------------------------------------------------------------------
(* Properties.                                                             *)

States == {"none", "launched", "asked", "running", "dead"}
Messages == [m : {"OK", "FAIL", "ATTACH", "DETACH", "DETACH_EXIT"}, ics : SUBSET Ics]

Types ==
  /\ pa \in [up : BOOLEAN, link : BOOLEAN, auto : BOOLEAN,
             helper : Pids \cup {NoPid}, ref : Int, queue : SUBSET Ics]
  /\ mgr \in [up : BOOLEAN, req : Nat, failed : BOOLEAN]
  /\ proc \in [Pids -> [st : States, reg : BOOLEAN, att : SUBSET Ics, inbox : Seq(Messages)]]
  /\ wants \subseteq Ics /\ lost \subseteq wants /\ stale \subseteq Ics
  /\ idle \in BOOLEAN /\ faults \in Nat

\* The panel, the manager and the processes keep their types; the registered
\* process is one that has asked.
TypeOK ==
  /\ Types
  /\ pa.up /\ pa.helper # NoPid => proc[pa.helper].st \in {"asked", "running", "dead"}

\* The contexts a process will have attached when it has read everything: those that
\* are, or will be, and are not detached after that.
Attached(p) ==
  LET box == proc[p].inbox
  IN {c \in Ics : \E k \in 0..Len(box) :
        /\ IF k = 0 THEN c \in proc[p].att
           ELSE box[k].m \in {"OK", "ATTACH"} /\ c \in box[k].ics
        /\ \A j \in (k + 1)..Len(box) :
             ~(box[j].m \in {"DETACH", "DETACH_EXIT"} /\ c \in box[j].ics)}
Leaving(p)  == \E k \in 1..Len(proc[p].inbox) : proc[p].inbox[k].m = "DETACH_EXIT"

\* No start gets lost between panel, manager and helper: a context that has
\* started the helper waits in the queue, or is or will be attached, or its helper
\* process has ended or been told to end.  And only such contexts are, but for those
\* that ended while they waited, or without a word.
BooksAgree ==
  pa.up =>
    LET of == IF pa.helper = NoPid THEN {} ELSE Attached(pa.helper)
        going == pa.helper # NoPid /\ (proc[pa.helper].st = "dead" \/ Leaving(pa.helper))
    IN /\ wants \subseteq pa.queue \cup of \cup lost \cup (IF going THEN wants ELSE {})
       /\ pa.queue \cup of \subseteq wants \cup stale

\* Only the registered process runs for long: any other that runs has been told
\* that it is not registered.
OneHelper ==
  pa.up => \A p \in Pids : proc[p].st = "running" => p = pa.helper

\* When everything has been read and no context uses the helper, none is left
\* running, but one that a context has left without a word, or that was registered
\* when nobody waited for it: one too many, or one started again.
NoneLeft ==
  /\ pa.up /\ wants = {} /\ stale = {} /\ ~idle
  /\ \A p \in Pids : proc[p].inbox = <<>> /\ proc[p].st \notin {"launched", "asked"}
  => \A p \in Pids : proc[p].st # "running"

\* A helper with SCIM_HELPER_AUTO_RESTART that dies while it is in use is started
\* again and registered, as long as the manager does what it is asked for.
Restarted ==
  pa.auto /\ pa.helper # NoPid /\ pa.ref > 0 /\ proc[pa.helper].st = "dead"
    ~> \/ pa.helper # NoPid /\ (proc[pa.helper].st # "dead" \/ pa.ref <= 0)
       \/ mgr.failed \/ ~pa.link
=============================================================================
