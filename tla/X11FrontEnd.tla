----------------------------- MODULE X11FrontEnd -----------------------------
(***************************************************************************)
(* The X11 front end (modules/FrontEnd/scim_x11_frontend.cpp and           *)
(* scim_x11_ic.cpp) with the instances FrontEndBase keeps for it, its      *)
(* PanelClient and the panel's session.                                    *)
(*                                                                         *)
(* One thread runs run (): an XIM request or a message of the panel is one *)
(* handler, one step.  A handler is a chain of operators on the record fe, *)
(* in the order of the code.  In each of its calls of an IMEngine instance *)
(* the instance may emit signals.  What is drawn, the spot location and    *)
(* the on-the-spot preedit callbacks are left out.                         *)
(***************************************************************************)
EXTENDS PanelClient, FiniteSets

CONSTANTS
  Uuids,      \* uuids of the IMEngine factories
  Langs,      \* languages of the XIM connections; one connection for each
  MaxIcid,    \* bound on the ICs created (base_icid is 16 bits wide)
  MaxSiid,    \* bound on the instances created
  MaxWire     \* a handler starts when at most so many commands are unread

ASSUME X11Assumption ==
  /\ NoArg \notin Uuids /\ Uuids # {}
  /\ MaxIcid \in Nat /\ MaxSiid \in Nat /\ MaxWire \in Nat

Icids     == 1..MaxIcid
Siids     == 0..(MaxSiid - 1)
NoSiid    == -1

VARIABLES
  fe,     \* the front end: see Init
  panel,  \* the panel's session with this front end
  alive   \* the panel process this client is connected to runs

vars == <<fe, panel, alive>>

-----------------------------------------------------------------------------
(* Lookups.                                                                *)

NoIC == [siid |-> NoSiid, shared |-> FALSE, on |-> FALSE, lang |-> ""]

Live(s) == {i \in Icids : s.ics[i].siid # NoSiid}

\* is_focused_ic and is_inputing_ic of an instance: by siid, which ICs share.
FocusHasAny(s, siid) == s.focus # NoIcid     \* (Mutant: of any instance.)
FocusHas(s, siid) == s.focus # NoIcid /\ s.ics[s.focus].siid = siid
Inputing(s, siid) == FocusHas(s, siid) /\ s.ics[s.focus].on

\* find_ic_by_siid: the list is searched from the newest IC on.
find_ic_by_siid(s, siid) ==
  LET of == {i \in Icids : s.ics[i].siid = siid}
  IN IF of = {} THEN NoIcid ELSE CHOOSE i \in of : \A j \in of : j <= i

\* The config key SCIM_CONFIG_FRONTEND_IM_OPENED_BY_DEFAULT, or xims_on.
OpenedByDefault(s, on) == IF s.opened = "unset" THEN on ELSE s.opened = "on"

-----------------------------------------------------------------------------
(* The front end's own steps.  fx records where the handler's commands and *)
(* its engine's output went: put in the transaction, lost, or committed.   *)

Begin(s, ic) == [s EXCEPT !.pc = prepare(@, ic)]
End(s)       == [s EXCEPT !.pc = send(@)]

Put(s, ic, cmd, arg) ==
  [s EXCEPT !.pc = put(@, ic, cmd, arg),
            !.fx = @ \cup {[to |-> ic, how |-> IF Accepts(s.pc, ic) \/ ~s.pc.up
                                                THEN "put" ELSE "lost"]}]

\* What an instance may emit during a call.  Show and update signals need the
\* focus and an IC that is on; hide and commit need the focus; helper signals
\* only need an IC of this instance.
Shows(s, siid) ==
  IF Inputing(s, siid) THEN Put(s, s.focus, "UPDATE", NoArg) ELSE s
HidesAndCommits(s, siid) ==
  IF ~FocusHas(s, siid) THEN s
  ELSE [Put(s, s.focus, "UPDATE", NoArg) EXCEPT !.fx =
          @ \cup {[to |-> s.focus, how |-> "commit"]}]
CallsHelper(s, siid) ==
  IF find_ic_by_siid(s, siid) = NoIcid THEN s
  ELSE Put(s, find_ic_by_siid(s, siid), "HELPER", NoArg)

\* During one handler an instance emits everything (e) or nothing.
Engine(s, siid, e) ==
  IF e THEN CallsHelper(HidesAndCommits(Shows(s, siid), siid), siid) ELSE s

\* FrontEndBase::new_instance, replace_instance and delete_instance.
new_instance(s, u) ==
  [s EXCEPT !.inst[s.count] = u, !.count = @ + 1]
replace_instance(s, siid, u, e) ==
  IF s.inst[siid] = u THEN s ELSE [Engine(s, siid, e) EXCEPT !.inst[siid] = u]
delete_instance(s, siid, e) == [Engine(s, siid, e) EXCEPT !.inst[siid] = NoArg]

\* The instance that the ICs of shared input method mode have in common.  It
\* is replaced when the default factory of this language is another one.
get_default_instance(s, lang, e) ==
  IF s.def = NoSiid THEN [new_instance(s, s.deff[lang]) EXCEPT !.def = s.count]
  ELSE replace_instance(s, s.def, s.deff[lang], e)

update_factory_info(s, ic) ==
  IF s.focus = ic
    THEN Put(s, ic, "FACTORY_INFO",
             IF s.ics[ic].on THEN s.inst[s.ics[ic].siid] ELSE NoArg)
    ELSE s

\* (Mutant: only an IC that is on tells the panel of its focus.)
FocusInWhenOn(s, ic) ==
  IF s.ics[ic].on THEN Put(s, ic, "FOCUS_IN", NoArg) ELSE s

panel_req_focus_in(s, ic) == Put(s, ic, "FOCUS_IN", NoArg)

\* A shared instance is reset when it comes to another IC.
ResetShared(s, ic, e) == IF s.ics[ic].shared THEN Engine(s, s.ics[ic].siid, e) ELSE s

\* (Mutant: a stopped IC does not take back its factory.)
StopInformed(s, ic, e) ==
  Put(ResetShared(Engine(s, s.ics[ic].siid, e), ic, e), ic, "TURN_OFF", NoArg)

start_ic(s, ic, e) ==
  LET s1 == update_factory_info(Put(s, ic, "UPDATE", NoArg), ic)
      s2 == Put(Put(s1, ic, "TURN_ON", NoArg), ic, "UPDATE", NoArg)
  IN Engine(ResetShared(s2, ic, e), s.ics[ic].siid, e)

stop_ic(s, ic, e) ==
  LET s1 == ResetShared(Engine(s, s.ics[ic].siid, e), ic, e)
  IN Put(update_factory_info(s1, ic), ic, "TURN_OFF", NoArg)

Record(s, on) == IF s.shared THEN [s EXCEPT !.opened = on] ELSE s

ims_turn_on_ic(s, ic, e) ==
  IF s.ics[ic].on THEN s
  ELSE LET s1 == Record([s EXCEPT !.ics[ic].on = TRUE], "on")
       IN IF s.focus = ic THEN start_ic(panel_req_focus_in(s1, ic), ic, e) ELSE s1

ims_turn_off_ic(s, ic, e) ==
  IF ~s.ics[ic].on THEN s
  ELSE LET s1 == Record([s EXCEPT !.ics[ic].on = FALSE], "off")
       IN IF s.focus = ic THEN stop_ic(s1, ic, e) ELSE s1

\* The five places that give an IC another factory (hotkeys and panel).
ChangeFactory(s, ic, u, e) ==
  LET siid == s.ics[ic].siid
      s1 == replace_instance(ims_turn_off_ic(s, ic, e), siid, u, e)
      s2 == Engine(Put(s1, ic, "REGISTER", s1.inst[siid]), siid, e)
  IN ims_turn_on_ic([s2 EXCEPT !.deff[s.ics[ic].lang] = u], ic, e)

-----------------------------------------------------------------------------
(* XIM requests.                                                           *)

Init ==
  /\ \E shared \in BOOLEAN, u \in Uuids :
       fe = [ics    |-> [i \in Icids |-> NoIC],     \* m_ic_manager
             next   |-> 1,                          \* base_icid
             focus  |-> NoIcid,                     \* m_focus_ic
             inst   |-> [i \in Siids |-> NoArg],    \* m_instance_repository
             count  |-> 0,                          \* m_instance_count
             def    |-> NoSiid,                     \* m_default_instance_map
             deff   |-> [l \in Langs |-> u],        \* the default factories
             shared |-> shared,                     \* m_shared_input_method
             opened |-> "unset",                    \* ..._IM_OPENED_BY_DEFAULT
             pc     |-> open_connection(NewClient, TRUE),
             by     |-> NoIcid,                     \* the handler's IC
             fx     |-> {}]                         \* what its step did
  /\ panel = NewSession(Icids)
  /\ alive = TRUE

Ready == Len(fe.pc.wire) <= MaxWire

\* A handler for ic takes the front end to s; to a dead panel nothing arrives.
Handle(ic, s) ==
  /\ fe' = [s EXCEPT !.by = ic, !.pc.wire = IF alive THEN @ ELSE <<>>]
  /\ UNCHANGED <<panel, alive>>

Now == [fe EXCEPT !.fx = {}, !.by = NoIcid]

\* XIM_OPEN and XIM_CLOSE only keep the languages of the connections: the ICs
\* of a closed connection stay, the focused one focused.
ims_create_ic_handler(l, e) ==
  /\ Ready /\ fe.next <= MaxIcid
  /\ (fe.shared /\ fe.def # NoSiid) \/ fe.count < MaxSiid
  /\ LET ic == fe.next
         s1 == IF fe.shared THEN get_default_instance(Now, l, e)
                            ELSE new_instance(Now, Now.deff[l])
         siid == IF fe.shared THEN s1.def ELSE fe.count
         s2 == [s1 EXCEPT !.next = @ + 1,
                          !.ics[ic] = [NoIC EXCEPT !.siid = siid, !.lang = l]]
         s3 == Put(Begin(s2, ic), ic, "REGISTER", s2.inst[siid])
         s4 == End(Engine(s3, siid, e))
     IN Handle(ic, IF fe.shared
                     THEN [s4 EXCEPT !.ics[ic].on = OpenedByDefault(s4, FALSE),
                                     !.ics[ic].shared = TRUE]
                     ELSE s4)

\* Position and input style of an IC.
ims_set_ic_values_handler(ic, e) ==
  /\ Ready /\ ic \in Live(fe)
  /\ LET s1 == Begin(Now, ic)
         s2 == IF fe.focus = ic THEN Put(s1, ic, "UPDATE", NoArg) ELSE s1
     IN Handle(ic, End(Engine(s2, fe.ics[ic].siid, e)))

\* m_focus_ic is set to the IC, so that its dying instance can still emit, and
\* compared with it afterwards: it is always cleared.
ims_destroy_ic_handler(ic, e) ==
  /\ Ready /\ ic \in Live(fe)
  /\ LET s1 == Begin(Now, ic)
         s2 == IF fe.focus = ic
                 THEN Put(Put(Engine(s1, fe.ics[ic].siid, e),
                              ic, "TURN_OFF", NoArg), ic, "FOCUS_OUT", NoArg)
                 ELSE s1
         s3 == [s2 EXCEPT !.focus = ic]
         s4 == IF fe.ics[ic].shared THEN s3 ELSE delete_instance(s3, fe.ics[ic].siid, e)
         s5 == End(Put(s4, ic, "REMOVE", NoArg))
     IN Handle(ic, [s5 EXCEPT !.focus = IF s5.focus = ic THEN NoIcid ELSE s2.focus,
                              !.ics[ic] = NoIC])

\* The IC that had the focus is stopped, in a transaction of its own.
FocusOutOld(s, ic, e) ==
  IF s.focus \in {NoIcid, ic} THEN s
  ELSE End(Put(stop_ic(Begin(s, s.focus), s.focus, e), s.focus, "FOCUS_OUT", NoArg))

\* (Mutant: an IC that joins the shared mode keeps its own instance alive.)
JoinSharedKeeping(s, ic, e) ==
  LET s2 == get_default_instance(s, s.ics[ic].lang, e)
  IN [s2 EXCEPT !.ics[ic].shared = TRUE, !.ics[ic].siid = s2.def,
                !.ics[ic].on = OpenedByDefault(s2, @)]

\* Shared input method mode: the IC gives up its own instance for the shared.
JoinShared(s, ic, e) ==
  LET s1 == IF s.ics[ic].shared THEN s ELSE delete_instance(s, s.ics[ic].siid, e)
      s2 == get_default_instance(s1, s.ics[ic].lang, e)
  IN [s2 EXCEPT !.ics[ic].shared = TRUE, !.ics[ic].siid = s2.def,
                !.ics[ic].on = OpenedByDefault(s2, @)]

\* The mode is over: the IC gets an instance of its own.
LeaveShared(s, ic) ==
  [new_instance(s, s.deff[s.ics[ic].lang]) EXCEPT !.ics[ic].siid = s.count,
                                                  !.ics[ic].shared = FALSE]

ims_set_ic_focus_handler(ic, e) ==
  /\ Ready /\ ic \in Live(fe)
  /\ (fe.shared /\ fe.def # NoSiid) \/ ~(fe.shared \/ fe.ics[ic].shared) \/ fe.count < MaxSiid
  /\ LET s0 == [FocusOutOld(Now, ic, e) EXCEPT !.focus = ic, !.fx = {}]
         s1 == Begin(s0, ic)
         s2 == IF fe.shared THEN JoinShared(s1, ic, e)
               ELSE IF fe.ics[ic].shared THEN LeaveShared(s1, ic) ELSE s1
         siid == s2.ics[ic].siid
         changed == fe.shared \/ fe.ics[ic].shared
         s3 == panel_req_focus_in(s2, ic)
         s4 == IF changed THEN Put(Engine(s3, siid, e), ic, "REGISTER", s3.inst[siid])
                          ELSE s3
         s5 == IF s4.ics[ic].on THEN start_ic(s4, ic, e)
               ELSE Put(update_factory_info(s4, ic), ic, "TURN_OFF", NoArg)
     IN Handle(ic, End(s5))

ims_unset_ic_focus_handler(ic, e) ==
  /\ Ready /\ ic = fe.focus
  /\ Handle(ic, [End(Put(stop_ic(Begin(Now, ic), ic, e), ic, "FOCUS_OUT", NoArg))
                   EXCEPT !.focus = NoIcid])

\* ims_reset_ic_handler; and the panel's slots that call the instance of an IC
\* (page up and down, candidates, caret, properties, helper events).
CallInstance(ic, e) ==
  /\ Ready /\ ic \in Live(fe)
  /\ Handle(ic, End(Engine(Begin(Now, ic), fe.ics[ic].siid, e)))

ims_trigger_notify_handler(ic, flag, e) ==
  /\ Ready /\ ic \in Live(fe)
  /\ LET s == Begin(Now, ic)
     IN Handle(ic, End(IF flag THEN ims_turn_off_ic(s, ic, e)
                               ELSE ims_turn_on_ic(s, ic, e)))

\* filter_hotkeys: what a matched hotkey does to the focused IC.
Hotkeys == {"TRIGGER", "ON", "OFF", "MENU"} \cup {"none"}
filter_hotkeys(s, ic, key, e) ==
  CASE key = "ON" \/ (key = "TRIGGER" /\ ~s.ics[ic].on) -> ims_turn_on_ic(s, ic, e)
    [] key = "OFF" \/ (key = "TRIGGER" /\ s.ics[ic].on) -> ims_turn_off_ic(s, ic, e)
    [] key = "MENU" -> Put(s, ic, "UPDATE", NoArg)
    [] key \in Uuids -> ChangeFactory(s, ic, key, e)
    [] OTHER -> IF s.ics[ic].on THEN Engine(s, s.ics[ic].siid, e) ELSE s

-----------------------------------------------------------------------------
(* Messages of the panel, for an IC that may have lost the focus since.    *)

\* m_fallback_instance, which the ICs have in common, takes the key (f) and
\* commits: to m_focus_ic, whichever IC the key was for.
Fallback(s, f) ==
  IF f /\ s.focus # NoIcid
    THEN [s EXCEPT !.fx = @ \cup {[to |-> s.focus, how |-> "fallback"]}]
    ELSE s

\* ims_forward_event_handler, which drops a key of an IC without the focus, and
\* panel_slot_process_key_event, which does not.  A key that is no hotkey of the
\* focused IC, and that the IC's instance declines or is not asked for, goes to
\* the fallback instance.
process_key_event(ic, key, e, f) ==
  /\ Ready /\ ic \in Live(fe)
  /\ ic = fe.focus \/ (alive /\ fe.pc.up)
  /\ f => key = "none"
  /\ LET s == Begin(Now, ic)
         t == IF fe.focus = ic THEN filter_hotkeys(s, ic, key, e)
              ELSE IF s.ics[ic].on THEN Engine(s, s.ics[ic].siid, e) ELSE s
     IN Handle(ic, End(Fallback(t, f)))

panel_slot_change_factory(ic, u, e) ==
  /\ Ready /\ ic \in Live(fe) /\ alive /\ fe.pc.up
  /\ LET s == Begin(Now, ic)
     IN Handle(ic, End(IF u # NoArg THEN ChangeFactory(s, ic, u, e)
                       ELSE IF fe.ics[ic].on THEN ims_turn_off_ic(s, ic, e)
                       ELSE Put(update_factory_info(s, ic), ic, "TURN_OFF", NoArg)))

\* reload_config_callback: the mode may change under the ICs.
reload_config_callback == Handle(NoIcid, [Now EXCEPT !.shared = ~@])

\* The panel reads what the front end has written.
PanelReads ==
  /\ alive /\ fe.pc.wire # <<>>
  /\ panel' = Read(panel, fe.pc.wire)
  /\ fe' = [Now EXCEPT !.pc.wire = <<>>]
  /\ UNCHANGED alive

PanelCrashes ==
  /\ alive /\ fe.pc.up
  /\ alive' = FALSE
  /\ panel' = NewSession(Icids)
  /\ fe' = [Now EXCEPT !.pc.wire = <<>>]

\* run (): filter_event fails, and the connection is opened anew; nothing is
\* registered or focused again.
run_reconnect(ok) ==
  /\ ~alive /\ fe.pc.up
  /\ alive' = ok
  /\ fe' = [Now EXCEPT !.pc = open_connection(@, ok)]
  /\ UNCHANGED panel

-----------------------------------------------------------------------------
Xim ==
  \/ \E l \in Langs, e \in BOOLEAN : ims_create_ic_handler(l, e)
  \/ \E ic \in Icids, e \in BOOLEAN :
       \/ ims_set_ic_values_handler(ic, e) \/ ims_destroy_ic_handler(ic, e)
       \/ ims_unset_ic_focus_handler(ic, e)
       \/ ims_set_ic_focus_handler(ic, e)
       \/ \E flag \in BOOLEAN : ims_trigger_notify_handler(ic, flag, e)

FromPanel ==
  \E ic \in Icids, e \in BOOLEAN :
    \/ CallInstance(ic, e)
    \/ \E key \in Hotkeys \cup Uuids, f \in BOOLEAN : process_key_event(ic, key, e, f)
    \/ \E u \in Uuids \cup {NoArg} : panel_slot_change_factory(ic, u, e)

Next ==
  \/ Xim \/ FromPanel \/ reload_config_callback
  \/ PanelReads \/ PanelCrashes \/ \E ok \in BOOLEAN : run_reconnect(ok)

Spec == Init /\ [][Next]_vars

-----------------------------------------------------------------------------
(* Properties.                                                             *)

ICs == [siid : Siids \cup {NoSiid}, shared : BOOLEAN, on : BOOLEAN,
        lang : Langs \cup {""}]

\* The ICs, the instances and the client's counters keep their types, and the
\* focused IC is a live one.
TypeOK ==
  /\ fe.ics \in [Icids -> ICs] /\ fe.focus \in Live(fe) \cup {NoIcid}
  /\ fe.inst \in [Siids -> Uuids \cup {NoArg}] /\ fe.def \in Siids \cup {NoSiid}
  /\ fe.count \in 0..MaxSiid /\ fe.next \in 1..(MaxIcid + 1)
  /\ fe.deff \in [Langs -> Uuids] /\ fe.opened \in {"unset", "on", "off"}
  /\ fe.pc.ref \in Nat /\ fe.pc.cur \in Icids \cup {NoIcid}

\* Instances have owners: every live IC has an instance, an IC that does not
\* share has one of its own, and an instance nobody uses is deleted, through
\* every change of the shared input method mode.
InstancesOwned ==
  /\ \A i \in Live(fe) : /\ fe.inst[fe.ics[i].siid] # NoArg
                         /\ fe.ics[i].shared => fe.ics[i].siid = fe.def
                         /\ ~fe.ics[i].shared => fe.ics[i].siid # fe.def
  /\ \A i, j \in Live(fe) :
       fe.ics[i].siid = fe.ics[j].siid => i = j \/ fe.ics[i].shared
  /\ \A n \in Siids : fe.inst[n] # NoArg =>
       n = fe.def \/ \E i \in Live(fe) : fe.ics[i].siid = n

\* What a handler for an IC with an instance of its own, and that instance in
\* its turn, have to say goes to this IC, and no command is lost on the way.
\* The one exception is the code's: a key that the panel sends for an IC which
\* does not have the focus, and which its instance declines, is committed by the
\* fallback instance to the IC that has it.
Directed ==
  fe.by \in Live(fe) /\ ~fe.ics[fe.by].shared =>
    \A x \in fe.fx : /\ x.how # "lost"
                     /\ x.to = fe.by \/ (x.how = "fallback" /\ x.to = fe.focus)

\* Once the panel has read everything, its registration of an IC names the
\* factory of its instance, and it shows the focused IC: the same context, the
\* same state and the same factory; unless the connection has been opened anew
\* since the IC was focused.
PanelAgrees ==
  alive /\ fe.pc.wire = <<>> =>
    /\ \A i \in Live(fe) :
         panel.uuid[i] # NoArg /\ ~fe.ics[i].shared =>
           panel.uuid[i] = fe.inst[fe.ics[i].siid]
    /\ fe.focus # NoIcid /\ ~panel.fresh =>
         /\ panel.cur = fe.focus /\ panel.on = fe.ics[fe.focus].on
         /\ ~fe.ics[fe.focus].shared =>
              panel.info = IF panel.on THEN fe.inst[fe.ics[fe.focus].siid] ELSE NoArg

\* "Client must focus in before do any other things": of what a handler writes
\* for the IC that has the focus after it (with an instance of its own), the panel
\* ignores no command, whatever it has not read before that, unless the connection
\* has been opened anew and no IC was focused on it yet.
NothingRefused ==
  [][LET written == SubSeq(fe'.pc.wire, Len(fe.pc.wire) + 1, Len(fe'.pc.wire))
     IN fe'.focus # NoIcid /\ ~fe'.ics[fe'.focus].shared =>
          fe'.focus \notin Refused(Read(panel, fe.pc.wire), written)]_vars
=============================================================================
