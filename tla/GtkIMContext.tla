---------------------------- MODULE GtkIMContext ----------------------------
(***************************************************************************)
(* The GTK IM module (extras/gtk_immodule/gtkimcontextscim.cpp): the input *)
(* contexts of one process, their IMEngine instances, the PanelClient they *)
(* share and the panel's session.                                          *)
(*                                                                         *)
(* Everything runs on the toolkit's thread, but handlers nest: an instance *)
(* that is called may commit text, the application's callback may move the *)
(* focus, reset or destroy a context, and so enters the module again while *)
(* a transaction is open.  todo is the stack: the operations left to do,   *)
(* the innermost handler's first; a nested handler ends with "ret".        *)
(*                                                                         *)
(* Preedit strings, surrounding text and drawing are left out.  A context  *)
(* that a handler works on is not destroyed under it.  For the context an  *)
(* event is dispatched to, the toolkit's reference sees to that; for the   *)
(* context that focus_in focuses out first, and for one a panel slot names,*)
(* it is an assumption about the application.                              *)
(***************************************************************************)
EXTENDS PanelClient, FiniteSets

CONSTANTS
  Uuids,      \* uuids of the IMEngine factories
  MaxIc,      \* contexts 1..MaxIc, created in this order
  MaxDepth,   \* bound on nested callbacks of the application, for each mode
  SharedModes \* values of _shared_input_method, fixed for a run of the process

ASSUME GtkAssumption ==
  /\ NoArg \notin Uuids /\ Uuids # {} /\ SharedModes \subseteq BOOLEAN
  /\ Uuids \cap {"TRIGGER", "none"} = {}     \* a key is a hot key or chooses a factory
  /\ MaxIc \in Nat \ {0} /\ MaxDepth \in [BOOLEAN -> Nat]

Ics   == 1..MaxIc
NoInst == 0
Insts == 1..(MaxIc + 1)   \* one for each context and the default one

VARIABLES
  g,      \* the module's static data: see Init
  todo,   \* the operations of the open handlers
  panel,  \* the panel's session
  alive,  \* the panel process this client is connected to runs
  mess    \* a handler was nested since the last unnested focus_in

vars == <<g, todo, panel, alive, mess>>

-----------------------------------------------------------------------------
NoIC == [si |-> NoInst, on |-> FALSE, shared |-> FALSE]
Live(s) == {i \in Ics : s.ics[i].si # NoInst}

\* Instances are reference counted: one that neither a context nor
\* _default_instance holds is gone, and its name is free for a new one.
Held(s) == {s.def} \cup {s.ics[i].si : i \in Ics}
Free(s) == CHOOSE n \in Insts : n \notin Held(s)
create_instance(s, n, u) == [s EXCEPT !.inst[n] = [uuid |-> u, data |-> NoIcid]]
NoInstance == [uuid |-> NoArg, data |-> NoIcid]
Collect(s) == [s EXCEPT !.inst = [n \in Insts |-> IF n \in Held(s) THEN @[n] ELSE NoInstance]]

UuidOf(s, ic) == s.inst[s.ics[ic].si].uuid
Data(s, ic)   == s.inst[s.ics[ic].si].data      \* get_frontend_data ()

\* SCIM_CONFIG_FRONTEND_IM_OPENED_BY_DEFAULT is read and written in shared mode.
Opened(s, on) == IF s.opened = "unset" THEN on ELSE s.opened = "on"
Record(s, on) == [s EXCEPT !.opened = on]

Put(s, ic, cmd, arg) == [s EXCEPT !.pc = put(@, ic, cmd, arg)]

panel_req_focus_in(s, ic) == Put(s, ic, "FOCUS_IN", NoArg)
panel_req_update_factory_info(s, ic) ==
  IF s.focus = ic
    THEN Put(s, ic, "FACTORY_INFO", IF s.ics[ic].on THEN UuidOf(s, ic) ELSE NoArg)
    ELSE s

-----------------------------------------------------------------------------
(* Operations.  Run(s, o) is what operation o makes of the data, Rest(s, o)*)
(* what remains to be done of it.                                          *)

Op(f, ic)     == [f |-> f, ic |-> ic, u |-> NoArg]
OpU(f, ic, u) == [f |-> f, ic |-> ic, u |-> u]

\* Entering focus_in: the previous context is focused out first.
FocusIn(s, ic) ==
  IF s.focus = ic THEN <<>>
  ELSE IF s.focus = NoIcid THEN <<Op("take_focus", ic)>>
  ELSE <<Op("focus_out", s.focus), Op("take_focus", ic)>>

FocusOut(s, ic) ==
  IF s.focus # ic THEN <<>>
  ELSE <<Op("engine", ic)>>
       \o (IF s.ics[ic].shared THEN <<Op("engine", ic)>> ELSE <<>>)
       \o <<Op("out", ic)>>

\* (Mutant: the last send () is missing.)
OutUnsent(s, ic) ==
  [Put(Put(s, ic, "TURN_OFF", NoArg), ic, "FOCUS_OUT", NoArg) EXCEPT !.focus = NoIcid]

\* The end of focus_out: _focused_ic is cleared, whoever has the focus by now.
Out(s, ic) ==
  LET s1 == Put(Put(s, ic, "TURN_OFF", NoArg), ic, "FOCUS_OUT", NoArg)
  IN [s1 EXCEPT !.pc = send(@), !.focus = NoIcid]

\* The shared instance is made anew when the default factory has changed.
TakeShared(s, ic) ==
  LET s0 == [s EXCEPT !.def = NoInst, !.ics[ic].si = NoInst]
      s1 == IF s.def # NoInst /\ s.inst[s.def].uuid = s.deff THEN s
            ELSE [create_instance(s, Free(s0), s.deff) EXCEPT !.def = Free(s0)]
  IN [s1 EXCEPT !.ics[ic] = [si |-> s1.def, shared |-> TRUE,
                             on |-> Opened(s, s.ics[ic].on)]]

set_frontend_data(s, ic) == [s EXCEPT !.inst[s.ics[ic].si].data = ic]

take_focus(s, ic) ==
  LET s1 == [s EXCEPT !.focus = ic, !.pc = prepare(@, ic)]
      s2 == set_frontend_data(IF s.shared THEN TakeShared(s1, ic) ELSE s1, ic)
  IN IF s.shared THEN Put(s2, ic, "REGISTER", UuidOf(s2, ic)) ELSE s2

\* (Mutant: a context that is off says nothing.)
ShowWhenOn(s, ic) ==
  LET s1 == panel_req_update_factory_info(panel_req_focus_in(s, ic), ic)
  IN IF s.ics[ic].on THEN Put(s1, ic, "TURN_ON", NoArg) ELSE s

\* The second half of focus_in, after the shared instance has been reset.
Show(s, ic) ==
  LET s1 == panel_req_update_factory_info(
              Put(panel_req_focus_in(s, ic), ic, "UPDATE", NoArg), ic)
  IN IF s.ics[ic].on
       THEN Put(Put(s1, ic, "TURN_ON", NoArg), ic, "UPDATE", NoArg)
       ELSE Put(s1, ic, "TURN_OFF", NoArg)

\* turn_on_ic, up to the instance's focus_in ().
turn_on(s, ic) ==
  LET s1 == [s EXCEPT !.ics[ic].on = TRUE]
  IN IF s.ics[ic].on THEN s ELSE IF s.focus = ic THEN Show(s1, ic) ELSE s1

\* What follows the instance's call when a context is turned on or off.
Recorded(s, ic, on) == IF s.shared THEN <<OpU("record", ic, on)>> ELSE <<>>


\* A context gets an instance of another factory under the old instance's id.
ReplaceInstance(s, ic, u) ==
  LET n  == Free([s EXCEPT !.ics[ic].si = NoInst])
      s1 == [create_instance(s, n, u) EXCEPT !.ics[ic].si = n, !.deff = u]
  IN Put(set_frontend_data(s1, ic), ic, "REGISTER", u)

Share(s, ic) ==
  IF s.shared THEN [s EXCEPT !.def = s.ics[ic].si, !.ics[ic].shared = TRUE] ELSE s

\* filter_hotkeys on the context of the key; a key that is none goes to the
\* instance of the focused context, which may decline, then to the fallback.
HotKeys == {"TRIGGER", "none"}
KeyEvent(s, ic, key) ==
  CASE key = "TRIGGER" -> <<Op(IF s.ics[ic].on THEN "turn_off" ELSE "turn_on", ic)>>
    [] key = "none"    ->
         (IF s.focus # NoIcid /\ s.ics[s.focus].on THEN <<Op("engine", s.focus)>> ELSE <<>>)
         \o <<Op("fallback", ic)>>
    [] key \in Uuids   -> <<OpU("change", ic, key)>>

Change(s, ic, u) ==
  IF UuidOf(s, ic) = u THEN <<Op("turn_on", ic)>>
  ELSE IF u = NoArg THEN <<Op("turn_off", ic)>>
  ELSE <<Op("turn_off", ic), OpU("replace", ic, u), Op("engine", ic),
         Op("turn_on", ic), Op("share", ic)>>

Finalize(s, ic) ==
  (IF s.focus = ic THEN <<Op("engine", ic)>> ELSE <<>>) \o <<Op("dying", ic)>>

\* (Mutant: the focus stays.)
DyingFocused(s, ic) ==
  LET s1 == Put(Put(s, ic, "TURN_OFF", NoArg), ic, "REMOVE", NoArg)
  IN [s1 EXCEPT !.pc = send(@), !.ics[ic] = NoIC]

\* The instance dies with _focused_ic set to its context, so that it can still
\* send to helpers; _focused_ic is restored afterwards.
Dying(s, ic) ==
  LET s1 == IF s.ics[ic].si # s.def /\ Data(s, ic) = ic THEN Put(s, ic, "HELPER", NoArg) ELSE s
      s2 == IF s.focus = ic THEN Put(Put(s1, ic, "TURN_OFF", NoArg), ic, "FOCUS_OUT", NoArg)
            ELSE s1
      s3 == Put(s2, ic, "REMOVE", NoArg)
  IN [s3 EXCEPT !.pc = send(@), !.ics[ic] = NoIC,
                !.focus = IF @ = ic THEN NoIcid ELSE @]

Rest(s, o) ==
  CASE o.f = "focus_in"   -> FocusIn(s, o.ic)
    [] o.f = "focus_out"  -> FocusOut(s, o.ic)
    [] o.f = "reset"      -> IF s.focus = o.ic THEN <<Op("engine", o.ic), Op("send", o.ic)>>
                             ELSE <<>>
    [] o.f = "finalize"   -> Finalize(s, o.ic)
    [] o.f = "take_focus" -> (IF s.shared THEN <<Op("engine", o.ic)>> ELSE <<>>)
                             \o <<Op("show", o.ic), Op("send", o.ic)>>
    [] o.f = "show" /\ s.ics[o.ic].on -> <<Op("engine", o.ic)>>
    [] o.f = "turn_on" /\ ~s.ics[o.ic].on ->
         (IF s.focus = o.ic THEN <<Op("engine", o.ic)>> ELSE <<>>) \o Recorded(s, o.ic, "on")
    [] o.f = "turn_off" /\ s.ics[o.ic].on ->
         (IF s.focus = o.ic THEN <<Op("engine", o.ic), Op("turned_off", o.ic)>> ELSE <<>>)
         \o Recorded(s, o.ic, "off")
    [] o.f = "key"        -> KeyEvent(s, o.ic, o.u)
    [] o.f = "change"     -> Change(s, o.ic, o.u)
    [] o.f = "call"       -> <<Op("engine", o.ic)>>
    [] OTHER              -> <<>>

Run(s, o) ==
  CASE o.f = "finalize" \/ (o.f \in {"focus_out", "reset"} /\ s.focus = o.ic) ->
         [s EXCEPT !.pc = prepare(@, o.ic)]
    [] o.f = "send"       -> [s EXCEPT !.pc = send(@)]
    [] o.f = "take_focus" -> take_focus(s, o.ic)
    [] o.f = "show"       -> Show(s, o.ic)
    [] o.f = "out"        -> Out(s, o.ic)
    [] o.f = "turn_on"    -> turn_on(s, o.ic)
    [] o.f = "turn_off" /\ s.ics[o.ic].on -> [s EXCEPT !.ics[o.ic].on = FALSE]
    [] o.f = "record"     -> Record(s, o.u)
    [] o.f = "turned_off" ->
         Put(panel_req_update_factory_info(s, o.ic), o.ic, "TURN_OFF", NoArg)
    [] o.f = "replace"    -> ReplaceInstance(s, o.ic, o.u)
    [] o.f = "share"      -> Share(s, o.ic)
    [] o.f = "dying"      -> Dying(s, o.ic)
    [] o.f = "emit"       -> IF s.focus = Data(s, o.ic) /\ s.focus # NoIcid
                               THEN Put(s, s.focus, "UPDATE", NoArg) ELSE s
    [] OTHER              -> s

-----------------------------------------------------------------------------
Init ==
  /\ \E shared \in SharedModes, u \in Uuids :
       g = [ics    |-> [i \in Ics |-> NoIC],
            next   |-> 1,                           \* _context_count
            inst   |-> [n \in Insts |-> NoInstance],
            def    |-> NoInst,                      \* _default_instance
            deff   |-> u,                           \* the default factory
            focus  |-> NoIcid,                      \* _focused_ic
            shared |-> shared,                      \* _shared_input_method
            opened |-> "unset",                     \* ..._IM_OPENED_BY_DEFAULT
            pc     |-> open_connection(NewClient, TRUE)]
  /\ todo = <<>> /\ panel = NewSession(Ics) /\ alive = TRUE /\ mess = FALSE

Depth   == Cardinality({k \in 1..Len(todo) : todo[k].f = "ret"})
Working == {todo[k].ic : k \in 1..Len(todo)}   \* contexts of the open handlers

\* Operation o is begun, before those in rest; to a dead panel nothing arrives.
Do(s, o, rest) ==
  /\ g' = [Collect(Run(s, o)) EXCEPT !.pc.wire = IF alive THEN @ ELSE <<>>]
  /\ todo' = Rest(s, o) \o rest

\* The next operation of the innermost handler; an instance called does
\* nothing, or emits, or commits.
Step ==
  /\ todo # <<>> /\ Head(todo).f # "engine"
  /\ Do(g, Head(todo), Tail(todo))
  /\ UNCHANGED <<panel, alive, mess>>

EngineReturns(emits) ==
  /\ todo # <<>> /\ Head(todo).f = "engine"
  /\ g' = IF emits THEN Run(g, Op("emit", Head(todo).ic)) ELSE g
  /\ todo' = Tail(todo)
  /\ UNCHANGED <<panel, alive, mess>>

\* slot_commit_string: the application's callback enters the module again, and
\* the instance emits more once it returns.
Nested(f, ic) ==
  /\ todo # <<>> /\ Head(todo).f = "engine" /\ Depth < MaxDepth[g.shared]
  /\ Data(g, Head(todo).ic) # NoIcid
  /\ ic \in Live(g) /\ (f = "finalize" => ic \notin Working)
  /\ Do(g, Op(f, ic), <<Op("ret", ic), Op("emit", Head(todo).ic)>> \o Tail(todo))
  /\ mess' = TRUE
  /\ UNCHANGED <<panel, alive>>

\* fallback_commit_string_cb: the fallback instance commits to the focused
\* context, whichever the key was for, and the application reacts.
FallbackCommits(f, ic) ==
  /\ todo # <<>> /\ Head(todo).f = "fallback" /\ Depth < MaxDepth[g.shared]
  /\ g.focus # NoIcid
  /\ ic \in Live(g) /\ (f = "finalize" => ic \notin Working)
  /\ Do(g, Op(f, ic), <<Op("ret", ic)>> \o Tail(todo))
  /\ mess' = TRUE
  /\ UNCHANGED <<panel, alive>>

\* Events the main loop dispatches, with no handler open.
Idle == todo = <<>> /\ g.pc.wire = <<>>

gtk_im_context_scim_init ==
  /\ Idle /\ g.next \in Ics
  /\ LET ic == g.next
         n  == IF g.shared /\ g.def # NoInst THEN g.def ELSE Free(g)
         s1 == IF n = g.def THEN g ELSE create_instance(g, n, g.deff)
         s2 == [s1 EXCEPT !.next = @ + 1, !.def = IF g.shared THEN n ELSE @,
                  !.ics[ic] = [si |-> n, shared |-> g.shared,
                               on |-> g.shared /\ Opened(g, FALSE)]]
     IN g' = Put([s2 EXCEPT !.pc = prepare(@, ic)], ic, "REGISTER", UuidOf(s2, ic))
  /\ todo' = <<Op("engine", g.next), Op("send", g.next)>>
  /\ UNCHANGED <<panel, alive, mess>>

Dispatch(f, ic) ==
  /\ Idle /\ ic \in Live(g)
  /\ Do(g, Op(f, ic), <<>>)
  /\ mess' = IF f = "focus_in" /\ g.focus # ic THEN FALSE ELSE mess
  /\ UNCHANGED <<panel, alive>>

\* The key snooper and the panel's slots: a transaction around what is done for
\* a context; panel slots come for any context, keys for the focused one.
Within(ic, o) ==
  /\ Idle /\ ic \in Live(g)
  /\ Do([g EXCEPT !.pc = prepare(@, ic)], o, <<Op("send", ic)>>)
  /\ UNCHANGED <<panel, alive, mess>>
gtk_scim_key_snooper(key) == g.focus # NoIcid /\ Within(g.focus, OpU("key", g.focus, key))
panel_slot_change_factory(ic, u) == alive /\ Within(ic, OpU("change", ic, u))
panel_slot_process_key_event(ic, key) == alive /\ Within(ic, OpU("key", ic, key))
panel_slot_call(ic) == alive /\ Within(ic, Op("call", ic))

PanelReads ==
  /\ todo = <<>> /\ alive /\ g.pc.wire # <<>>
  /\ panel' = Read(panel, g.pc.wire)
  /\ g' = [g EXCEPT !.pc.wire = <<>>]
  /\ UNCHANGED <<todo, alive, mess>>

PanelCrashes ==
  /\ todo = <<>> /\ alive
  /\ alive' = FALSE /\ panel' = NewSession(Ics) /\ g' = [g EXCEPT !.pc.wire = <<>>]
  /\ UNCHANGED <<todo, mess>>

\* The channel hangs up: panel_finalize, panel_initialize; nothing is registered
\* or focused again.
panel_iochannel_handler(ok) ==
  /\ todo = <<>> /\ ~alive /\ g.pc.up
  /\ alive' = ok /\ g' = [g EXCEPT !.pc = open_connection(@, ok)]
  /\ UNCHANGED <<todo, panel, mess>>

Next ==
  \/ Step \/ \E emits \in BOOLEAN : EngineReturns(emits)
  \/ \E ic \in Ics, f \in {"focus_in", "focus_out", "reset", "finalize"} :
       Nested(f, ic) \/ FallbackCommits(f, ic) \/ Dispatch(f, ic)
  \/ gtk_im_context_scim_init
  \/ \E key \in HotKeys \cup Uuids : gtk_scim_key_snooper(key)
  \/ \E ic \in Ics, key \in HotKeys \cup Uuids : panel_slot_process_key_event(ic, key)
  \/ \E ic \in Ics, u \in Uuids \cup {NoArg} : panel_slot_change_factory(ic, u)
  \/ \E ic \in Ics : panel_slot_call(ic)
  \/ PanelReads \/ PanelCrashes \/ \E ok \in BOOLEAN : panel_iochannel_handler(ok)

Spec == Init /\ [][Next]_vars

-----------------------------------------------------------------------------
(* Properties.                                                             *)

\* The contexts, the instances and the stack keep their types.
TypeOK ==
  /\ g.ics \in [Ics -> [si : Insts \cup {NoInst}, on : BOOLEAN, shared : BOOLEAN]]
  /\ g.inst \in [Insts -> [uuid : Uuids \cup {NoArg}, data : Ics \cup {NoIcid}]]
  /\ g.def \in Insts \cup {NoInst} /\ g.deff \in Uuids
  /\ g.pc.ref \in Nat /\ mess \in BOOLEAN
  /\ Depth <= MaxDepth[g.shared]

\* _focused_ic and every context a handler still works on exist, however
\* handlers nest: none of them follows a dangling pointer.  (That a nested
\* handler destroys no context an open one works on is assumed, see above.)
FocusedLive ==
  /\ g.focus \in Live(g) \cup {NoIcid}
  /\ \A k \in 1..Len(todo) : todo[k].f \notin {"ret"} => todo[k].ic \in Live(g)

\* Every reference to the open transaction has a send () to come: none is left
\* over when the last handler returns, however handlers nest.
RefsPaid ==
  g.pc.ref <= Cardinality({k \in 1..Len(todo) : todo[k].f \in {"send", "out", "dying"}})


\* Whatever nested handlers have done to the focus, one focus_in that is not
\* nested settles it: once the panel has read everything it shows the focused
\* context, its state and its factory.
Settles ==
  Idle /\ alive /\ g.pc.up /\ ~mess /\ ~panel.fresh /\ g.focus # NoIcid =>
    /\ panel.cur = g.focus
    /\ panel.on = g.ics[g.focus].on
    /\ panel.info = IF panel.on THEN UuidOf(g, g.focus) ELSE NoArg
=============================================================================
