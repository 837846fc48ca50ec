----------------------------- MODULE PanelClient -----------------------------
(***************************************************************************)
(* PanelClient (src/scim_panel_client.cpp): what a front end uses to talk  *)
(* to the panel, as operators on the record of its members; and the        *)
(* panel's side of this one connection (PanelAgent::socket_receive_callback*)
(* in src/scim_panel_agent.cpp), as operators on a session record.         *)
(*                                                                         *)
(* A front end wraps every handler in prepare (icid) ... send ().  Of a    *)
(* transaction only its commands are kept, each with its context and one   *)
(* argument (a uuid, or "").                                               *)
(***************************************************************************)
EXTENDS Integers, SequencesExt

NoIcid == -1          \* m_current_icid before the first prepare (), or no context
NoArg  == ""

Cmd(ic, cmd, arg) == [ic |-> ic, cmd |-> cmd, arg |-> arg]

\* m_send_refcount, m_current_icid and m_send_trans; wire is what was written
\* to the socket and not read by the panel yet.
NewClient == [up |-> FALSE, ref |-> 0, cur |-> NoIcid, trans |-> <<>>, wire |-> <<>>]

\* close_connection () resets the socket and the key; a pending transaction
\* and its reference count survive.
close_connection(c) == [c EXCEPT !.up = FALSE, !.wire = <<>>]

\* open_connection () closes, then tries to connect (launching the panel if
\* nobody listens) up to four times; ok is the outcome.
open_connection(c, ok) == [close_connection(c) EXCEPT !.up = ok]

\* The first prepare () starts a transaction for ic; while it is open only ic
\* itself may prepare again.
prepare(c, ic) ==
  IF c.up /\ c.ref = 0 THEN [c EXCEPT !.cur = ic, !.trans = <<>>, !.ref = 1]
  ELSE IF c.up /\ c.cur = ic THEN [c EXCEPT !.ref = @ + 1]
  ELSE c

\* turn_on () ... remove_input_context (): the command is dropped unless a
\* transaction of the same context is open.
Accepts(c, ic) == c.ref > 0 /\ c.cur = ic

\* UPDATE and HELPER stand for one or more commands of their kind.
Merged(trans, m) ==
  /\ m.cmd \in {"UPDATE", "HELPER"} /\ trans # <<>>
  /\ trans[Len(trans)] = m

put(c, ic, cmd, arg) ==
  IF Accepts(c, ic) /\ ~Merged(c.trans, Cmd(ic, cmd, arg))
    THEN [c EXCEPT !.trans = Append(@, Cmd(ic, cmd, arg))] ELSE c

\* The last send () writes the transaction, unless it is empty.  (The next
\* prepare () sets m_send_trans and m_current_icid anew; both are cleared here.)
send(c) ==
  IF ~c.up \/ c.ref = 0 THEN c
  ELSE IF c.ref > 1 THEN [c EXCEPT !.ref = @ - 1]
  ELSE [c EXCEPT !.ref = 0, !.cur = NoIcid, !.trans = <<>>, !.wire = @ \o c.trans]

-----------------------------------------------------------------------------
(* The panel's view of the contexts of this connection.                    *)

\* Commands the panel takes from the focused context only.
FocusOnly == {"TURN_ON", "TURN_OFF", "FACTORY_INFO", "UPDATE", "FOCUS_OUT"}
Commands  == FocusOnly \cup {"REGISTER", "REMOVE", "FOCUS_IN", "HELPER"}

\* cur and last: the current and the last focused context; uuid: the
\* registration table; on and info: what the panel shows; fresh: no context has
\* been focused on this connection; refused: whose commands were ignored while
\* reading.
NewSession(Icids) ==
  [cur |-> NoIcid, last |-> NoIcid,
   uuid |-> [i \in Icids |-> NoArg], on |-> FALSE, info |-> NoArg,
   fresh |-> TRUE, refused |-> {}]

\* The uuid of a context is looked up in the table, then in the current and the
\* last focus, which always have one.
HasUuid(p, ic) == p.uuid[ic] # NoArg \/ ic \in {p.cur, p.last}

HasFocus(p, ic) == p.cur = ic \/ (p.last = ic /\ p.cur = NoIcid)

Remember(p) == IF p.cur # NoIcid THEN p.cur ELSE p.last

\* A context without a uuid is unknown; "Client must focus in before do any
\* other things", but start, stop and send to helpers.
Refuses(p, m) ==
  \/ m.cmd \in FocusOnly /\ ~(HasUuid(p, m.ic) /\ HasFocus(p, m.ic))
  \/ m.cmd = "HELPER" /\ ~HasUuid(p, m.ic)

Effect(p, m) ==
  CASE m.cmd = "REGISTER"     -> [p EXCEPT !.uuid[m.ic] = m.arg]
    [] m.cmd = "REMOVE"       -> [p EXCEPT !.uuid[m.ic] = NoArg]
    [] m.cmd = "FOCUS_IN"     -> [p EXCEPT !.last = Remember(p), !.fresh = FALSE,
                                           !.cur = m.ic]
    [] m.cmd = "FOCUS_OUT"    -> [p EXCEPT !.last = Remember(p), !.on = FALSE,
                                           !.cur = NoIcid]
    [] m.cmd = "TURN_ON"      -> [p EXCEPT !.on = TRUE]
    [] m.cmd = "TURN_OFF"     -> [p EXCEPT !.on = FALSE]
    [] m.cmd = "FACTORY_INFO" -> [p EXCEPT !.info = m.arg]
    [] m.cmd \in {"UPDATE", "HELPER"} -> p

\* socket_receive_callback: all commands in their order.
Apply(p, m) ==
  IF ~Refuses(p, m) THEN Effect(p, m)
  ELSE IF p.fresh THEN p
  ELSE [p EXCEPT !.refused = @ \cup {m.ic}]

Read(p, wire) == [FoldLeft(Apply, p, wire) EXCEPT !.refused = {}]

\* The contexts of which this drops commands.
Refused(p, wire) == FoldLeft(Apply, p, wire).refused
=============================================================================
