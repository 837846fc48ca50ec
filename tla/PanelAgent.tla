----------------------------- MODULE PanelAgent -----------------------------
(***************************************************************************)
(* PanelAgent (src/scim_panel_agent.cpp): the hub between the panel's GUI, *)
(* the front ends, the helpers and the panel controllers.  The socket      *)
(* thread runs the SocketServer callbacks; the GUI thread calls the public *)
(* methods.  Every critical section (lock () ... unlock ()) is one step.   *)
(*                                                                         *)
(* A client is known by its file descriptor, which the kernel reuses.      *)
(* Payloads, keys and the text of the UI signals are abstracted away; what *)
(* is kept of a message is its destination, the kind of client it is meant *)
(* for and its command.                                                    *)
(***************************************************************************)
EXTENDS Integers, FiniteSets

CONSTANTS
  Fds,           \* file descriptors the server may hand out to clients
  Types,         \* the types of client that connect in this instance
  Contexts,      \* input context ids used by the front ends
  Uuids,         \* uuids of IMEngine instances
  HelperUuids,   \* uuids of helpers
  HelperOptions, \* the option sets a helper may register with
  Screens,       \* screen numbers
  Factories,     \* factory infos, besides the default one
  Resident,      \* m_should_resident
  MaxRef         \* bound on a helper's reference count, either side of 0

ClientTypes == {"FrontEnd", "Helper", "PanelController"}
Options     == {"AUTO_RESTART", "NEED_SCREEN_INFO", "NEED_SPOT_LOCATION_INFO"}
Awaitable   == {"PANEL_SHOW_FACTORY_MENU", "PANEL_UPDATE_FACTORY_INFO"}
None        == "none"
NoUuid      == ""

ASSUME PanelAgentAssumption ==
  /\ Contexts \subseteq Nat /\ 0 \in Contexts
  /\ NoUuid \notin Uuids /\ NoUuid \notin HelperUuids
  /\ 0 \in Screens /\ Screens \subseteq Nat
  /\ None \notin Factories
  /\ Resident \in BOOLEAN
  /\ MaxRef \in Nat

ASSUME FdsAssumption == \A c \in Fds : c \in Nat /\ c > 0 /\ c < 65536

ASSUME TypesAssumption == Types \subseteq ClientTypes

ASSUME OptionsAssumption == HelperOptions \subseteq SUBSET Options

VARIABLES
  accepted,    \* fds the SocketServer has accepted and not closed
  running,     \* the SocketServer's main loop runs
  repo,        \* m_client_repository; NoClient where there is no entry
  current,     \* m_current_socket_client, _client_context, _context_uuid
  last,        \* m_last_socket_client, _client_context, _context_uuid
  uuids,       \* m_client_context_uuids
  helperInfo,  \* m_helper_info_repository; NoHelper where there is no entry
  helperIndex, \* m_helper_client_index; NoStub where there is no entry
  startIndex,  \* m_start_helper_ic_index
  screen,      \* m_current_screen
  factory,     \* m_currentFactoryInfo
  recv,        \* the transaction the socket thread is working on
  closing,     \* the connection the socket thread is tearing down
  ui,          \* where the GUI thread is in exit () and stop ()
  shouldExit,  \* m_should_exit
  out          \* the messages written to sockets by the last step

server  == <<accepted, running, repo>>
focus   == <<current, last>>
helpers == <<helperInfo, helperIndex, startIndex>>
thread  == <<recv, closing>>
gui     == <<ui, shouldExit>>
vars    == <<server, focus, uuids, helpers, screen, factory, thread, gui, out>>

-----------------------------------------------------------------------------
(* Handles, records and lookups.                                           *)

\* (Mutant: the client is shifted out.)
ClientlessIc(client, context) == (context % 32768) * 65536

\* A helper knows an input context by one uint32: 16 bits of client and 15
\* bits of context.
get_helper_ic(client, context) == (client % 65536) + ((context % 32768) * 65536)

get_imengine_client_context(ic) ==
  [client |-> ic % 65536, context |-> (ic \div 65536) % 32768]

AnyIc == -1     \* (uint32) -1: the focused context, whichever it is
Ics   == {get_helper_ic(c, x) : c \in Fds, x \in Contexts}
IcsOf(c) == {i \in Ics : i % 65536 = c % 65536}

NoClient == [type |-> "Unknown", awaited |-> None]
\* Of a helper, its uuid, its options and (history) the screen it was told.
NoHelper == [uuid |-> NoUuid, options |-> {}, screen |-> 0]
NoStub   == [id |-> -1, ref |-> 0]
Nobody   == [client |-> -1, context |-> 0, uuid |-> NoUuid]
NoRecv   == [client |-> -1, context |-> 0]
NoClose  == [client |-> -1, next |-> None]

ClientType(c) == IF c \in Fds THEN repo[c].type ELSE "Unknown"
Known         == {c \in Fds : repo[c].type # "Unknown"}
Registered    == {c \in Fds : helperInfo[c].uuid # NoUuid}

get_focused_context == IF current.client >= 0 THEN current ELSE last

Msg(to, kind, cmd) == [to |-> to, kind |-> kind, cmd |-> cmd]
Focused(cmd) ==
  IF get_focused_context.client >= 0
    THEN {Msg(get_focused_context.client, "FrontEnd", cmd)} ELSE {}
Broadcast(cmd) == {Msg(c, "Any", cmd) : c \in Known}

Idle == recv = NoRecv /\ closing = NoClose

-----------------------------------------------------------------------------
(* Connections.                                                            *)

Init ==
  /\ accepted = {} /\ running = TRUE
  /\ repo = [c \in Fds |-> NoClient]
  /\ current = Nobody /\ last = Nobody
  /\ uuids = [i \in Ics |-> NoUuid]
  /\ helperInfo = [c \in Fds |-> NoHelper]
  /\ helperIndex = [u \in HelperUuids |-> NoStub]
  /\ startIndex = [u \in HelperUuids |-> {}]
  /\ screen = 0 /\ factory = None
  /\ recv = NoRecv /\ closing = NoClose
  /\ ui = "idle" /\ shouldExit = FALSE
  /\ out = {}

\* A peer connects; socket_accept_callback shuts the server down when the
\* GUI thread has asked for it.
socket_accept_callback(c) ==
  /\ running /\ Idle /\ c \notin accepted
  /\ running' = ~shouldExit
  /\ accepted' = IF shouldExit THEN {} ELSE accepted \cup {c}
  /\ out' = {}
  /\ UNCHANGED <<repo, focus, uuids, helpers, screen, factory, thread, gui>>

\* First data of an unknown client: the handshake names its type, or the
\* connection is dropped (type = "").
socket_open_connection(c, type) ==
  /\ running /\ Idle /\ c \in accepted /\ repo[c].type = "Unknown"
  /\ IF type = ""
       THEN accepted' = accepted \ {c} /\ UNCHANGED repo
       ELSE /\ repo' = [repo EXCEPT ![c] = [type |-> type, awaited |-> None]]
            /\ UNCHANGED accepted
  /\ out' = {}
  /\ UNCHANGED <<running, focus, uuids, helpers, screen, factory, thread, gui>>

\* socket_close_connection, first critical section: the client leaves the
\* repository, its fd is closed, and a non-resident panel without clients
\* shuts its server down (closing every connection that is left).
socket_close_connection(c) ==
  /\ running /\ Idle /\ c \in accepted
  /\ LET type == repo[c].type
         stop == type # "Unknown" /\ Known \subseteq {c} /\ ~Resident
     IN /\ running' = ~stop
        /\ accepted' = IF stop THEN {} ELSE accepted \ {c}
        /\ closing' = IF type = "FrontEnd" THEN [client |-> c, next |-> "current"]
                      ELSE IF type = "Helper" THEN [client |-> c, next |-> "helper"]
                      ELSE NoClose
  /\ repo' = [repo EXCEPT ![c] = NoClient]
  /\ out' = {}
  /\ UNCHANGED <<focus, uuids, helpers, screen, factory, recv, gui>>

\* Second section: the focus leaves a closed front end (and the panel is
\* turned off, between a transaction_start and a transaction_end).
CloseCurrent ==
  /\ closing.next = "current"
  /\ current' = IF current.client = closing.client THEN Nobody ELSE current
  /\ closing' = [client |-> closing.client, next |-> "last"]
  /\ out' = IF current.client = closing.client
              THEN {Msg(-1, "Panel", "TURN_OFF")} ELSE {}
  /\ UNCHANGED <<server, last, uuids, helpers, screen, factory, recv, gui>>

\* (Mutants: the last focus, or the context uuids, survive the client.)
CloseLastKeepsFocus ==
  /\ closing.next = "last"
  /\ uuids' = [i \in Ics |-> IF i \in IcsOf(closing.client) THEN NoUuid ELSE uuids[i]]
  /\ closing' = NoClose
  /\ out' = {}
  /\ UNCHANGED <<server, focus, helpers, screen, factory, recv, gui>>
CloseLastKeepsUuids ==
  /\ closing.next = "last"
  /\ last' = IF last.client = closing.client THEN Nobody ELSE last
  /\ closing' = NoClose
  /\ out' = {}
  /\ UNCHANGED <<server, current, uuids, helpers, screen, factory, recv, gui>>

\* Third section: the last focus, then every context uuid of the client.
CloseLast ==
  /\ closing.next = "last"
  /\ last' = IF last.client = closing.client THEN Nobody ELSE last
  /\ uuids' = [i \in Ics |-> IF i \in IcsOf(closing.client) THEN NoUuid ELSE uuids[i]]
  /\ closing' = NoClose
  /\ out' = {}
  /\ UNCHANGED <<server, current, helpers, screen, factory, recv, gui>>

\* (Mutant: the helper's index entry survives its connection.)
CloseHelperKeepsIndex ==
  /\ closing.next = "helper"
  /\ helperInfo' = [helperInfo EXCEPT ![closing.client] = NoHelper]
  /\ closing' = NoClose
  /\ out' = {}
  /\ UNCHANGED <<server, focus, uuids, helperIndex, startIndex, screen,
                 factory, recv, gui>>

\* A closed helper is forgotten, and run again if it asked for that and was
\* still referenced (the request to the helper manager is a message).
CloseHelper ==
  /\ closing.next = "helper"
  /\ LET c == closing.client
         u == helperInfo[c].uuid
         known   == u # NoUuid
         restart == known /\ "AUTO_RESTART" \in helperInfo[c].options
                          /\ helperIndex[u].ref > 0
     IN /\ helperIndex' = IF known THEN [helperIndex EXCEPT ![u] = NoStub]
                                   ELSE helperIndex
        /\ helperInfo' = [helperInfo EXCEPT ![c] = NoHelper]
        /\ out' = IF restart THEN {Msg(-1, "HelperManager", "RUN_HELPER")} ELSE {}
  /\ closing' = NoClose
  /\ UNCHANGED <<server, focus, uuids, startIndex, screen, factory,
                 recv, gui>>

-----------------------------------------------------------------------------
(* socket_receive_callback: one transaction of a known client.  recv is    *)
(* set from the transaction_start signal to the transaction_end signal;    *)
(* each command in between is one step.                                    *)

ReceiveTransaction(c, x) ==
  /\ running /\ Idle /\ c \in accepted /\ c \in Known
  /\ repo[c].type = "FrontEnd" \/ x = 0
  /\ recv' = [client |-> c, context |-> x]
  /\ out' = {}
  /\ UNCHANGED <<server, focus, uuids, helpers, screen, factory, closing, gui>>

EndTransaction ==
  /\ recv # NoRecv
  /\ recv' = NoRecv
  /\ out' = {}
  /\ UNCHANGED <<server, focus, uuids, helpers, screen, factory, closing, gui>>

\* The socket thread works on a transaction of a client of this type.
From(type) == recv # NoRecv /\ ClientType(recv.client) = type

-----------------------------------------------------------------------------
(* Front end commands.                                                     *)

RecvIc    == get_helper_ic(recv.client, recv.context)
IsRecv(f) == f.client = recv.client /\ f.context = recv.context

\* The uuid of the sending context: from the registration table, else from
\* the focus if it is the current or the last focused one.
ContextUuid ==
  IF uuids[RecvIc] # NoUuid THEN uuids[RecvIc]
  ELSE IF IsRecv(current) THEN current.uuid
  ELSE IF IsRecv(last) THEN last.uuid
  ELSE NoUuid

\* The sender holds the focus, or held it last and nobody holds it now.
HasFocus == IsRecv(current) \/ (IsRecv(last) /\ current.client < 0)

register_input_context(u) ==
  /\ From("FrontEnd")
  /\ uuids' = [uuids EXCEPT ![RecvIc] = u]
  /\ out' = {}
  /\ UNCHANGED <<server, focus, helpers, screen, factory, thread, gui>>

remove_input_context ==
  /\ From("FrontEnd")
  /\ uuids' = [uuids EXCEPT ![RecvIc] = NoUuid]
  /\ out' = {}
  /\ UNCHANGED <<server, focus, helpers, screen, factory, thread, gui>>

focus_in(u) ==
  /\ From("FrontEnd")
  /\ last' = IF current.client >= 0 THEN current ELSE last
  /\ current' = [client |-> recv.client, context |-> recv.context, uuid |-> u]
  /\ out' = {}
  /\ UNCHANGED <<server, uuids, helpers, screen, factory, thread, gui>>

focus_out ==
  /\ From("FrontEnd") /\ ContextUuid # NoUuid /\ HasFocus
  /\ last' = IF current.client >= 0 THEN current ELSE last
  /\ current' = Nobody
  /\ out' = {Msg(-1, "Panel", "TURN_OFF")}
  /\ UNCHANGED <<server, uuids, helpers, screen, factory, thread, gui>>

\* Commands of the focused context that only become a signal to the panel:
\* turn on and off, show, hide and update of preedit, aux string and lookup
\* table, properties, help.
update_panel ==
  /\ From("FrontEnd") /\ ContextUuid # NoUuid /\ HasFocus
  /\ out' = {Msg(-1, "Panel", "UPDATE")}
  /\ UNCHANGED <<server, focus, uuids, helpers, screen, factory, thread, gui>>

Interested(option) == {c \in Registered : option \in helperInfo[c].options}

\* Every helper that asked for it is told of a new screen.
helper_all_update_screen(s) ==
  /\ helperInfo' = [c \in Fds |-> IF c \in Interested("NEED_SCREEN_INFO")
                                   THEN [helperInfo[c] EXCEPT !.screen = s]
                                   ELSE helperInfo[c]]
  /\ out' = {Msg(c, "Helper", "UPDATE_SCREEN") : c \in Interested("NEED_SCREEN_INFO")}

\* (Mutant: the helpers are not told.)
UpdateScreenUntold(s) ==
  /\ From("FrontEnd") /\ ContextUuid # NoUuid /\ HasFocus
  /\ screen' = s
  /\ out' = {}
  /\ UNCHANGED <<server, focus, uuids, helpers, factory, thread, gui>>

socket_update_screen(s) ==
  /\ From("FrontEnd") /\ ContextUuid # NoUuid /\ HasFocus
  /\ s # screen
  /\ helper_all_update_screen(s)
  /\ screen' = s
  /\ UNCHANGED <<server, focus, uuids, helperIndex, startIndex, factory,
                 thread, gui>>

helper_all_update_spot_location ==
  {Msg(c, "Helper", "UPDATE_SPOT_LOCATION") : c \in Interested("NEED_SPOT_LOCATION_INFO")}

socket_update_spot_location ==
  /\ From("FrontEnd") /\ ContextUuid # NoUuid /\ HasFocus
  /\ out' = helper_all_update_spot_location
  /\ UNCHANGED <<server, focus, uuids, helpers, screen, factory, thread, gui>>

\* One client that awaits cmd gets it and stops waiting.  (The order of the
\* repository depends on the container the build selects.)
Waiting(cmd) == {c \in Known : repo[c].awaited = cmd}
InformWaiting(c, cmd, signals) ==
  /\ repo' = [repo EXCEPT ![c].awaited = None]
  /\ out' = {Msg(c, "PanelController", cmd)} \cup signals
ToPanel == {Msg(-1, "Panel", "UPDATE")}

\* The panel is always told of a new factory, the waiting controller besides.
socket_update_factory_info(f) ==
  /\ From("FrontEnd") /\ ContextUuid # NoUuid /\ HasFocus
  /\ factory' = f
  /\ \/ /\ Waiting("PANEL_UPDATE_FACTORY_INFO") = {}
        /\ out' = ToPanel /\ UNCHANGED repo
     \/ \E c \in Waiting("PANEL_UPDATE_FACTORY_INFO") :
          InformWaiting(c, "PANEL_UPDATE_FACTORY_INFO", ToPanel)
  /\ UNCHANGED <<accepted, running, focus, uuids, helpers, screen, thread, gui>>

\* A menu goes to the waiting controller, else to the panel.  Handled before
\* the focus is looked at: any context with a uuid may answer.
socket_show_factory_menu ==
  /\ From("FrontEnd") /\ ContextUuid # NoUuid
  /\ \/ /\ Waiting("PANEL_SHOW_FACTORY_MENU") = {}
        /\ out' = ToPanel /\ UNCHANGED repo
     \/ \E c \in Waiting("PANEL_SHOW_FACTORY_MENU") :
          InformWaiting(c, "PANEL_SHOW_FACTORY_MENU", {})
  /\ UNCHANGED <<accepted, running, focus, uuids, helpers, screen, factory,
                 thread, gui>>

\* The agent does not check that a context stops only what it started.
socket_start_helper(u) ==
  /\ From("FrontEnd") /\ ContextUuid # NoUuid
  /\ \/ /\ helperIndex[u] = NoStub
        /\ startIndex' = [startIndex EXCEPT ![u] = @ \cup {RecvIc}]
        /\ out' = {Msg(-1, "HelperManager", "RUN_HELPER")}
        /\ UNCHANGED helperIndex
     \/ /\ helperIndex[u] # NoStub /\ helperIndex[u].ref < MaxRef
        /\ helperIndex' = [helperIndex EXCEPT ![u].ref = @ + 1]
        /\ out' = {Msg(helperIndex[u].id, "Helper", "ATTACH_INPUT_CONTEXT")}
        /\ UNCHANGED startIndex
  /\ UNCHANGED <<server, focus, uuids, helperInfo, screen, factory, thread, gui>>

socket_stop_helper(u) ==
  /\ From("FrontEnd") /\ ContextUuid # NoUuid
  /\ \/ /\ helperIndex[u] = NoStub
        /\ out' = {} /\ UNCHANGED helperIndex
     \/ /\ helperIndex[u] # NoStub /\ helperIndex[u].ref > -MaxRef
        /\ helperIndex' = [helperIndex EXCEPT ![u].ref = @ - 1]
        /\ out' = {Msg(helperIndex[u].id, "Helper", cmd) :
                     cmd \in {"DETACH_INPUT_CONTEXT"} \cup
                             (IF helperIndex[u].ref <= 1 THEN {"EXIT"} ELSE {})}
  /\ UNCHANGED <<server, focus, uuids, helperInfo, startIndex, screen, factory,
                 thread, gui>>

socket_send_helper_event(u) ==
  /\ From("FrontEnd") /\ ContextUuid # NoUuid /\ helperIndex[u] # NoStub
  /\ out' = {Msg(helperIndex[u].id, "Helper", "PROCESS_IMENGINE_EVENT")}
  /\ UNCHANGED <<server, focus, uuids, helpers, screen, factory, thread, gui>>

-----------------------------------------------------------------------------
(* Helper commands.                                                        *)

\* HelperAgent::open_connection registers its helper once, first of all; a
\* uuid that is taken is refused.
socket_helper_register_helper(u, opts) ==
  /\ From("Helper") /\ recv.client \notin Registered
  /\ LET c == recv.client
     IN \/ /\ helperIndex[u] = NoStub
           /\ helperInfo' = [helperInfo EXCEPT ![c] =
                               [uuid |-> u, options |-> opts, screen |-> screen]]
           /\ helperIndex' = [helperIndex EXCEPT ![u] = [id |-> c, ref |-> 1]]
           /\ startIndex' = [startIndex EXCEPT ![u] = {}]
           /\ out' = {Msg(c, "Helper", cmd) :
                        cmd \in {"OK", "UPDATE_SCREEN"} \cup
                                (IF startIndex[u] = {} THEN {}
                                 ELSE {"ATTACH_INPUT_CONTEXT"})}
        \/ /\ helperIndex[u] # NoStub
           /\ out' = {Msg(c, "Helper", "FAIL")}
           /\ UNCHANGED <<helperInfo, helperIndex, startIndex>>
  /\ UNCHANGED <<server, focus, uuids, screen, factory, thread, gui>>

\* Where a helper's answer goes: the context it names, or the focused one.
Target(ic) ==
  IF ic = AnyIc
    THEN [client |-> get_focused_context.client, context |-> get_focused_context.context]
    ELSE get_imengine_client_context(ic)

\* Commit string, key event and forwarded key event: only if the context and
\* the uuid (when given) are the focused ones.
socket_helper_to_focus(ic, u) ==
  /\ From("Helper")
  /\ Target(ic).client = get_focused_context.client
  /\ Target(ic).context = get_focused_context.context
  /\ u \in {NoUuid, get_focused_context.uuid}
  /\ ClientType(Target(ic).client) = "FrontEnd"
  /\ out' = {Msg(Target(ic).client, "FrontEnd", "COMMIT_STRING")}
  /\ UNCHANGED <<server, focus, uuids, helpers, screen, factory, thread, gui>>

\* Events for an IMEngine instance need not have the focus.
socket_helper_send_imengine_event(ic) ==
  /\ From("Helper") /\ recv.client \in Registered
  /\ ClientType(Target(ic).client) = "FrontEnd"
  /\ out' = {Msg(Target(ic).client, "FrontEnd", "PROCESS_HELPER_EVENT")}
  /\ UNCHANGED <<server, focus, uuids, helpers, screen, factory, thread, gui>>

socket_helper_properties ==
  /\ From("Helper")
  /\ out' = {Msg(-1, "Panel", "HELPER_PROPERTIES")}
  /\ UNCHANGED <<server, focus, uuids, helpers, screen, factory, thread, gui>>

socket_helper_reload_config ==
  /\ From("Helper")
  /\ out' = Broadcast("RELOAD_CONFIG")
  /\ UNCHANGED <<server, focus, uuids, helpers, screen, factory, thread, gui>>

-----------------------------------------------------------------------------
(* Panel controller commands.                                              *)

Outstanding == repo[recv.client].awaited # None

\* A command that comes while an answer is outstanding ends the callback at
\* once, without transaction_end (PanelLocking has what that does).
IgnoreController ==
  /\ From("PanelController") /\ Outstanding
  /\ recv' = NoRecv
  /\ out' = {}
  /\ UNCHANGED <<server, focus, uuids, helpers, screen, factory, closing, gui>>

\* REQUEST_FACTORY_MENU and CHANGE_FACTORY wait for the focused front end.
ControllerRequest(cmd) ==
  /\ From("PanelController") /\ ~Outstanding
  /\ repo' = [repo EXCEPT ![recv.client].awaited = cmd]
  /\ out' = Focused("CONTROLLER_REQUEST")
  /\ UNCHANGED <<accepted, running, focus, uuids, helpers, screen, factory,
                 thread, gui>>

\* GET_CURRENT_FACTORY and GET_CURRENT_CONTEXT are answered at once.
ControllerQuery ==
  /\ From("PanelController") /\ ~Outstanding
  /\ out' = {Msg(recv.client, "PanelController", "RETURN_CURRENT")}
  /\ UNCHANGED <<server, focus, uuids, helpers, screen, factory, thread, gui>>

-----------------------------------------------------------------------------
(* The GUI thread: public methods of PanelAgent.  Each is one critical      *)
(* section, except exit () and stop (), which it calls once.                *)

GuiFree == ui \notin {"stop", "connect"}

\* move_preedit_caret, request_help, request_factory_menu, change_factory,
\* select_candidate, lookup_table_page_up and _down, update_lookup_table_page_size
\* and trigger_property: a message for the focused context.
UiRequest ==
  /\ GuiFree
  /\ out' = Focused("REQUEST")
  /\ UNCHANGED <<server, focus, uuids, helpers, screen, factory, thread, gui>>

trigger_helper_property(c) ==
  /\ GuiFree /\ ClientType(c) = "Helper"
  /\ out' = {Msg(c, "Helper", "TRIGGER_PROPERTY")}
  /\ UNCHANGED <<server, focus, uuids, helpers, screen, factory, thread, gui>>

start_helper(u) ==
  /\ GuiFree /\ helperIndex[u] = NoStub
  /\ out' = {Msg(-1, "HelperManager", "RUN_HELPER")}
  /\ UNCHANGED <<server, focus, uuids, helpers, screen, factory, thread, gui>>

reload_config ==
  /\ GuiFree
  /\ out' = Broadcast("RELOAD_CONFIG")
  /\ UNCHANGED <<server, focus, uuids, helpers, screen, factory, thread, gui>>

\* exit () tells every client to exit and goes on with stop ().
exit ==
  /\ ui = "idle"
  /\ ui' = "stop"
  /\ out' = Broadcast("EXIT")
  /\ UNCHANGED <<server, focus, uuids, helpers, screen, factory, thread, shouldExit>>

stop ==
  /\ ui \in {"idle", "stop"}
  /\ ui' = "connect" /\ shouldExit' = TRUE
  /\ out' = {}
  /\ UNCHANGED <<server, focus, uuids, helpers, screen, factory, thread>>

\* (Mutant: stop () does not wake the server.)
ConnectNot ==
  /\ ui = "connect"
  /\ ui' = "done"
  /\ out' = {}
  /\ UNCHANGED <<server, focus, uuids, helpers, screen, factory, thread, shouldExit>>

\* stop () then connects to the server's own address to wake its select.
Connect ==
  /\ ui = "connect"
  /\ ui' = IF running THEN "wake" ELSE "done"
  /\ out' = {}
  /\ UNCHANGED <<server, focus, uuids, helpers, screen, factory, thread, shouldExit>>

\* socket_accept_callback for that connection.
AcceptWake ==
  /\ running /\ Idle /\ ui = "wake"
  /\ running' = ~shouldExit
  /\ accepted' = IF shouldExit THEN {} ELSE accepted
  /\ ui' = "done"
  /\ out' = {}
  /\ UNCHANGED <<repo, focus, uuids, helpers, screen, factory, thread, shouldExit>>

-----------------------------------------------------------------------------
Connections ==
  \/ \E c \in Fds : \/ socket_accept_callback(c)
                    \/ \E type \in Types \cup {""} : socket_open_connection(c, type)
                    \/ socket_close_connection(c)
  \/ CloseCurrent \/ CloseLast \/ CloseHelper

FrontEndCommand ==
  \/ \E u \in Uuids : register_input_context(u) \/ focus_in(u)
  \/ remove_input_context \/ focus_out \/ update_panel
  \/ \E s \in Screens : socket_update_screen(s)
  \/ socket_update_spot_location
  \/ \E f \in Factories : socket_update_factory_info(f)
  \/ socket_show_factory_menu
  \/ \E u \in HelperUuids : \/ socket_start_helper(u) \/ socket_stop_helper(u)
                            \/ socket_send_helper_event(u)

HelperCommand ==
  \/ \E u \in HelperUuids, opts \in HelperOptions :
       socket_helper_register_helper(u, opts)
  \/ \E ic \in Ics \cup {AnyIc} :
       \/ \E u \in Uuids \cup {NoUuid} : socket_helper_to_focus(ic, u)
       \/ socket_helper_send_imengine_event(ic)
  \/ socket_helper_properties \/ socket_helper_reload_config

ControllerCommand ==
  \/ IgnoreController \/ ControllerQuery
  \/ \E cmd \in Awaitable : ControllerRequest(cmd)

SocketThread ==
  \/ Connections
  \/ \E c \in Fds, x \in Contexts : ReceiveTransaction(c, x)
  \/ EndTransaction
  \/ FrontEndCommand \/ HelperCommand \/ ControllerCommand

GuiThread ==
  \/ UiRequest \/ reload_config \/ exit \/ stop \/ Connect
  \/ \E c \in Fds : trigger_helper_property(c)
  \/ \E u \in HelperUuids : start_helper(u)

Next == SocketThread \/ GuiThread \/ AcceptWake

Spec == Init /\ [][Next]_vars

\* A transaction has finitely many commands and a teardown finitely many
\* sections; the GUI thread finishes stop (); and one round of the server's
\* select loop serves every descriptor that was ready, the listener included.
FairSpec ==
  /\ Spec
  /\ WF_vars(EndTransaction) /\ WF_vars(CloseCurrent \/ CloseLast \/ CloseHelper)
  /\ WF_vars(Connect) /\ SF_vars(AcceptWake)

-----------------------------------------------------------------------------
(* Properties.                                                             *)

Holders == [client : Fds \cup {-1}, context : Contexts, uuid : Uuids \cup {NoUuid}]

ClientInfos == [type : ClientTypes \cup {"Unknown"}, awaited : Awaitable \cup {None}]
HelperInfos == [uuid : HelperUuids \cup {NoUuid}, options : SUBSET Options, screen : Screens]
HelperStubs == [id : Fds \cup {-1}, ref : -MaxRef..(MaxRef + 1)]
Received    == [client : Fds \cup {-1}, context : Contexts]
Teardowns   == [client : Fds \cup {-1}, next : {None, "current", "last", "helper"}]

ServerType  == accepted \subseteq Fds /\ running \in BOOLEAN /\ repo \in [Fds -> ClientInfos]
FocusType   == current \in Holders /\ last \in Holders
UuidsType   == uuids \in [Ics -> Uuids \cup {NoUuid}]
HelpersType ==
  /\ helperInfo \in [Fds -> HelperInfos] /\ helperIndex \in [HelperUuids -> HelperStubs]
  /\ startIndex \in [HelperUuids -> SUBSET Ics]
InfoType    == screen \in Screens /\ factory \in Factories \cup {None}
ThreadType  == recv \in Received /\ closing \in Teardowns
GuiType     == ui \in {"idle", "stop", "connect", "wake", "done"} /\ shouldExit \in BOOLEAN

\* Every table of the agent keeps its type and reference counts stay within
\* their bound.
TypeOK ==
  /\ ServerType /\ FocusType /\ UuidsType /\ HelpersType /\ InfoType
  /\ ThreadType /\ GuiType

\* The socket thread works on one thing at a time: on a transaction of a client
\* in the repository, or on the teardown of a client that has left it.
ThreadOK ==
  /\ recv # NoRecv => /\ closing = NoClose
                      /\ recv.client \in Known
  /\ closing # NoClose => /\ closing.client \in Fds \ Known
                         /\ closing.next # None

\* The current and the last focused client are connected front ends, except
\* while socket_close_connection has not come to the section that clears them.
FocusLive ==
  /\ current.client # -1 => \/ ClientType(current.client) = "FrontEnd"
                           \/ /\ closing.next = "current"
                              /\ closing.client = current.client
  /\ last.client # -1 => \/ ClientType(last.client) = "FrontEnd"
                        \/ /\ closing.next \in {"current", "last"}
                           /\ closing.client = last.client

\* m_client_context_uuids has entries of connected front ends only, so that a
\* client that gets a reused descriptor inherits no context.
NoOrphanContexts ==
  \A c \in Fds, x \in Contexts :
    uuids[get_helper_ic(c, x)] # NoUuid =>
      \/ ClientType(c) = "FrontEnd"
      \/ /\ closing.next \in {"current", "last"}
         /\ closing.client = c

\* m_helper_info_repository and m_helper_client_index are inverse to each other
\* and hold connected helpers only: the index lookup in socket_close_connection,
\* whose iterator is dereferenced unchecked, always finds its entry.
HelperBijection ==
  /\ \A u \in HelperUuids : helperIndex[u] # NoStub =>
       /\ helperIndex[u].id \in Fds /\ helperInfo[helperIndex[u].id].uuid = u
  /\ \A c \in Registered :
       /\ helperIndex[helperInfo[c].uuid].id = c
       /\ \/ ClientType(c) = "Helper"
          \/ /\ closing.next = "helper"
             /\ closing.client = c

\* Every helper that asked for screen information knows the current screen.
ScreenInSync ==
  \A c \in Registered :
    "NEED_SCREEN_INFO" \in helperInfo[c].options => helperInfo[c].screen = screen

\* While the server runs, a message is written to a connected client of the
\* kind it is meant for, or to the connection being torn down; never to
\* another client that got the descriptor.
DeliveryOK ==
  running => \A m \in out :
    \/ m.to = -1
    \/ /\ m.to \in accepted
       /\ m.kind \in {"Any", ClientType(m.to)}
    \/ m.to = closing.client

\* A client that awaits an answer is a controller, and while the server runs
\* every client of the repository has an open connection.
RepositoryOK ==
  \A c \in Known : /\ repo[c].awaited # None => repo[c].type = "PanelController"
                   /\ running => c \in accepted

\* A context that loses the focus becomes the last focused one, and the last
\* focused one changes in no other way, unless its client is torn down.
LastIsPreviousFocus ==
  [][/\ current' # current /\ current.client # -1 =>
          last' = current \/ closing.client = current.client
     /\ last' # last => last' = current \/ closing.client = last.client]_vars

\* A context's registration is changed by its own commands and by the teardown
\* of its client only.  The comments where handles are made (541 and 1839) say
\* so of contexts below 65536.
ContextsIndependent ==
  [][\A c \in Fds, x \in Contexts :
       uuids'[get_helper_ic(c, x)] # uuids[get_helper_ic(c, x)] =>
         closing.client = c \/ recv = [client |-> c, context |-> x]]_vars

\* What the code does say: a registration is changed by no other client, and
\* by no context of its client but those whose ids agree in their low 15 bits.
RegistrationOwned ==
  [][\A c \in Fds, x \in Contexts :
       uuids'[get_helper_ic(c, x)] # uuids[get_helper_ic(c, x)] =>
         \/ closing.client = c
         \/ recv.client = c /\ recv.context % 32768 = x % 32768]_vars

\* A started stop () ends the server's loop.  (The connection it makes to the
\* listening socket is taken to succeed; if it fails, stop () does not notice.)
StopTerminates == shouldExit ~> ~running

=============================================================================
