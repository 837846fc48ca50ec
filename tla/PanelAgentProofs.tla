-------------------------- MODULE PanelAgentProofs --------------------------
(***************************************************************************)
(* Theorems about PanelAgent, for every set of descriptors, contexts,      *)
(* helpers, options and screens: its threads and its tables first, then    *)
(* where its messages go and what its handles say.                         *)
(***************************************************************************)
EXTENDS PanelAgent, TLAPS

-----------------------------------------------------------------------------
(* Frame conditions and facts used by every action.                        *)

\* A part of the state that a step leaves alone keeps its type.
LEMMA Keep ==
  ASSUME TypeOK
  PROVE  /\ UNCHANGED server  => ServerType'
         /\ UNCHANGED focus   => FocusType'
         /\ UNCHANGED uuids   => UuidsType'
         /\ UNCHANGED helpers => HelpersType'
         /\ UNCHANGED <<screen, factory>> => InfoType'
         /\ UNCHANGED thread  => ThreadType'
         /\ UNCHANGED gui     => GuiType'
<1>1. UNCHANGED server  => ServerType'   BY DEF TypeOK, ServerType, server
<1>2. UNCHANGED focus   => FocusType'    BY DEF TypeOK, FocusType, focus
<1>3. UNCHANGED uuids   => UuidsType'    BY DEF TypeOK, UuidsType
<1>4. UNCHANGED helpers => HelpersType'  BY DEF TypeOK, HelpersType, helpers
<1>5. UNCHANGED <<screen, factory>> => InfoType'  BY DEF TypeOK, InfoType
<1>6. UNCHANGED thread  => ThreadType'   BY DEF TypeOK, ThreadType, thread
<1>7. UNCHANGED gui     => GuiType'      BY DEF TypeOK, GuiType, gui
<1>8. QED  BY <1>1, <1>2, <1>3, <1>4, <1>5, <1>6, <1>7

\* The client and the context the socket thread works for, and their handle.
LEMMA RecvType ==
  ASSUME TypeOK, NEW t \in ClientTypes, From(t)
  PROVE  /\ recv.client \in Fds /\ recv.context \in Contexts
         /\ RecvIc \in Ics /\ repo[recv.client].type = t
<1>1. recv.client \in Fds /\ recv.context \in Contexts /\ repo[recv.client].type = t
  BY DEF TypeOK, ThreadType, Received, From, ClientType, ClientTypes
<1>2. QED  BY <1>1 DEF RecvIc, Ics

\* The constants of the tables have their types.
LEMMA EmptyEntries ==
  /\ NoClient \in ClientInfos /\ Nobody \in Holders /\ NoHelper \in HelperInfos
  /\ NoStub \in HelperStubs /\ NoRecv \in Received /\ NoClose \in Teardowns
<1>1. NoClient \in ClientInfos  BY DEF NoClient, ClientInfos
<1>2. Nobody \in Holders  BY PanelAgentAssumption DEF Nobody, Holders
<1>3. NoHelper \in HelperInfos  BY PanelAgentAssumption DEF NoHelper, HelperInfos
<1>4. MaxRef \in Nat  BY PanelAgentAssumption
<1>5. NoStub \in HelperStubs  BY <1>4 DEF NoStub, HelperStubs
<1>6. NoRecv \in Received  BY PanelAgentAssumption DEF NoRecv, Received
<1>7. NoClose \in Teardowns  BY DEF NoClose, Teardowns
<1>8. QED  BY <1>1, <1>2, <1>3, <1>5, <1>6, <1>7

-----------------------------------------------------------------------------
(* Type correctness.                                                       *)

\* The constructor leaves well-typed tables and an idle socket thread.
LEMMA InitType == Init => TypeOK /\ ThreadOK
<1> SUFFICES ASSUME Init PROVE TypeOK /\ ThreadOK  OBVIOUS
<1>1. ServerType /\ FocusType /\ UuidsType
  BY EmptyEntries DEF Init, ServerType, FocusType, UuidsType
<1>2. HelpersType  BY EmptyEntries DEF Init, HelpersType
<1>3. 0 \in Screens  BY PanelAgentAssumption
<1>4. InfoType /\ GuiType  BY <1>3 DEF Init, InfoType, GuiType
<1>5. ThreadType  BY EmptyEntries DEF Init, ThreadType
<1>6. ThreadOK  BY DEF Init, ThreadOK
<1>7. QED  BY <1>1, <1>2, <1>4, <1>5, <1>6 DEF TypeOK

\* Accepting, opening and tearing down a connection keeps the types.
LEMMA ConnectionsType == TypeOK /\ Connections => TypeOK'
<1> SUFFICES ASSUME TypeOK, Connections PROVE TypeOK'  OBVIOUS
<1>1. ASSUME NEW c \in Fds, socket_accept_callback(c) PROVE TypeOK'
  <2>1. ServerType'  BY <1>1 DEF TypeOK, ServerType, socket_accept_callback
  <2>2. QED  BY <1>1, <2>1, Keep DEF socket_accept_callback, TypeOK
<1>2. ASSUME NEW c \in Fds, NEW type \in Types \cup {""}, socket_open_connection(c, type)
      PROVE TypeOK'
  <2> DEFINE info == [type |-> type, awaited |-> None]
  <2>0. type # "" => type \in ClientTypes  BY TypesAssumption
  <2>1. type # "" => info \in ClientInfos  BY <2>0 DEF ClientInfos
  <2>2. ServerType'  BY <1>2, <2>1 DEF TypeOK, ServerType, socket_open_connection
  <2>3. QED  BY <1>2, <2>2, Keep DEF socket_open_connection, TypeOK
<1>3. ASSUME NEW c \in Fds, socket_close_connection(c) PROVE TypeOK'
  <2>1. ServerType'
    BY <1>3, EmptyEntries DEF TypeOK, ServerType, socket_close_connection
  <2>2. closing' \in Teardowns
    BY <1>3, EmptyEntries DEF socket_close_connection, Teardowns
  <2>3. ThreadType'  BY <1>3, <2>2 DEF TypeOK, ThreadType, socket_close_connection
  <2>4. QED  BY <1>3, <2>1, <2>3, Keep DEF socket_close_connection, TypeOK
<1>4. CASE CloseCurrent
  <2>1. FocusType'  BY <1>4, EmptyEntries DEF TypeOK, FocusType, CloseCurrent
  <2>2. ThreadType'  BY <1>4 DEF TypeOK, ThreadType, CloseCurrent, Teardowns
  <2>3. QED  BY <1>4, <2>1, <2>2, Keep DEF CloseCurrent, TypeOK
<1>5. CASE CloseLast
  <2>1. FocusType'  BY <1>5, EmptyEntries DEF TypeOK, FocusType, CloseLast
  <2>2. UuidsType'  BY <1>5 DEF TypeOK, UuidsType, CloseLast
  <2>3. HelpersType'  BY <1>5, Keep DEF CloseLast
  <2>4. ThreadType'  BY <1>5, EmptyEntries DEF TypeOK, ThreadType, CloseLast
  <2>5. QED  BY <1>5, <2>1, <2>2, <2>3, <2>4, Keep DEF CloseLast, TypeOK
<1>6. CASE CloseHelper
  <2>1. HelpersType'  BY <1>6, EmptyEntries DEF TypeOK, HelpersType, CloseHelper
  <2>2. ThreadType'  BY <1>6, EmptyEntries DEF TypeOK, ThreadType, CloseHelper
  <2>3. QED  BY <1>6, <2>1, <2>2, Keep DEF CloseHelper, TypeOK
<1>7. QED  BY <1>1, <1>2, <1>3, <1>4, <1>5, <1>6 DEF Connections

\* Starting and finishing a transaction keeps the types.
LEMMA TransactionType ==
  ASSUME TypeOK, ThreadOK
  PROVE  /\ \A c \in Fds, x \in Contexts : ReceiveTransaction(c, x) => TypeOK'
         /\ EndTransaction => TypeOK'
<1>1. ASSUME NEW c \in Fds, NEW x \in Contexts, ReceiveTransaction(c, x) PROVE TypeOK'
  <2>1. ThreadType'
    BY <1>1 DEF TypeOK, ThreadType, Received, ReceiveTransaction
  <2>2. QED  BY <1>1, <2>1, Keep DEF ReceiveTransaction, TypeOK
<1>2. ASSUME EndTransaction PROVE TypeOK'
  <2>1. ThreadType'
    BY <1>2, EmptyEntries DEF TypeOK, ThreadType, EndTransaction
  <2>2. QED  BY <1>2, <2>1, Keep DEF EndTransaction, TypeOK
<1>3. QED  BY <1>1, <1>2

\* The commands of a front end keep the types.
LEMMA FrontEndType == TypeOK /\ FrontEndCommand => TypeOK'
<1> SUFFICES ASSUME TypeOK, FrontEndCommand PROVE TypeOK'  OBVIOUS
<1>0. From("FrontEnd") => recv.client \in Fds /\ recv.context \in Contexts /\ RecvIc \in Ics
  BY RecvType DEF ClientTypes
<1>1. ASSUME NEW u \in Uuids, register_input_context(u) PROVE TypeOK'
  <2>1. UuidsType'  BY <1>1 DEF TypeOK, UuidsType, register_input_context
  <2>2. QED  BY <1>1, <2>1, Keep DEF register_input_context, TypeOK
<1>2. ASSUME NEW u \in Uuids, focus_in(u) PROVE TypeOK'
  <2>1. FocusType'  BY <1>0, <1>2 DEF TypeOK, FocusType, Holders, focus_in
  <2>2. QED  BY <1>2, <2>1, Keep DEF focus_in, TypeOK
<1>3. CASE remove_input_context
  <2>1. UuidsType'  BY <1>3 DEF TypeOK, UuidsType, remove_input_context
  <2>2. QED  BY <1>3, <2>1, Keep DEF remove_input_context, TypeOK
<1>4. CASE focus_out
  <2>1. FocusType'  BY <1>4, EmptyEntries DEF TypeOK, FocusType, focus_out
  <2>2. QED  BY <1>4, <2>1, Keep DEF focus_out, TypeOK
<1>5. CASE update_panel \/ socket_update_spot_location
  BY <1>5, Keep DEF update_panel, socket_update_spot_location, TypeOK
<1>6. ASSUME NEW s \in Screens, socket_update_screen(s) PROVE TypeOK'
  <2>1. HelpersType'
    BY <1>6 DEF TypeOK, HelpersType, HelperInfos, socket_update_screen,
          helper_all_update_screen, Interested
  <2>2. InfoType'  BY <1>6 DEF TypeOK, InfoType, socket_update_screen
  <2>3. QED  BY <1>6, <2>1, <2>2, Keep DEF socket_update_screen, TypeOK
<1>7. ASSUME NEW f \in Factories, socket_update_factory_info(f) PROVE TypeOK'
  <2>1. ServerType'
    BY <1>7 DEF TypeOK, ServerType, ClientInfos, socket_update_factory_info, Waiting,
                InformWaiting, Known
  <2>2. InfoType'  BY <1>7 DEF TypeOK, InfoType, socket_update_factory_info
  <2>3. QED  BY <1>7, <2>1, <2>2, Keep DEF socket_update_factory_info, TypeOK
<1>8. CASE socket_show_factory_menu
  <2>1. ServerType'
    BY <1>8 DEF TypeOK, ServerType, ClientInfos, socket_show_factory_menu, Waiting,
                InformWaiting, Known
  <2>2. QED  BY <1>8, <2>1, Keep DEF socket_show_factory_menu, TypeOK
<1>9. ASSUME NEW u \in HelperUuids, socket_start_helper(u) PROVE TypeOK'
  <2>0. MaxRef \in Nat  BY PanelAgentAssumption
  <2>1. helperIndex' \in [HelperUuids -> HelperStubs]
    BY <1>9, <2>0 DEF TypeOK, HelpersType, HelperStubs, socket_start_helper
  <2>2. HelpersType'
    BY <1>0, <1>9, <2>1 DEF TypeOK, HelpersType, socket_start_helper
  <2>3. QED  BY <1>9, <2>2, Keep DEF socket_start_helper, TypeOK
<1>10. ASSUME NEW u \in HelperUuids, socket_stop_helper(u) PROVE TypeOK'
  <2>0. MaxRef \in Nat  BY PanelAgentAssumption
  <2>1. helperIndex' \in [HelperUuids -> HelperStubs]
    BY <1>10, <2>0 DEF TypeOK, HelpersType, HelperStubs, socket_stop_helper
  <2>2. HelpersType'
    BY <1>10, <2>1 DEF TypeOK, HelpersType, socket_stop_helper
  <2>3. QED  BY <1>10, <2>2, Keep DEF socket_stop_helper, TypeOK
<1>11. ASSUME NEW u \in HelperUuids, socket_send_helper_event(u) PROVE TypeOK'
  BY <1>11, Keep DEF socket_send_helper_event, TypeOK
<1>12. QED
  BY <1>1, <1>2, <1>3, <1>4, <1>5, <1>6, <1>7, <1>8, <1>9, <1>10, <1>11 DEF FrontEndCommand

\* The commands of a helper keep the types.
LEMMA HelperType == TypeOK /\ HelperCommand => TypeOK'
<1> SUFFICES ASSUME TypeOK, HelperCommand PROVE TypeOK'  OBVIOUS
<1>1. ASSUME NEW u \in HelperUuids, NEW opts \in HelperOptions,
             socket_helper_register_helper(u, opts)
      PROVE TypeOK'
  <2>1. recv.client \in Fds
    BY <1>1, RecvType DEF ClientTypes, socket_helper_register_helper
  <2>2. opts \in SUBSET Options  BY OptionsAssumption
  <2>m. MaxRef \in Nat  BY PanelAgentAssumption
  <2>3. [uuid |-> u, options |-> opts, screen |-> screen] \in HelperInfos
    BY <2>2 DEF TypeOK, InfoType, HelperInfos
  <2>4. [id |-> recv.client, ref |-> 1] \in HelperStubs
    BY <2>1, <2>m DEF HelperStubs
  <2>5. HelpersType'
    BY <1>1, <2>1, <2>3, <2>4 DEF TypeOK, HelpersType, socket_helper_register_helper
  <2>6. QED  BY <1>1, <2>5, Keep DEF socket_helper_register_helper, TypeOK
<1>2. ASSUME NEW ic, NEW u, socket_helper_to_focus(ic, u) PROVE TypeOK'
  BY <1>2, Keep DEF socket_helper_to_focus, TypeOK
<1>3. ASSUME NEW ic, socket_helper_send_imengine_event(ic) PROVE TypeOK'
  BY <1>3, Keep DEF socket_helper_send_imengine_event, TypeOK
<1>4. CASE socket_helper_properties \/ socket_helper_reload_config
  BY <1>4, Keep DEF socket_helper_properties, socket_helper_reload_config, TypeOK
<1>5. QED  BY <1>1, <1>2, <1>3, <1>4 DEF HelperCommand

\* The commands of a panel controller keep the types.
LEMMA ControllerType == TypeOK /\ ControllerCommand => TypeOK'
<1> SUFFICES ASSUME TypeOK, ControllerCommand PROVE TypeOK'  OBVIOUS
<1>1. CASE IgnoreController
  <2>1. ThreadType'  BY <1>1, EmptyEntries DEF TypeOK, ThreadType, IgnoreController
  <2>2. QED  BY <1>1, <2>1, Keep DEF IgnoreController, TypeOK
<1>2. ASSUME NEW cmd \in Awaitable, ControllerRequest(cmd) PROVE TypeOK'
  <2>1. ServerType'
    BY <1>2 DEF TypeOK, ServerType, ClientInfos, ControllerRequest
  <2>2. QED  BY <1>2, <2>1, Keep DEF ControllerRequest, TypeOK
<1>3. CASE ControllerQuery  BY <1>3, Keep DEF ControllerQuery, TypeOK
<1>4. QED  BY <1>1, <1>2, <1>3 DEF ControllerCommand

\* The public methods called by the GUI thread keep the types.
LEMMA GuiThreadType == TypeOK /\ (GuiThread \/ AcceptWake) => TypeOK'
<1> SUFFICES ASSUME TypeOK, GuiThread \/ AcceptWake PROVE TypeOK'  OBVIOUS
<1>1. CASE UiRequest \/ reload_config
  BY <1>1, Keep DEF UiRequest, reload_config, TypeOK
<1>2. ASSUME NEW c \in Fds, trigger_helper_property(c) PROVE TypeOK'
  BY <1>2, Keep DEF trigger_helper_property, TypeOK
<1>3. ASSUME NEW u \in HelperUuids, start_helper(u) PROVE TypeOK'
  BY <1>3, Keep DEF start_helper, TypeOK
<1>4. CASE exit \/ stop \/ Connect
  <2>1. GuiType'  BY <1>4 DEF TypeOK, GuiType, exit, stop, Connect
  <2>2. QED  BY <1>4, <2>1, Keep DEF exit, stop, Connect, TypeOK
<1>5. CASE AcceptWake
  <2>1. ServerType'  BY <1>5 DEF TypeOK, ServerType, AcceptWake
  <2>2. GuiType'  BY <1>5 DEF TypeOK, GuiType, AcceptWake
  <2>3. QED  BY <1>5, <2>1, <2>2, Keep DEF AcceptWake, TypeOK
<1>6. QED  BY <1>1, <1>2, <1>3, <1>4, <1>5 DEF GuiThread

-----------------------------------------------------------------------------
(* Most steps leave the tables alone.  Quiet is what they have in common;  *)
(* Loud lists the others.                                                  *)

core == <<focus, uuids, helperInfo, helperIndex, screen, closing>>
SameTypes == \A c \in Fds : repo'[c].type = repo[c].type
Quiet == SameTypes /\ UNCHANGED core

Loud ==
  \/ \E c \in Fds : \/ \E type \in Types : socket_open_connection(c, type)
                    \/ socket_close_connection(c)
  \/ CloseCurrent \/ CloseLast \/ CloseHelper
  \/ \E u \in Uuids : register_input_context(u) \/ focus_in(u)
  \/ remove_input_context \/ focus_out
  \/ \E s \in Screens : socket_update_screen(s)
  \/ \E u \in HelperUuids : socket_start_helper(u) \/ socket_stop_helper(u)
  \/ \E u \in HelperUuids, opts \in HelperOptions :
       socket_helper_register_helper(u, opts)

\* Every step either leaves the tables a focus or helper proof looks at alone
\* (Quiet), or is one of the few actions that write them (Loud).
LEMMA QuietOrLoud == TypeOK /\ Next => Quiet \/ Loud
<1> SUFFICES ASSUME TypeOK, Next PROVE Quiet \/ Loud  OBVIOUS
<1>0. UNCHANGED repo => SameTypes  BY DEF SameTypes
<1> USE DEF Quiet, core
<1>1. CASE Connections
  <2>1. ASSUME NEW c \in Fds, socket_accept_callback(c) PROVE Quiet
    BY <1>0, <2>1 DEF socket_accept_callback, helpers, thread
  <2>2. ASSUME NEW c \in Fds, socket_open_connection(c, "") PROVE Quiet
    BY <1>0, <2>2 DEF socket_open_connection, helpers, thread
  <2>3. QED  BY <1>1, <2>1, <2>2 DEF Connections, Loud
<1>2. ASSUME NEW c \in Fds, NEW x \in Contexts, ReceiveTransaction(c, x) PROVE Quiet
  BY <1>0, <1>2 DEF ReceiveTransaction, server, helpers
<1>3. CASE EndTransaction  BY <1>0, <1>3 DEF EndTransaction, server, helpers
<1>4. CASE FrontEndCommand
  <2>1. CASE update_panel \/ socket_update_spot_location
    BY <1>0, <2>1 DEF update_panel, socket_update_spot_location, server, helpers, thread
  <2>2. ASSUME NEW f \in Factories, socket_update_factory_info(f) PROVE Quiet
    <3>1. SameTypes
      BY <2>2 DEF SameTypes, socket_update_factory_info, InformWaiting, Waiting, Known,
                  TypeOK, ServerType, ClientInfos
    <3>2. QED  BY <2>2, <3>1 DEF socket_update_factory_info, helpers, thread
  <2>3. CASE socket_show_factory_menu
    <3>1. SameTypes
      BY <2>3 DEF SameTypes, socket_show_factory_menu, InformWaiting, Waiting, Known,
                  TypeOK, ServerType, ClientInfos
    <3>2. QED  BY <2>3, <3>1 DEF socket_show_factory_menu, helpers, thread
  <2>4. ASSUME NEW u \in HelperUuids, socket_send_helper_event(u) PROVE Quiet
    BY <1>0, <2>4 DEF socket_send_helper_event, server, helpers, thread
  <2>5. QED  BY <1>4, <2>1, <2>2, <2>3, <2>4 DEF FrontEndCommand, Loud
<1>5. CASE HelperCommand
  <2>1. ASSUME NEW ic, NEW u, socket_helper_to_focus(ic, u) PROVE Quiet
    BY <1>0, <2>1 DEF socket_helper_to_focus, server, helpers, thread
  <2>2. ASSUME NEW ic, socket_helper_send_imengine_event(ic) PROVE Quiet
    BY <1>0, <2>2 DEF socket_helper_send_imengine_event, server, helpers, thread
  <2>3. CASE socket_helper_properties \/ socket_helper_reload_config
    BY <1>0, <2>3 DEF socket_helper_properties, socket_helper_reload_config, server,
                      helpers, thread
  <2>4. QED  BY <1>5, <2>1, <2>2, <2>3 DEF HelperCommand, Loud
<1>6. CASE ControllerCommand
  <2>1. CASE IgnoreController \/ ControllerQuery
    BY <1>0, <2>1 DEF IgnoreController, ControllerQuery, server, helpers, thread
  <2>2. ASSUME NEW cmd \in Awaitable, ControllerRequest(cmd) PROVE Quiet
    <3>1. SameTypes
      BY <2>2 DEF SameTypes, ControllerRequest, TypeOK, ServerType, ClientInfos
    <3>2. QED  BY <2>2, <3>1 DEF ControllerRequest, helpers, thread
  <2>3. QED  BY <1>6, <2>1, <2>2 DEF ControllerCommand
<1>7. CASE GuiThread
  <2>1. CASE UiRequest \/ reload_config
    BY <1>0, <2>1 DEF UiRequest, reload_config, server, helpers, thread
  <2>2. CASE exit \/ stop \/ Connect
    BY <1>0, <2>2 DEF exit, stop, Connect, server, helpers, thread
  <2>3. ASSUME NEW c \in Fds, trigger_helper_property(c) PROVE Quiet
    BY <1>0, <2>3 DEF trigger_helper_property, server, helpers, thread
  <2>4. ASSUME NEW u \in HelperUuids, start_helper(u) PROVE Quiet
    BY <1>0, <2>4 DEF start_helper, server, helpers, thread
  <2>5. QED  BY <1>7, <2>1, <2>2, <2>3, <2>4 DEF GuiThread
<1>8. CASE AcceptWake  BY <1>0, <1>8 DEF AcceptWake, helpers, thread
<1>9. QED  BY <1>1, <1>2, <1>3, <1>4, <1>5, <1>6, <1>7, <1>8 DEF Next, SocketThread

-----------------------------------------------------------------------------
(* The socket thread, and the first two theorems.                          *)

\* The socket thread keeps working on one thing at a time.
LEMMA ThreadStep == TypeOK /\ ThreadOK /\ Next => ThreadOK'
<1> SUFFICES ASSUME TypeOK, ThreadOK, Next PROVE ThreadOK'  OBVIOUS
<1>0. SameTypes => Known' = Known  BY DEF SameTypes, Known
<1>1. ASSUME Quiet, UNCHANGED recv PROVE ThreadOK'
  BY <1>0, <1>1 DEF ThreadOK, Quiet, core
<1>2. ASSUME NEW c \in Fds, NEW x \in Contexts, ReceiveTransaction(c, x) PROVE ThreadOK'
  BY <1>2 DEF ReceiveTransaction, ThreadOK, Idle, Known, server, TypeOK, ThreadType, NoRecv
<1>3. CASE EndTransaction \/ IgnoreController
  BY <1>3 DEF EndTransaction, IgnoreController, ThreadOK, Known, server
<1>4. CASE Quiet /\ ~UNCHANGED recv
  <2>1. CASE Connections
    BY <1>4, <2>1 DEF Connections, socket_accept_callback, socket_open_connection,
       socket_close_connection, CloseCurrent, CloseLast, CloseHelper, thread
  <2>2. CASE FrontEndCommand
    BY <1>4, <2>2 DEF FrontEndCommand, register_input_context, focus_in,
       remove_input_context, focus_out, update_panel, socket_update_screen,
       socket_update_spot_location, socket_update_factory_info,
       socket_show_factory_menu, socket_start_helper, socket_stop_helper,
       socket_send_helper_event, thread
  <2>3. CASE HelperCommand
    BY <1>4, <2>3 DEF HelperCommand, socket_helper_register_helper,
       socket_helper_to_focus, socket_helper_send_imengine_event,
       socket_helper_properties, socket_helper_reload_config, thread
  <2>4. CASE ControllerCommand
    BY <1>3, <1>4, <2>4 DEF ControllerCommand, ControllerRequest, ControllerQuery, thread
  <2>5. CASE GuiThread \/ AcceptWake
    BY <1>4, <2>5 DEF GuiThread, UiRequest, reload_config, exit, stop, Connect,
       trigger_helper_property, start_helper, AcceptWake, thread
  <2>6. QED  BY <1>2, <1>3, <2>1, <2>2, <2>3, <2>4, <2>5 DEF Next, SocketThread
<1>5. CASE Loud
  <2>1. ASSUME NEW c \in Fds, NEW type \in Types, socket_open_connection(c, type)
        PROVE ThreadOK'
    BY <2>1 DEF socket_open_connection, ThreadOK, Idle, thread
  <2>2. ASSUME NEW c \in Fds, socket_close_connection(c) PROVE ThreadOK'
    <3>1. recv' = NoRecv  BY <2>2 DEF socket_close_connection, Idle
    <3>2. c \notin Known'
      BY <2>2 DEF socket_close_connection, Known, NoClient, TypeOK, ServerType
    <3>3. closing' # NoClose => closing'.client = c /\ closing'.next # None
      BY <2>2 DEF socket_close_connection, None
    <3>4. QED  BY <3>1, <3>2, <3>3 DEF ThreadOK
  <2>3. CASE CloseCurrent
    <3>1. closing # NoClose  BY <2>3 DEF CloseCurrent, NoClose, None
    <3>2. Known' = Known  BY <2>3 DEF CloseCurrent, server, Known
    <3>3. QED  BY <2>3, <3>1, <3>2 DEF CloseCurrent, ThreadOK, None
  <2>4. CASE CloseLast \/ CloseHelper
    <3>1. closing # NoClose  BY <2>4 DEF CloseLast, CloseHelper, NoClose, None
    <3>2. QED  BY <2>4, <3>1 DEF CloseLast, CloseHelper, ThreadOK
  <2>5. ASSUME UNCHANGED <<server, thread>> PROVE ThreadOK'
    BY <2>5 DEF ThreadOK, Known, server, thread
  <2>6. CASE \/ \E u \in Uuids : register_input_context(u) \/ focus_in(u)
             \/ remove_input_context \/ focus_out
    BY <2>5, <2>6 DEF register_input_context, focus_in, remove_input_context, focus_out
  <2>7. CASE \/ \E s \in Screens : socket_update_screen(s)
             \/ \E u \in HelperUuids : socket_start_helper(u) \/ socket_stop_helper(u)
             \/ \E u \in HelperUuids, opts \in HelperOptions :
                  socket_helper_register_helper(u, opts)
    BY <2>5, <2>7 DEF socket_update_screen, socket_start_helper, socket_stop_helper,
       socket_helper_register_helper
  <2>8. QED  BY <1>5, <2>1, <2>2, <2>3, <2>4, <2>6, <2>7 DEF Loud
<1>6. QED  BY <1>1, <1>4, <1>5, QuietOrLoud

\* One step keeps the types, given what the socket thread is doing.
LEMMA TypeStep == TypeOK /\ ThreadOK /\ [Next]_vars => TypeOK' /\ ThreadOK'
<1> SUFFICES ASSUME TypeOK, ThreadOK, [Next]_vars PROVE TypeOK' /\ ThreadOK'  OBVIOUS
<1>1. CASE Next
  BY <1>1, ConnectionsType, TransactionType, FrontEndType, HelperType, ControllerType,
     GuiThreadType, ThreadStep DEF Next, SocketThread
<1>2. CASE UNCHANGED vars
  <2>1. TypeOK'  BY <1>2, Keep DEF vars, TypeOK
  <2>2. ThreadOK'  BY <1>2 DEF vars, server, thread, ThreadOK, Known
  <2>3. QED  BY <2>1, <2>2
<1>3. QED  BY <1>1, <1>2

\* Every table of PanelAgentImpl keeps its type, which needs ThreadOK as an
\* inductive strengthening.
THEOREM TypeCorrect == Spec => []TypeOK
<1>1. Init => TypeOK /\ ThreadOK  BY InitType
<1>2. TypeOK /\ ThreadOK /\ [Next]_vars => (TypeOK /\ ThreadOK)'  BY TypeStep
<1>3. QED  BY <1>1, <1>2, PTL DEF Spec

\* The socket thread never works on a transaction of a client it is tearing
\* down or has torn down (socket_receive_callback, socket_close_connection).
THEOREM ThreadSafe == Spec => []ThreadOK
<1>1. Init => TypeOK /\ ThreadOK  BY InitType
<1>2. TypeOK /\ ThreadOK /\ [Next]_vars => (TypeOK /\ ThreadOK)'  BY TypeStep
<1>3. QED  BY <1>1, <1>2, PTL DEF Spec

-----------------------------------------------------------------------------
(* The focus.                                                              *)

\* A descriptor is never negative.
LEMMA FdsPositive == -1 \notin Fds
BY FdsAssumption

\* No step leaves the focus with a client that is gone.
LEMMA FocusStep == TypeOK /\ ThreadOK /\ FocusLive /\ [Next]_vars => FocusLive'
<1> SUFFICES ASSUME TypeOK, ThreadOK, FocusLive, [Next]_vars PROVE FocusLive'  OBVIOUS
<1>1. ASSUME Quiet PROVE FocusLive'
  BY <1>1 DEF Quiet, core, SameTypes, focus, FocusLive, ClientType
<1>2. ASSUME UNCHANGED <<server, thread, focus>> PROVE FocusLive'
  BY <1>2 DEF server, thread, focus, FocusLive, ClientType
<1>3. CASE Loud
  <2>1. ASSUME NEW c \in Fds, NEW type \in Types, socket_open_connection(c, type)
        PROVE FocusLive'
    <3>1. closing = NoClose /\ closing.next = None /\ closing' = closing
      BY <2>1 DEF socket_open_connection, Idle, NoClose, thread
    <3>2. \A d \in Fds : repo[d].type = "FrontEnd" => repo'[d] = repo[d]
      BY <2>1 DEF socket_open_connection, TypeOK, ServerType
    <3>3. QED  BY <2>1, <3>1, <3>2 DEF socket_open_connection, focus, FocusLive, ClientType, None
  <2>2. ASSUME NEW c \in Fds, socket_close_connection(c) PROVE FocusLive'
    <3>1. closing.next = None  BY <2>2 DEF socket_close_connection, Idle, NoClose
    <3>2. \A d \in Fds : d # c => repo'[d] = repo[d]
      BY <2>2 DEF socket_close_connection, TypeOK, ServerType
    <3>3. repo[c].type = "FrontEnd" => closing' = [client |-> c, next |-> "current"]
      BY <2>2 DEF socket_close_connection
    <3>4. QED  BY <2>2, <3>1, <3>2, <3>3 DEF socket_close_connection, focus, FocusLive,
               ClientType, None
  <2>3. CASE CloseCurrent
    <3>1. current' = current \/ current' = Nobody
      BY <2>3 DEF CloseCurrent
    <3>2. current' = current => current.client # closing.client \/ current.client = -1
      BY <2>3 DEF CloseCurrent, Nobody
    <3>3. UNCHANGED <<repo, last>> /\ closing' = [client |-> closing.client, next |-> "last"]
      BY <2>3 DEF CloseCurrent, server
    <3>4. QED  BY <2>3, <3>1, <3>2, <3>3 DEF FocusLive, ClientType, Nobody
  <2>4. CASE CloseLast
    <3>1. last' = last \/ last' = Nobody
      BY <2>4 DEF CloseLast
    <3>2. last' = last => last.client # closing.client \/ last.client = -1
      BY <2>4 DEF CloseLast, Nobody
    <3>3. UNCHANGED <<repo, current>> /\ closing.next = "last"
      BY <2>4 DEF CloseLast, server
    <3>4. QED  BY <3>1, <3>2, <3>3 DEF FocusLive, ClientType, Nobody
  <2>5. CASE CloseHelper
    BY <2>5 DEF CloseHelper, server, focus, FocusLive, ClientType
  <2>6. ASSUME NEW u \in Uuids, focus_in(u) PROVE FocusLive'
    <3>1. ClientType(recv.client) = "FrontEnd" /\ closing = NoClose
      BY <2>6 DEF focus_in, From, ThreadOK
    <3>2. UNCHANGED <<repo, closing>>  BY <2>6 DEF focus_in, server, thread
    <3>3. closing.next = None  BY <3>1 DEF NoClose
    <3>4. current'.client = recv.client  BY <2>6 DEF focus_in
    <3>5. (last' = current /\ current.client >= 0) \/ last' = last
      BY <2>6 DEF focus_in
    <3>6. QED
      BY <3>1, <3>2, <3>3, <3>4, <3>5 DEF FocusLive, ClientType, None
  <2>7. CASE focus_out
    <3>1. closing = NoClose  BY <2>7 DEF focus_out, From, ThreadOK
    <3>2. UNCHANGED <<repo, closing>>  BY <2>7 DEF focus_out, server, thread
    <3>3. closing.next = None  BY <3>1 DEF NoClose
    <3>4. current'.client = -1  BY <2>7 DEF focus_out, Nobody
    <3>5. last' = current \/ last' = last  BY <2>7 DEF focus_out
    <3>6. QED  BY <3>2, <3>3, <3>4, <3>5 DEF FocusLive, ClientType, None
  <2>8. CASE \/ \E u \in Uuids : register_input_context(u)
             \/ remove_input_context
             \/ \E s \in Screens : socket_update_screen(s)
             \/ \E u \in HelperUuids : socket_start_helper(u) \/ socket_stop_helper(u)
             \/ \E u \in HelperUuids, opts \in HelperOptions :
                  socket_helper_register_helper(u, opts)
    BY <1>2, <2>8 DEF register_input_context, remove_input_context,
       socket_update_screen, socket_start_helper, socket_stop_helper,
       socket_helper_register_helper
  <2>9. QED  BY <1>3, <2>1, <2>2, <2>3, <2>4, <2>5, <2>6, <2>7, <2>8 DEF Loud
<1>4. CASE UNCHANGED vars  BY <1>2, <1>4 DEF vars
<1>5. QED  BY <1>1, <1>3, <1>4, QuietOrLoud

\* The focus is never left with a client that is gone: m_current_socket_client
\* and m_last_socket_client name connected front ends, up to the section of
\* socket_close_connection that clears them.
THEOREM FocusSafe == Spec => []FocusLive
<1>1. Init => FocusLive  BY DEF Init, FocusLive, Nobody
<1>2. TypeOK /\ ThreadOK /\ FocusLive /\ [Next]_vars => FocusLive'  BY FocusStep
<1>3. QED  BY <1>1, <1>2, TypeCorrect, ThreadSafe, PTL DEF Spec

-----------------------------------------------------------------------------
(* The helper tables.                                                      *)

\* No step separates the two helper tables.
LEMMA HelperStep == TypeOK /\ ThreadOK /\ HelperBijection /\ [Next]_vars => HelperBijection'
<1> SUFFICES ASSUME TypeOK, ThreadOK, HelperBijection, [Next]_vars
             PROVE  HelperBijection'
  OBVIOUS
<1>0. NoUuid \notin HelperUuids  BY PanelAgentAssumption
<1>1. ASSUME SameTypes, UNCHANGED <<helperInfo, helperIndex, closing>>
      PROVE HelperBijection'
  BY <1>1 DEF SameTypes, HelperBijection, Registered, ClientType
<1>2. ASSUME UNCHANGED <<server, thread, helperInfo, helperIndex>> PROVE HelperBijection'
  BY <1>1, <1>2 DEF server, thread, SameTypes
<1>3. CASE Loud
  <2>1. ASSUME NEW c \in Fds, NEW type \in Types, socket_open_connection(c, type)
        PROVE HelperBijection'
    <3>1. closing.next = None /\ closing' = closing
      BY <2>1 DEF socket_open_connection, Idle, NoClose, thread
    <3>2. \A d \in Fds : repo[d].type = "Helper" => repo'[d] = repo[d]
      BY <2>1 DEF socket_open_connection, TypeOK, ServerType
    <3>3. UNCHANGED <<helperInfo, helperIndex>>
      BY <2>1 DEF socket_open_connection, helpers
    <3>4. QED  BY <3>1, <3>2, <3>3 DEF HelperBijection, Registered, ClientType, None
  <2>2. ASSUME NEW c \in Fds, socket_close_connection(c) PROVE HelperBijection'
    <3>1. closing.next = None  BY <2>2 DEF socket_close_connection, Idle, NoClose
    <3>2. \A d \in Fds : d # c => repo'[d] = repo[d]
      BY <2>2 DEF socket_close_connection, TypeOK, ServerType
    <3>3. repo[c].type = "Helper" => closing' = [client |-> c, next |-> "helper"]
      BY <2>2 DEF socket_close_connection
    <3>4. UNCHANGED <<helperInfo, helperIndex>>
      BY <2>2 DEF socket_close_connection, helpers
    <3>5. QED  BY <3>1, <3>2, <3>3, <3>4 DEF HelperBijection, Registered, ClientType, None
  <2>3. CASE CloseCurrent
    BY <2>3 DEF CloseCurrent, server, helpers, HelperBijection, Registered, ClientType
  <2>4. CASE CloseLast
    BY <2>4 DEF CloseLast, server, helpers, HelperBijection, Registered, ClientType
  <2>5. CASE CloseHelper
    <3> DEFINE c == closing.client
               u == helperInfo[c].uuid
    <3>1. c \in Fds  BY <2>5 DEF CloseHelper, ThreadOK, NoClose, None
    <3>2. helperInfo' = [helperInfo EXCEPT ![c] = NoHelper]  BY <2>5 DEF CloseHelper
    <3>3. helperIndex' = IF u # NoUuid THEN [helperIndex EXCEPT ![u] = NoStub]
                                       ELSE helperIndex
      BY <2>5 DEF CloseHelper
    <3>4. UNCHANGED repo /\ closing.next = "helper"  BY <2>5 DEF CloseHelper, server
    <3>5. helperInfo'[c].uuid = NoUuid /\ \A d \in Fds \ {c} : helperInfo'[d] = helperInfo[d]
      BY <3>1, <3>2 DEF TypeOK, HelpersType, NoHelper
    <3>6. ASSUME NEW v \in HelperUuids, helperIndex'[v] # NoStub
          PROVE helperIndex'[v].id \in Fds /\ helperInfo'[helperIndex'[v].id].uuid = v
      <4>1. helperIndex'[v] = helperIndex[v] /\ v # u
        BY <1>0, <3>3, <3>6 DEF TypeOK, HelpersType
      <4>2. helperIndex[v].id \in Fds /\ helperInfo[helperIndex[v].id].uuid = v
        BY <3>6, <4>1 DEF HelperBijection
      <4>3. QED  BY <3>5, <4>1, <4>2
    <3>7. ASSUME NEW d \in Registered'
          PROVE /\ helperIndex'[helperInfo'[d].uuid].id = d
                /\ ClientType(d)' = "Helper"
      <4>1. d \in Registered /\ d # c /\ helperInfo'[d] = helperInfo[d]
        BY <3>5 DEF Registered
      <4>2. helperIndex[helperInfo[d].uuid].id = d  BY <4>1 DEF HelperBijection
      <4>3. helperInfo[d].uuid \in HelperUuids
        BY <4>1 DEF Registered, TypeOK, HelpersType, HelperInfos
      <4>4. helperInfo[d].uuid # u
        BY <3>1, <4>1, <4>2 DEF HelperBijection, Registered
      <4>5. helperIndex'[helperInfo[d].uuid] = helperIndex[helperInfo[d].uuid]
        BY <3>3, <4>3, <4>4 DEF TypeOK, HelpersType
      <4>6. ClientType(d) = "Helper"  BY <4>1 DEF HelperBijection
      <4>7. QED  BY <3>4, <4>1, <4>2, <4>5, <4>6 DEF ClientType
    <3>8. QED  BY <3>6, <3>7 DEF HelperBijection
  <2>6. ASSUME NEW u \in HelperUuids, NEW opts \in HelperOptions,
               socket_helper_register_helper(u, opts)
        PROVE HelperBijection'
    <3> DEFINE c == recv.client
    <3>0. From("Helper") /\ c \notin Registered
      BY <2>6 DEF socket_helper_register_helper
    <3>1. c \in Fds /\ ClientType(c) = "Helper"
      BY <3>0, RecvType DEF ClientTypes, From
    <3>2. UNCHANGED <<repo, closing>>
      BY <2>6 DEF socket_helper_register_helper, server, thread
    <3>3. CASE helperIndex[u] # NoStub
      <4>1. UNCHANGED <<helperInfo, helperIndex>>
        BY <2>6, <3>3 DEF socket_helper_register_helper
      <4>2. QED  BY <1>1, <3>2, <4>1 DEF SameTypes
    <3>4. CASE helperIndex[u] = NoStub
      <4>1. helperInfo'[c].uuid = u /\ \A d \in Fds \ {c} : helperInfo'[d] = helperInfo[d]
        BY <2>6, <3>1, <3>4 DEF socket_helper_register_helper, TypeOK, HelpersType
      <4>2. /\ helperIndex'[u].id = c
            /\ \A v \in HelperUuids \ {u} : helperIndex'[v] = helperIndex[v]
        BY <2>6, <3>4 DEF socket_helper_register_helper, TypeOK, HelpersType
      <4>3. \A d \in Registered : helperInfo[d].uuid \in HelperUuids \ {u}
        BY <3>4, FdsPositive DEF Registered, HelperBijection, NoStub, TypeOK, HelpersType,
           HelperInfos
      <4>4. ASSUME NEW v \in HelperUuids, helperIndex'[v] # NoStub
            PROVE helperIndex'[v].id \in Fds /\ helperInfo'[helperIndex'[v].id].uuid = v
        <5>1. CASE v = u  BY <3>1, <4>1, <4>2, <5>1
        <5>2. CASE v # u
          <6>1. helperIndex[v].id \in Fds /\ helperInfo[helperIndex[v].id].uuid = v
            BY <4>2, <4>4, <5>2 DEF HelperBijection
          <6>2. helperIndex[v].id # c  BY <1>0, <3>0, <6>1 DEF Registered
          <6>3. QED  BY <4>1, <4>2, <5>2, <6>1, <6>2
        <5>3. QED  BY <5>1, <5>2
      <4>5. ASSUME NEW d \in Registered'
            PROVE /\ helperIndex'[helperInfo'[d].uuid].id = d
                  /\ \/ ClientType(d)' = "Helper"
                     \/ closing'.next = "helper" /\ closing'.client = d
        <5>1. CASE d = c  BY <3>1, <3>2, <4>1, <4>2, <5>1 DEF ClientType
        <5>2. CASE d # c
          <6>1. d \in Registered /\ helperInfo'[d] = helperInfo[d]
            BY <4>1, <5>2 DEF Registered
          <6>2. helperIndex'[helperInfo[d].uuid] = helperIndex[helperInfo[d].uuid]
            BY <4>2, <4>3, <6>1
          <6>3. QED  BY <3>2, <6>1, <6>2 DEF HelperBijection, ClientType
        <5>3. QED  BY <5>1, <5>2
      <4>6. QED  BY <4>4, <4>5 DEF HelperBijection
    <3>5. QED  BY <3>3, <3>4
  <2>7. ASSUME NEW u \in HelperUuids, socket_start_helper(u) \/ socket_stop_helper(u)
        PROVE HelperBijection'
    <3>1. UNCHANGED <<repo, closing, helperInfo>>
      BY <2>7 DEF socket_start_helper, socket_stop_helper, server, thread
    <3>2. \A v \in HelperUuids : helperIndex'[v].id = helperIndex[v].id
      BY <2>7 DEF socket_start_helper, socket_stop_helper, TypeOK, HelpersType, HelperStubs
    <3>3. \A v \in HelperUuids : helperIndex[v] = NoStub => helperIndex'[v] = NoStub
      BY <2>7 DEF socket_start_helper, socket_stop_helper, TypeOK, HelpersType
    <3>4. \A d \in Registered : helperInfo[d].uuid \in HelperUuids
      BY DEF Registered, TypeOK, HelpersType, HelperInfos
    <3>5. QED  BY <3>1, <3>2, <3>3, <3>4 DEF HelperBijection, Registered, ClientType
  <2>8. ASSUME NEW s \in Screens, socket_update_screen(s) PROVE HelperBijection'
    <3>1. \A d \in Fds : helperInfo'[d].uuid = helperInfo[d].uuid
      BY <2>8 DEF socket_update_screen, helper_all_update_screen, Interested,
                    TypeOK, HelpersType, HelperInfos
    <3>2. UNCHANGED <<repo, closing, helperIndex>>
      BY <2>8 DEF socket_update_screen, server, thread
    <3>3. QED  BY <3>1, <3>2 DEF HelperBijection, Registered, ClientType
  <2>9. CASE \/ \E u \in Uuids : register_input_context(u) \/ focus_in(u)
             \/ remove_input_context \/ focus_out
    BY <1>2, <2>9 DEF register_input_context, remove_input_context, focus_in, focus_out,
       helpers
  <2>10. QED
    BY <1>3, <2>1, <2>2, <2>3, <2>4, <2>5, <2>6, <2>7, <2>8, <2>9 DEF Loud
<1>4. CASE Quiet  BY <1>1, <1>4 DEF Quiet, core
<1>5. CASE UNCHANGED vars  BY <1>2, <1>5 DEF vars, helpers
<1>6. QED  BY <1>3, <1>4, <1>5, QuietOrLoud

\* m_helper_info_repository and m_helper_client_index stay inverse to each
\* other through registration, refused registration and teardown, so that the
\* unchecked it->second in socket_close_connection is always a valid entry.
THEOREM HelpersSafe == Spec => []HelperBijection
<1>1. Init => HelperBijection
  BY DEF Init, HelperBijection, Registered, NoHelper
<1>2. TypeOK /\ ThreadOK /\ HelperBijection /\ [Next]_vars => HelperBijection'
  BY HelperStep
<1>3. QED  BY <1>1, <1>2, TypeCorrect, ThreadSafe, PTL DEF Spec

\* A helper that needs screen information is never left with an old screen:
\* registration hands it the current one, every change reaches it, and no
\* other step touches either side (socket_update_screen, helper_all_update_screen).
THEOREM ScreenSafe == Spec => []ScreenInSync
<1>1. Init => ScreenInSync  BY DEF Init, ScreenInSync, Registered, NoHelper
<1>2. TypeOK /\ ThreadOK /\ ScreenInSync /\ [Next]_vars => ScreenInSync'
  <2> SUFFICES ASSUME TypeOK, ThreadOK, ScreenInSync, [Next]_vars PROVE ScreenInSync'
    OBVIOUS
  <2>1. ASSUME UNCHANGED <<helperInfo, screen>> PROVE ScreenInSync'
    BY <2>1 DEF ScreenInSync, Registered
  <2>2. CASE Quiet  BY <2>1, <2>2 DEF Quiet, core
  <2>3. CASE UNCHANGED vars  BY <2>1, <2>3 DEF vars, helpers
  <2>4. ASSUME NEW s \in Screens, socket_update_screen(s) PROVE ScreenInSync'
    BY <2>4 DEF socket_update_screen, helper_all_update_screen, Interested, ScreenInSync, Registered, TypeOK, HelpersType,
       HelperInfos
  <2>5. CASE CloseHelper
    <3>1. closing.client \in Fds  BY <2>5 DEF CloseHelper, ThreadOK, NoClose, None
    <3>2. /\ helperInfo'[closing.client].uuid = NoUuid
          /\ \A d \in Fds \ {closing.client} : helperInfo'[d] = helperInfo[d]
      BY <2>5, <3>1 DEF CloseHelper, TypeOK, HelpersType, NoHelper
    <3>3. QED  BY <2>5, <3>2 DEF CloseHelper, ScreenInSync, Registered
  <2>6. ASSUME NEW u \in HelperUuids, NEW opts \in HelperOptions,
               socket_helper_register_helper(u, opts)
        PROVE ScreenInSync'
    <3>1. recv.client \in Fds
      BY <2>6, RecvType DEF socket_helper_register_helper, ClientTypes
    <3>2. CASE UNCHANGED helperInfo
      BY <2>1, <2>6, <3>2 DEF socket_helper_register_helper
    <3>3. CASE helperInfo' = [helperInfo EXCEPT ![recv.client] =
                                [uuid |-> u, options |-> opts, screen |-> screen]]
      <4>1. /\ helperInfo'[recv.client].screen = screen
            /\ \A d \in Fds \ {recv.client} : helperInfo'[d] = helperInfo[d]
        BY <3>1, <3>3 DEF TypeOK, HelpersType
      <4>2. QED
        BY <2>6, <4>1 DEF socket_helper_register_helper, ScreenInSync, Registered
    <3>4. QED  BY <2>6, <3>2, <3>3 DEF socket_helper_register_helper
  <2>7. CASE Loud
    BY <2>1, <2>4, <2>5, <2>6, <2>7 DEF Loud, socket_open_connection,
       socket_close_connection, CloseCurrent, CloseLast, register_input_context, focus_in,
       remove_input_context, focus_out, socket_start_helper, socket_stop_helper, helpers
  <2>8. QED  BY <2>2, <2>3, <2>7, QuietOrLoud
<1>3. QED  BY <1>1, <1>2, TypeCorrect, ThreadSafe, PTL DEF Spec

\* The action property of the focus: a context that loses it becomes the last
\* one, unless its client is being torn down (focus_in, focus_out).
THEOREM FocusHistory == Spec => LastIsPreviousFocus
<1> DEFINE Good ==
      /\ current' # current /\ current.client # -1 =>
           last' = current \/ closing.client = current.client
      /\ last' # last => last' = current \/ closing.client = last.client
<1>1. TypeOK /\ [Next]_vars => [Good]_vars
  <2> SUFFICES ASSUME TypeOK, Next PROVE Good  OBVIOUS
  <2>0. current.client # -1 => current.client >= 0
    <3>1. current.client \in Fds \cup {-1}  BY DEF TypeOK, FocusType, Holders
    <3>2. QED  BY <3>1, FdsAssumption
  <2>1. CASE UNCHANGED focus  BY <2>1 DEF focus
  <2>2. CASE CloseCurrent  BY <2>2 DEF CloseCurrent
  <2>3. CASE CloseLast  BY <2>3 DEF CloseLast
  <2>4. ASSUME NEW u \in Uuids, focus_in(u) PROVE Good  BY <2>0, <2>4 DEF focus_in
  <2>5. CASE focus_out  BY <2>0, <2>5 DEF focus_out
  <2>6. CASE Quiet  BY <2>1, <2>6 DEF Quiet, core
  <2>7. CASE Loud
    BY <2>1, <2>2, <2>3, <2>4, <2>5, <2>7 DEF Loud, socket_open_connection,
       socket_close_connection, CloseHelper, register_input_context,
       remove_input_context, socket_update_screen, socket_start_helper,
       socket_stop_helper, socket_helper_register_helper
  <2>8. QED  BY <2>6, <2>7, QuietOrLoud
<1>2. QED  BY <1>1, TypeCorrect, PTL DEF Spec, LastIsPreviousFocus

-----------------------------------------------------------------------------
(* The repository against the connections.                                 *)

\* The repository keeps holding connected clients only, and only controllers
\* wait for answers.
LEMMA RepositoryStep ==
  TypeOK /\ ThreadOK /\ RepositoryOK /\ [Next]_vars => RepositoryOK'
<1> SUFFICES ASSUME TypeOK, ThreadOK, RepositoryOK, [Next]_vars PROVE RepositoryOK'  OBVIOUS
<1>1. ASSUME UNCHANGED server PROVE RepositoryOK'
  BY <1>1 DEF server, RepositoryOK, Known
<1>2. ASSUME UNCHANGED <<accepted, running>>,
             \A c \in Fds : \/ repo'[c] = repo[c]
                            \/ repo'[c].type = repo[c].type /\ repo'[c].awaited = None
      PROVE RepositoryOK'
  BY <1>2 DEF RepositoryOK, Known
<1>3. CASE Connections
  <2>1. ASSUME NEW c \in Fds, socket_accept_callback(c) PROVE RepositoryOK'
    BY <2>1 DEF socket_accept_callback, RepositoryOK, Known
  <2>2. ASSUME NEW c \in Fds, NEW type \in Types \cup {""}, socket_open_connection(c, type)
        PROVE RepositoryOK'
    <3>1. CASE type = ""
      <4>1. c \notin Known  BY <2>2 DEF socket_open_connection, Known
      <4>2. UNCHANGED <<repo, running>> /\ accepted' = accepted \ {c}
        BY <2>2, <3>1 DEF socket_open_connection
      <4>3. Known' = Known  BY <4>2 DEF Known
      <4>4. \A d \in Known : d \in accepted => d \in accepted'  BY <4>1, <4>2
      <4>5. QED  BY <4>2, <4>3, <4>4 DEF RepositoryOK
    <3>2. CASE type # ""
      <4> DEFINE info == [type |-> type, awaited |-> None]
      <4>a. repo' = [repo EXCEPT ![c] = info] /\ c \in accepted
        BY <2>2, <3>2 DEF socket_open_connection
      <4>b. info.awaited = None  OBVIOUS
      <4> HIDE DEF info
      <4>1. repo'[c].awaited = None /\ \A d \in Fds \ {c} : repo'[d] = repo[d]
        BY <4>a, <4>b DEF TypeOK, ServerType
      <4>2. UNCHANGED <<accepted, running>>  BY <2>2, <3>2 DEF socket_open_connection
      <4>3. QED  BY <4>a, <4>1, <4>2 DEF RepositoryOK, Known
    <3>3. QED  BY <3>1, <3>2
  <2>3. ASSUME NEW c \in Fds, socket_close_connection(c) PROVE RepositoryOK'
    <3>1. repo'[c].type = "Unknown" /\ \A d \in Fds \ {c} : repo'[d] = repo[d]
      BY <2>3 DEF socket_close_connection, TypeOK, ServerType, NoClient
    <3>2. running' => accepted' = accepted \ {c}  BY <2>3 DEF socket_close_connection
    <3>3. running  BY <2>3 DEF socket_close_connection
    <3>4. QED  BY <3>1, <3>2, <3>3 DEF RepositoryOK, Known
  <2>4. CASE CloseCurrent \/ CloseLast \/ CloseHelper
    BY <1>1, <2>4 DEF CloseCurrent, CloseLast, CloseHelper
  <2>5. QED  BY <1>3, <2>1, <2>2, <2>3, <2>4 DEF Connections
<1>4. CASE FrontEndCommand
  <2>1. CASE socket_show_factory_menu \/ \E f \in Factories : socket_update_factory_info(f)
    <3>1. UNCHANGED <<accepted, running>>
      BY <2>1 DEF socket_show_factory_menu, socket_update_factory_info
    <3>2. \/ UNCHANGED repo
          \/ \E c \in Fds : repo' = [repo EXCEPT ![c].awaited = None]
      BY <2>1 DEF socket_show_factory_menu, socket_update_factory_info, InformWaiting,
         Waiting, Known
    <3>3. \A d \in Fds : \/ repo'[d] = repo[d]
                         \/ repo'[d].type = repo[d].type /\ repo'[d].awaited = None
      BY <3>2 DEF TypeOK, ServerType, ClientInfos
    <3>4. QED  BY <1>2, <3>1, <3>3
  <2>2. QED
    BY <1>1, <1>4, <2>1 DEF FrontEndCommand, register_input_context, focus_in,
       remove_input_context, focus_out, update_panel, socket_update_screen,
       socket_update_spot_location, socket_start_helper, socket_stop_helper,
       socket_send_helper_event
<1>5. CASE HelperCommand
  BY <1>1, <1>5 DEF HelperCommand, socket_helper_register_helper, socket_helper_to_focus,
     socket_helper_send_imengine_event, socket_helper_properties,
     socket_helper_reload_config
<1>6. CASE ControllerCommand
  <2>1. ASSUME NEW cmd \in Awaitable, ControllerRequest(cmd) PROVE RepositoryOK'
    <3>1. recv.client \in Fds /\ repo[recv.client].type = "PanelController"
      BY <2>1, RecvType DEF ControllerRequest, ClientTypes
    <3>2. /\ repo'[recv.client].type = "PanelController"
          /\ \A d \in Fds \ {recv.client} : repo'[d] = repo[d]
      BY <2>1, <3>1 DEF ControllerRequest, TypeOK, ServerType, ClientInfos
    <3>3. UNCHANGED <<accepted, running>>  BY <2>1 DEF ControllerRequest
    <3>4. QED  BY <3>1, <3>2, <3>3 DEF RepositoryOK, Known
  <2>2. QED  BY <1>1, <1>6, <2>1 DEF ControllerCommand, IgnoreController, ControllerQuery
<1>7. CASE \/ \E c \in Fds, x \in Contexts : ReceiveTransaction(c, x)
           \/ EndTransaction
  BY <1>1, <1>7 DEF ReceiveTransaction, EndTransaction
<1>8. CASE GuiThread
  BY <1>1, <1>8 DEF GuiThread, UiRequest, reload_config, exit, stop, Connect,
     trigger_helper_property, start_helper
<1>9. CASE AcceptWake
  BY <1>9 DEF AcceptWake, RepositoryOK, Known
<1>10. CASE UNCHANGED vars  BY <1>1, <1>10 DEF vars
<1>11. QED
  BY <1>3, <1>4, <1>5, <1>6, <1>7, <1>8, <1>9, <1>10 DEF Next, SocketThread

\* Only panel controllers wait for answers, and while the server runs every
\* client of m_client_repository has an open connection.
THEOREM RepositorySafe == Spec => []RepositoryOK
<1>1. Init => RepositoryOK  BY DEF Init, RepositoryOK, Known, NoClient
<1>2. TypeOK /\ ThreadOK /\ RepositoryOK /\ [Next]_vars => RepositoryOK'  BY RepositoryStep
<1>3. QED  BY <1>1, <1>2, TypeCorrect, ThreadSafe, PTL DEF Spec
-----------------------------------------------------------------------------
(* Where a message may go.                                                 *)

Deliverable(m) ==
  \/ m.to = -1
  \/ m.to \in accepted /\ m.kind \in {"Any", ClientType(m.to)}
  \/ m.to = closing.client

\* A connected client of type t can be sent a message for that type.
LEMMA ToKnown ==
  ASSUME running, RepositoryOK, NEW c \in Fds, NEW t \in ClientTypes, NEW cmd,
         ClientType(c) = t
  PROVE  Deliverable(Msg(c, t, cmd)) /\ Deliverable(Msg(c, "Any", cmd))
<1>1. c \in Known  BY DEF ClientType, Known, ClientTypes
<1>2. c \in accepted  BY <1>1 DEF RepositoryOK
<1>3. QED  BY <1>2 DEF Deliverable, Msg

\* A message for the focused context.
LEMMA ToFocused ==
  ASSUME running, TypeOK, RepositoryOK, FocusLive, NEW cmd, NEW m \in Focused(cmd)
  PROVE  Deliverable(m)
<1> DEFINE f == get_focused_context
<1>1. f = current \/ f = last  BY DEF get_focused_context
<1>2. f.client \in Fds \cup {-1}  BY <1>1 DEF TypeOK, FocusType, Holders
<1>3. f.client # -1 => ClientType(f.client) = "FrontEnd" \/ f.client = closing.client
  BY <1>1 DEF FocusLive
<1>4. m = Msg(f.client, "FrontEnd", cmd) /\ f.client >= 0  BY DEF Focused
<1>5. f.client \in Fds  BY <1>2, <1>4
<1>6. CASE ClientType(f.client) = "FrontEnd"
  BY <1>4, <1>5, <1>6, ToKnown DEF ClientTypes
<1>7. CASE f.client = closing.client
  BY <1>4, <1>7 DEF Deliverable, Msg
<1>8. QED  BY <1>3, <1>5, <1>6, <1>7, FdsPositive

\* A message for every client of the repository.
LEMMA ToAll ==
  ASSUME running, TypeOK, RepositoryOK, NEW cmd, NEW m \in Broadcast(cmd)
  PROVE  Deliverable(m)
<1>1. PICK c \in Known : m = Msg(c, "Any", cmd)  BY DEF Broadcast
<1>2. c \in accepted  BY <1>1 DEF RepositoryOK
<1>3. QED  BY <1>1, <1>2 DEF Deliverable, Msg

\* A message for a registered helper, found through either table.
LEMMA ToHelper ==
  ASSUME running, TypeOK, RepositoryOK, HelperBijection, NEW cmd
  PROVE  /\ \A c \in Registered : Deliverable(Msg(c, "Helper", cmd))
         /\ \A u \in HelperUuids : helperIndex[u] # NoStub =>
              Deliverable(Msg(helperIndex[u].id, "Helper", cmd))
<1>0. NoUuid \notin HelperUuids  BY PanelAgentAssumption
<1>1. ASSUME NEW c \in Registered PROVE Deliverable(Msg(c, "Helper", cmd))
  <2>1. c \in Fds  BY DEF Registered
  <2>2. CASE ClientType(c) = "Helper"  BY <2>1, <2>2, ToKnown DEF ClientTypes
  <2>3. CASE closing.client = c  BY <2>3 DEF Deliverable, Msg
  <2>4. QED  BY <2>2, <2>3 DEF HelperBijection
<1>2. ASSUME NEW u \in HelperUuids, helperIndex[u] # NoStub
      PROVE Deliverable(Msg(helperIndex[u].id, "Helper", cmd))
  <2>1. helperIndex[u].id \in Registered
    BY <1>0, <1>2 DEF HelperBijection, Registered
  <2>2. QED  BY <1>1, <2>1
<1>3. QED  BY <1>1, <1>2

\* A step that opens and closes nothing delivers what was deliverable before.
LEMMA Deliver ==
  ASSUME running => \A m \in out' : Deliverable(m), SameTypes,
         UNCHANGED <<accepted, running, closing>>
  PROVE  DeliveryOK'
BY DEF DeliveryOK, Deliverable, SameTypes, ClientType

\* A step that writes to no client.
LEMMA Silent ==
  ASSUME \A m \in out' : m.to = -1
  PROVE  DeliveryOK'
BY DEF DeliveryOK

\* Whatever a step writes goes to a client of the kind it is meant for.
LEMMA DeliveryStep ==
  ASSUME TypeOK, ThreadOK, RepositoryOK, FocusLive, HelperBijection, Next
  PROVE  DeliveryOK'
<1>0. UNCHANGED repo => SameTypes  BY DEF SameTypes
<1>1. CASE Connections
  <2>1. ASSUME NEW c \in Fds, socket_accept_callback(c) \/ socket_close_connection(c)
        PROVE DeliveryOK'
    BY <2>1, Silent DEF socket_accept_callback, socket_close_connection
  <2>2. ASSUME NEW c \in Fds, NEW type \in Types \cup {""}, socket_open_connection(c, type)
        PROVE DeliveryOK'
    BY <2>2, Silent DEF socket_open_connection
  <2>3. CASE CloseCurrent  BY <2>3, Silent DEF CloseCurrent, Msg
  <2>4. CASE CloseLast  BY <2>4, Silent DEF CloseLast
  <2>5. CASE CloseHelper
    <3>1. out' = {Msg(-1, "HelperManager", "RUN_HELPER")} \/ out' = {}
      BY <2>5 DEF CloseHelper
    <3>2. QED  BY <3>1, Silent DEF Msg
  <2>6. QED  BY <1>1, <2>1, <2>2, <2>3, <2>4, <2>5 DEF Connections
<1>2. CASE \/ \E c \in Fds, x \in Contexts : ReceiveTransaction(c, x)
           \/ EndTransaction
  BY <1>2, Silent DEF ReceiveTransaction, EndTransaction
<1>3. CASE FrontEndCommand
  <2>1. CASE \/ \E u \in Uuids : register_input_context(u) \/ focus_in(u)
             \/ remove_input_context \/ focus_out \/ update_panel
    BY <2>1, Silent DEF register_input_context, focus_in, remove_input_context,
       focus_out, update_panel, Msg
  <2>2. ASSUME NEW s \in Screens, socket_update_screen(s) PROVE DeliveryOK'
    <3>1. running => \A m \in out' : Deliverable(m)
      BY <2>2, ToHelper DEF socket_update_screen, helper_all_update_screen, Interested
    <3>2. QED  BY <1>0, <2>2, <3>1, Deliver DEF socket_update_screen, server, thread
  <2>3. CASE socket_update_spot_location
    <3>1. running => \A m \in out' : Deliverable(m)
      BY <2>3, ToHelper DEF socket_update_spot_location,
                            helper_all_update_spot_location, Interested
    <3>2. QED  BY <1>0, <2>3, <3>1, Deliver DEF socket_update_spot_location, server, thread
  <2>4. CASE socket_show_factory_menu \/ \E f \in Factories : socket_update_factory_info(f)
    <3>1. ASSUME NEW c \in Fds, NEW cmd \in Awaitable, c \in Waiting(cmd), running
          PROVE Deliverable(Msg(c, "PanelController", cmd))
      <4>1. ClientType(c) = "PanelController"
        BY <3>1 DEF Waiting, RepositoryOK, ClientType, Awaitable, None
      <4>2. QED  BY <3>1, <4>1, ToKnown DEF ClientTypes
    <3>2. \A m \in out' : \/ m.to = -1
                          \/ \E cmd \in Awaitable : \E c \in Waiting(cmd) :
                               m = Msg(c, "PanelController", cmd)
      BY <2>4 DEF socket_show_factory_menu, socket_update_factory_info, InformWaiting,
         ToPanel, Msg, Awaitable
    <3>3. running => \A m \in out' : Deliverable(m)
      BY <3>1, <3>2 DEF Waiting, Known, Deliverable
    <3>4. SameTypes
      BY <2>4 DEF SameTypes, socket_show_factory_menu, socket_update_factory_info,
         InformWaiting, Waiting, Known, TypeOK, ServerType, ClientInfos
    <3>5. QED
      BY <2>4, <3>3, <3>4, Deliver DEF socket_show_factory_menu,
         socket_update_factory_info, thread
  <2>5. ASSUME NEW u \in HelperUuids,
               \/ socket_start_helper(u) \/ socket_stop_helper(u)
               \/ socket_send_helper_event(u)
        PROVE DeliveryOK'
    <3>1. \A m \in out' : \/ m.to = -1
                          \/ /\ helperIndex[u] # NoStub
                             /\ \E cmd : m = Msg(helperIndex[u].id, "Helper", cmd)
      BY <2>5 DEF socket_start_helper, socket_stop_helper, socket_send_helper_event, Msg
    <3>2. running => \A m \in out' : Deliverable(m)
      BY <3>1, ToHelper DEF Deliverable
    <3>3. QED
      BY <1>0, <2>5, <3>2, Deliver DEF socket_start_helper, socket_stop_helper,
         socket_send_helper_event, server, thread
  <2>6. QED  BY <1>3, <2>1, <2>2, <2>3, <2>4, <2>5 DEF FrontEndCommand
<1>4. CASE HelperCommand
  <2>1. ASSUME NEW u \in HelperUuids, NEW opts \in HelperOptions,
               socket_helper_register_helper(u, opts)
        PROVE DeliveryOK'
    <3>1. recv.client \in Fds /\ ClientType(recv.client) = "Helper"
      BY <2>1, RecvType DEF socket_helper_register_helper, ClientTypes, From
    <3>2. \A m \in out' : \E cmd : m = Msg(recv.client, "Helper", cmd)
      BY <2>1 DEF socket_helper_register_helper
    <3>3. running => \A m \in out' : Deliverable(m)
      BY <3>1, <3>2, ToKnown DEF ClientTypes
    <3>4. QED
      BY <1>0, <2>1, <3>3, Deliver DEF socket_helper_register_helper, server, thread
  <2>2. ASSUME NEW ic, NEW u, socket_helper_to_focus(ic, u) PROVE DeliveryOK'
    <3>1. Target(ic).client \in Fds
      BY <2>2 DEF socket_helper_to_focus, ClientType
    <3>2. running => \A m \in out' : Deliverable(m)
      BY <2>2, <3>1, ToKnown DEF socket_helper_to_focus, ClientTypes
    <3>3. QED  BY <1>0, <2>2, <3>2, Deliver DEF socket_helper_to_focus, server, thread
  <2>3. ASSUME NEW ic, socket_helper_send_imengine_event(ic) PROVE DeliveryOK'
    <3>1. Target(ic).client \in Fds
      BY <2>3 DEF socket_helper_send_imengine_event, ClientType
    <3>2. running => \A m \in out' : Deliverable(m)
      BY <2>3, <3>1, ToKnown DEF socket_helper_send_imengine_event, ClientTypes
    <3>3. QED
      BY <1>0, <2>3, <3>2, Deliver DEF socket_helper_send_imengine_event, server, thread
  <2>4. CASE socket_helper_properties
    BY <2>4, Silent DEF socket_helper_properties, Msg
  <2>5. CASE socket_helper_reload_config
    <3>1. running => \A m \in out' : Deliverable(m)
      BY <2>5, ToAll DEF socket_helper_reload_config
    <3>2. QED  BY <1>0, <2>5, <3>1, Deliver DEF socket_helper_reload_config, server, thread
  <2>6. QED  BY <1>4, <2>1, <2>2, <2>3, <2>4, <2>5 DEF HelperCommand
<1>5. CASE ControllerCommand
  <2>1. CASE IgnoreController  BY <2>1, Silent DEF IgnoreController
  <2>2. ASSUME NEW cmd \in Awaitable, ControllerRequest(cmd) PROVE DeliveryOK'
    <3>1. running => \A m \in out' : Deliverable(m)
      BY <2>2, ToFocused DEF ControllerRequest
    <3>2. SameTypes
      BY <2>2 DEF SameTypes, ControllerRequest, TypeOK, ServerType, ClientInfos
    <3>3. QED  BY <2>2, <3>1, <3>2, Deliver DEF ControllerRequest, thread
  <2>3. CASE ControllerQuery
    <3>1. recv.client \in Fds /\ ClientType(recv.client) = "PanelController"
      BY <2>3, RecvType DEF ControllerQuery, ClientTypes, From
    <3>2. running => \A m \in out' : Deliverable(m)
      BY <2>3, <3>1, ToKnown DEF ControllerQuery, ClientTypes
    <3>3. QED  BY <1>0, <2>3, <3>2, Deliver DEF ControllerQuery, server, thread
  <2>4. QED  BY <1>5, <2>1, <2>2, <2>3 DEF ControllerCommand
<1>6. CASE GuiThread
  <2>1. CASE UiRequest
    <3>1. running => \A m \in out' : Deliverable(m)  BY <2>1, ToFocused DEF UiRequest
    <3>2. QED  BY <1>0, <2>1, <3>1, Deliver DEF UiRequest, server, thread
  <2>2. CASE reload_config \/ exit
    <3>1. running => \A m \in out' : Deliverable(m)
      BY <2>2, ToAll DEF reload_config, exit
    <3>2. QED  BY <1>0, <2>2, <3>1, Deliver DEF reload_config, exit, server, thread
  <2>3. CASE stop \/ Connect \/ \E u \in HelperUuids : start_helper(u)
    BY <2>3, Silent DEF stop, Connect, start_helper, Msg
  <2>4. ASSUME NEW c \in Fds, trigger_helper_property(c) PROVE DeliveryOK'
    <3>1. running => \A m \in out' : Deliverable(m)
      BY <2>4, ToKnown DEF trigger_helper_property, ClientTypes
    <3>2. QED  BY <1>0, <2>4, <3>1, Deliver DEF trigger_helper_property, server, thread
  <2>5. QED  BY <1>6, <2>1, <2>2, <2>3, <2>4 DEF GuiThread
<1>7. CASE AcceptWake  BY <1>7, Silent DEF AcceptWake
<1>8. QED  BY <1>1, <1>2, <1>3, <1>4, <1>5, <1>6, <1>7 DEF Next, SocketThread

\* Whatever the interleaving of the two threads, a message of the agent goes to
\* a connected client of the kind it is for, or to the connection that is being
\* torn down at that moment; never to a client that inherited a descriptor.
THEOREM DeliverySafe == Spec => []DeliveryOK
<1> DEFINE Tables == TypeOK /\ ThreadOK /\ RepositoryOK /\ FocusLive /\ HelperBijection
<1>1. Init => DeliveryOK  BY DEF Init, DeliveryOK
<1>2. Tables /\ DeliveryOK /\ [Next]_vars => DeliveryOK'
  <2>1. CASE UNCHANGED vars
    BY <2>1 DEF vars, server, thread, DeliveryOK, ClientType
  <2>2. QED  BY <2>1, DeliveryStep
<1>3. QED
  BY <1>1, <1>2, TypeCorrect, ThreadSafe, RepositorySafe, FocusSafe, HelpersSafe, PTL
     DEF Spec

-----------------------------------------------------------------------------
(* Context handles.                                                        *)

\* The client of a handle is the one it was made from.
LEMMA HandleClient ==
  ASSUME NEW c \in Fds, NEW x \in Contexts
  PROVE  get_helper_ic(c, x) % 65536 = c /\ c % 65536 = c
<1>1. c \in Nat /\ c < 65536  BY FdsAssumption
<1>2. x \in Nat  BY PanelAgentAssumption
<1>3. QED  BY <1>1, <1>2 DEF get_helper_ic

\* A handle determines its client and the low 15 bits of its context.
LEMMA HandleDetermines ==
  ASSUME NEW c \in Fds, NEW x \in Contexts, NEW d \in Fds, NEW y \in Contexts,
         get_helper_ic(c, x) = get_helper_ic(d, y)
  PROVE  c = d /\ x % 32768 = y % 32768
<1>1. c = d  BY HandleClient
<1>2. x % 32768 \in Nat /\ y % 32768 \in Nat  BY PanelAgentAssumption
<1>3. c % 65536 \in Nat  BY FdsAssumption
<1>4. (c % 65536) + ((x % 32768) * 65536) = (c % 65536) + ((y % 32768) * 65536)
  BY <1>1 DEF get_helper_ic
<1>5. QED  BY <1>1, <1>2, <1>3, <1>4

\* The steps that touch the registrations, and how.
LEMMA UuidsStep ==
  ASSUME TypeOK, [Next]_vars
  PROVE  \/ UNCHANGED uuids
         \/ /\ From("FrontEnd") /\ UNCHANGED <<repo, closing>>
            /\ \E u \in Uuids \cup {NoUuid} : uuids' = [uuids EXCEPT ![RecvIc] = u]
         \/ CloseLast
<1>1. CASE Quiet  BY <1>1 DEF Quiet, core
<1>2. CASE UNCHANGED vars  BY <1>2 DEF vars
<1>3. CASE Loud
  BY <1>3 DEF Loud, socket_open_connection, socket_close_connection, CloseCurrent,
     CloseHelper, register_input_context, remove_input_context, focus_in, focus_out,
     socket_update_screen, socket_start_helper, socket_stop_helper,
     socket_helper_register_helper, server, thread
<1>4. QED  BY <1>1, <1>2, <1>3, QuietOrLoud

\* A front end's connection ends only through socket_close_connection.
LEMMA FrontEndStep ==
  ASSUME TypeOK, ThreadOK, [Next]_vars, NEW c \in Fds,
         \/ ClientType(c) = "FrontEnd"
         \/ closing.next \in {"current", "last"} /\ closing.client = c
  PROVE  \/ ClientType(c)' = "FrontEnd"
         \/ closing'.next \in {"current", "last"} /\ closing'.client = c
         \/ CloseLast /\ closing.client = c
<1>1. CASE Quiet  BY <1>1 DEF Quiet, core, SameTypes, ClientType
<1>2. CASE UNCHANGED vars  BY <1>2 DEF vars, server, thread, ClientType
<1>3. CASE Loud
  <2>1. ASSUME NEW d \in Fds, NEW type \in Types, socket_open_connection(d, type)
        PROVE ClientType(c)' = "FrontEnd"
    <3>1. closing.next = None  BY <2>1 DEF socket_open_connection, Idle, NoClose
    <3>2. \A e \in Fds : repo[e].type = "FrontEnd" => repo'[e] = repo[e]
      BY <2>1 DEF socket_open_connection, TypeOK, ServerType
    <3>3. QED  BY <3>1, <3>2 DEF ClientType, None
  <2>2. ASSUME NEW d \in Fds, socket_close_connection(d)
        PROVE \/ ClientType(c)' = "FrontEnd"
              \/ closing'.next \in {"current", "last"} /\ closing'.client = c
    <3>1. closing.next = None  BY <2>2 DEF socket_close_connection, Idle, NoClose
    <3>2. \A e \in Fds : e # d => repo'[e] = repo[e]
      BY <2>2 DEF socket_close_connection, TypeOK, ServerType
    <3>3. repo[d].type = "FrontEnd" => closing' = [client |-> d, next |-> "current"]
      BY <2>2 DEF socket_close_connection
    <3>4. QED  BY <3>1, <3>2, <3>3 DEF ClientType, None
  <2>3. CASE CloseCurrent \/ CloseLast \/ CloseHelper
    BY <2>3 DEF CloseCurrent, CloseLast, CloseHelper, server, ClientType
  <2>4. ASSUME UNCHANGED <<server, thread>>
        PROVE \/ ClientType(c)' = "FrontEnd"
              \/ closing'.next \in {"current", "last"} /\ closing'.client = c
    BY <2>4 DEF server, thread, ClientType
  <2>5. QED
    BY <1>3, <2>1, <2>2, <2>3, <2>4 DEF Loud, register_input_context,
       remove_input_context, focus_in, focus_out, socket_update_screen,
       socket_start_helper, socket_stop_helper, socket_helper_register_helper
<1>4. QED  BY <1>1, <1>2, <1>3, QuietOrLoud

\* No step leaves a context registered for a client that is gone.
LEMMA OrphanStep ==
  TypeOK /\ ThreadOK /\ NoOrphanContexts /\ [Next]_vars => NoOrphanContexts'
<1> SUFFICES ASSUME TypeOK, ThreadOK, NoOrphanContexts, [Next]_vars,
                    NEW c \in Fds, NEW x \in Contexts,
                    uuids'[get_helper_ic(c, x)] # NoUuid
             PROVE  \/ ClientType(c)' = "FrontEnd"
                    \/ closing'.next \in {"current", "last"} /\ closing'.client = c
  BY DEF NoOrphanContexts
<1> DEFINE ic == get_helper_ic(c, x)
<1>0. ic \in Ics  BY DEF Ics
<1>1. ASSUME uuids[ic] # NoUuid, ~(CloseLast /\ closing.client = c)
      PROVE \/ ClientType(c)' = "FrontEnd"
            \/ closing'.next \in {"current", "last"} /\ closing'.client = c
  BY <1>1, FrontEndStep DEF NoOrphanContexts
<1>2. CASE CloseLast
  <2>1. uuids'[ic] = IF ic \in IcsOf(closing.client) THEN NoUuid ELSE uuids[ic]
    BY <1>0, <1>2 DEF CloseLast
  <2>2. closing.client = c => ic \in IcsOf(closing.client)
    BY <1>0, HandleClient DEF IcsOf
  <2>3. QED  BY <1>1, <2>1, <2>2
<1>3. CASE UNCHANGED uuids /\ ~CloseLast  BY <1>1, <1>3
<1>4. CASE /\ From("FrontEnd") /\ UNCHANGED <<repo, closing>> /\ ~CloseLast
           /\ \E u \in Uuids \cup {NoUuid} : uuids' = [uuids EXCEPT ![RecvIc] = u]
  <2>1. recv.client \in Fds /\ recv.context \in Contexts /\ ClientType(recv.client) = "FrontEnd"
    BY <1>4, RecvType DEF ClientTypes, From
  <2>2. CASE ic = RecvIc
    <3>1. c = recv.client  BY <2>1, <2>2, HandleClient DEF RecvIc
    <3>2. QED  BY <1>4, <2>1, <3>1 DEF ClientType
  <2>3. CASE ic # RecvIc
    <3>1. uuids'[ic] = uuids[ic]  BY <1>0, <1>4, <2>3 DEF TypeOK, UuidsType
    <3>2. QED  BY <1>1, <1>4, <3>1
  <2>4. QED  BY <2>2, <2>3
<1>5. QED  BY <1>2, <1>3, <1>4, UuidsStep

\* m_client_context_uuids never outlives its front end, whatever descriptors
\* the kernel reuses: the mask in socket_close_connection finds all of them.
THEOREM ContextsSafe == Spec => []NoOrphanContexts
<1>1. Init => NoOrphanContexts  BY DEF Init, NoOrphanContexts, Ics
<1>2. TypeOK /\ ThreadOK /\ NoOrphanContexts /\ [Next]_vars => NoOrphanContexts'
  BY OrphanStep
<1>3. QED  BY <1>1, <1>2, TypeCorrect, ThreadSafe, PTL DEF Spec

\* Whatever ids the contexts have, a registration is changed by nobody but its
\* client's teardown and the contexts of its client that share its low 15 bits.
THEOREM HandlesSeparate == Spec => RegistrationOwned
<1> DEFINE Own(c, x) == uuids'[get_helper_ic(c, x)] # uuids[get_helper_ic(c, x)] =>
                          \/ closing.client = c
                          \/ recv.client = c /\ recv.context % 32768 = x % 32768
<1>1. ASSUME TypeOK, ThreadOK, [Next]_vars, NEW c \in Fds, NEW x \in Contexts
      PROVE  Own(c, x)
  <2> DEFINE ic == get_helper_ic(c, x)
  <2>0. ic \in Ics  BY DEF Ics
  <2>1. CASE UNCHANGED uuids  BY <2>1
  <2>2. CASE CloseLast
    <3>1. uuids'[ic] = IF ic \in IcsOf(closing.client) THEN NoUuid ELSE uuids[ic]
      BY <2>0, <2>2 DEF CloseLast
    <3>2. closing.client \in Fds  BY <1>1, <2>2 DEF CloseLast, ThreadOK, NoClose, None
    <3>3. closing.client % 65536 = closing.client  BY <3>2, HandleClient
    <3>4. QED  BY <3>1, <3>3, HandleClient DEF IcsOf
  <2>3. CASE /\ From("FrontEnd")
             /\ \E u \in Uuids \cup {NoUuid} : uuids' = [uuids EXCEPT ![RecvIc] = u]
    <3>1. recv.client \in Fds /\ recv.context \in Contexts
      BY <1>1, <2>3, RecvType DEF ClientTypes
    <3>2. ic # RecvIc => uuids'[ic] = uuids[ic]
      BY <1>1, <2>0, <2>3 DEF TypeOK, UuidsType
    <3>3. ic = RecvIc => c = recv.client /\ recv.context % 32768 = x % 32768
      BY <3>1, HandleDetermines DEF RecvIc
    <3>4. QED  BY <3>2, <3>3
  <2>4. QED  BY <1>1, <2>1, <2>2, <2>3, UuidsStep
<1>2. TypeOK /\ ThreadOK /\ [Next]_vars => [\A c \in Fds, x \in Contexts : Own(c, x)]_vars
  BY <1>1
<1>3. QED  BY <1>2, TypeCorrect, ThreadSafe, PTL DEF Spec, RegistrationOwned
=============================================================================
