---------------------------- MODULE MCPanelAgent ----------------------------
(* Values for the constants of PanelAgent.                                 *)
EXTENDS PanelAgent

NoHelpers == {}
OneHelper == {"h1"}

NoOptions  == {{}}
AllOptions == {{"AUTO_RESTART", "NEED_SCREEN_INFO", "NEED_SPOT_LOCATION_INFO"}}
=============================================================================
