--------------------------- MODULE MCPluginHost ----------------------------
(***************************************************************************)
(* An instance of PluginHost for TLC: one server and two tabs that share   *)
(* its host.                                                               *)
(***************************************************************************)
EXTENDS PluginHost
=============================================================================
