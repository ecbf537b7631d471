----------------------------- MODULE MCPmodRfid -----------------------------
(* One level of verbosity is enough: nothing but the wording depends on it. *)
EXTENDS PmodRfid
MCModes == {"on", "off", "detect"}
MCLevels == {"1"}
=============================================================================
