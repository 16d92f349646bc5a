---------------------------- MODULE MC_IdleWake ----------------------------
(* Model-checking instance of IdleWake; constants are given in the cfgs.   *)
EXTENDS IdleWake
=============================================================================
