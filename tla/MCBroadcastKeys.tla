-------------------------- MODULE MCBroadcastKeys ---------------------------
(* BroadcastKeys for TLC.                                                  *)
EXTENDS BroadcastKeys
=============================================================================
