------------------------------ MODULE MCStartup ------------------------------
(* Startup for TLC.                                                          *)
EXTENDS Startup
=============================================================================
