--------------------------- MODULE MCCertAuthority --------------------------
(* CertAuthority for TLC, with more keys than are ever in use at a time.   *)
EXTENDS CertAuthority
=============================================================================
