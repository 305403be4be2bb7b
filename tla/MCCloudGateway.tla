--------------------------- MODULE MCCloudGateway ---------------------------
(* CloudGateway for TLC, with the delays of the code.                      *)
EXTENDS CloudGateway
=============================================================================
