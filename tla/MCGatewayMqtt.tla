---------------------------- MODULE MCGatewayMqtt ---------------------------
(* GatewayMqtt for TLC, with the request capacity of the code.             *)
EXTENDS GatewayMqtt
=============================================================================
