----------------------------- MODULE MCMqttClient ---------------------------
(* MqttClient for TLC, with channels cut down to a few places each.        *)
EXTENDS MqttClient
=============================================================================
