----------------------------- MODULE MCMqttService -----------------------------
(***************************************************************************)
(* MqttService for TLC: three records and a buffer of two, so that the     *)
(* buffer wraps and overflows once; a reconnect interval of two cycles.    *)
(***************************************************************************)
EXTENDS MqttService

MCRecord == 1 .. 3
=============================================================================
