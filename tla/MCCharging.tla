----------------------------- MODULE MCCharging -----------------------------
(* Model values for TLC: one unit stands for about 33 cycles (one second). *)
EXTENDS Charging

UpperLayers == {"SDP", "TCP", "Appl"}
NoStrays == {}
SomeStrays == {"CurrentDemandRes", "Undecodable"}
=============================================================================
