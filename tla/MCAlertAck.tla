------------------------------ MODULE MCAlertAck ------------------------------
(* AlertAck with the thermal alarms of an EMERGENCY and small tables.        *)
EXTENDS AlertAck

ThermalOnly == {{"ALM-026", "ALM-028"}}
=============================================================================
