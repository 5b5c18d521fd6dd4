----------------------------- MODULE MCSafetyCore -----------------------------
(* SafetyCore at two iterations per second and one second of stabilisation.  *)
EXTENDS SafetyCore

AckOnly == {"ack"}
=============================================================================
