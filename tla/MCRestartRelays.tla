--------------------------- MODULE MCRestartRelays ---------------------------
(* The order of the product, one iteration for each stagger interval, and a  *)
(* heater (P01, group 2) beside a filter (P04, group 3).                     *)
EXTENDS RestartRelays

ProductOrder == <<4, 1, 2, 5, 6, 3, 7, 8, 9, 10>>

NoRequests == {}

HeaterAndFilter == [p \in {0, 3} |-> IF p = 0 THEN 2 ELSE 3]
=============================================================================
