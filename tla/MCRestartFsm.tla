----------------------------- MODULE MCRestartFsm -----------------------------
(* The order of the product, every duration one iteration.                   *)
EXTENDS RestartFsm

ProductOrder == <<4, 1, 2, 5, 6, 3, 7, 8, 9, 10>>

RestartOnly == {"restart"}
=============================================================================
