------------------------- MODULE MCTsFutureResolver -------------------------
(***************************************************************************)
(* TsFutureResolver for TLC, on its own and with its fairness.             *)
(***************************************************************************)
EXTENDS TsFutureResolver
=============================================================================
