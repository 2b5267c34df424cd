--------------------------- MODULE MCBatchRouters ---------------------------
(***************************************************************************)
(* BatchRouters for TLC: -1 is "own payload", and an invalid call_id.      *)
(***************************************************************************)
EXTENDS BatchRouters

SmallCallIds == -1 .. 2
=============================================================================
