-------------------------- MODULE MCFutureResolver --------------------------
(***************************************************************************)
(* FutureResolver for TLC.  Futures and callers are interchangeable.       *)
(***************************************************************************)
EXTENDS FutureResolver, TLC

ResolverSymmetry == Permutations(Ids) \cup Permutations(Waiters)
=============================================================================
