----------------------------- MODULE MCSwissMap -----------------------------
(***************************************************************************)
(* SwissMap with the sizes of the code: nine keys whose hashes agree in    *)
(* all but the low seven bits, inserted one after the other.               *)
(***************************************************************************)
EXTENDS SwissMap

Together == [k \in Keys |-> k]

\* Nothing but bebop_map_set, with memory enough.
SetsSpec == MapInit /\ [][MapSet]_mapVars

\* It is enough to look at the keys in one order.
InOrder == \A e \in accepted : \A k \in 1 .. e[1] : \E f \in accepted : f[1] = k
=============================================================================
