---------------------------- MODULE MCFutureStore ----------------------------
(***************************************************************************)
(* FutureStore for TLC.  A behaviour is of one caller or of several, with  *)
(* a store that retains one result and subscribers that watch the futures  *)
(* of Few; or it is about retention alone, with all of Ids, a store that   *)
(* retains MaxCompleted results, and nobody who subscribes.  Then a        *)
(* notification touches nothing that others see, and is over before        *)
(* anybody else goes on.                                                   *)
(*                                                                         *)
(* Futures are interchangeable: those of Few are registered first, and     *)
(* Last is the last.                                                       *)
(***************************************************************************)
EXTENDS FutureStore, TLC

CONSTANTS
    Alice,         \* one of the callers
    Few,           \* the futures of a behaviour with one caller
    MixedFutures,  \* bound on the futures of a behaviour with every caller
    Last

VARIABLE scenario
mcVars == <<vars, scenario>>

Watched(Callers) ==
    INSTANCE FutureStore
        WITH Owners <- Callers, Asked <- Few, MaxCompleted <- 1
Retaining == INSTANCE FutureStore WITH Owners <- {Alice}

MCInit == Retaining!Init /\ scenario \in {"one caller", "callers", "retention"}

NobodySubscribes ==
    /\ nextSubscriber' = 0
    /\ issued' \subseteq Few \/ Few \subseteq issued'
    /\ Last \in issued' => issued' = Ids
    /\ \A i \in Ids :
          task[i] \in {"notify", "yielding", "finishing"} => task'[i] # task[i]

MCNext ==
    /\ \/ /\ scenario = "one caller"
          /\ Watched({Alice})!Next /\ issued' \subseteq Few
       \/ /\ scenario = "callers" /\ Watched(Owners)!Next
          /\ issued' \subseteq Few /\ Cardinality(issued') <= MixedFutures
       \/ scenario = "retention" /\ Retaining!Next /\ NobodySubscribes
    /\ UNCHANGED scenario

MCSpec == MCInit /\ [][MCNext]_mcVars

FutureSymmetry == Permutations(Few)
=============================================================================
