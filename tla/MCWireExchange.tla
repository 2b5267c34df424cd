--------------------------- MODULE MCWireExchange ---------------------------
(***************************************************************************)
(* WireExchange for values that WIRE.md calls valid: a timestamp, and an   *)
(* array of empty structs.                                                 *)
(***************************************************************************)
EXTENDS WireExchange

Nothing == [kind |-> "struct", fields |-> <<>>]
Event == [kind |-> "struct", fields |-> <<Scalar("timestamp")>>]
Marks == [kind |-> "struct", fields |-> <<Array(Ref("Nothing"))>>]
ValidDefs == [Nothing |-> Nothing, Event |-> Event, Marks |-> Marks]

ValidSamples ==
    << [name |-> "Marks", value |-> << << <<>>, <<>> >> >>],
       [name |-> "Event", value |-> << [seconds |-> 3, nanos |-> 1, offsetMs |-> 0] >>] >>

NoOldDefs == [n \in {} |-> Nothing]

ExchangeSpec == ExchangeInit /\ [][ExchangeNext]_exchangeVars
=============================================================================
