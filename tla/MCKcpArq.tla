----------------------------- MODULE MCKcpArq -----------------------------
(* Constants of KcpArq for TLC. *)
EXTENDS KcpArqInv, TLC

CONSTANTS a, b

MCNode == {a, b}
OneWay == a :> 4 @@ b :> 0
OneWayShort == a :> 3 @@ b :> 0
BothWays == a :> 2 @@ b :> 1
OneInFlight == a :> 1 @@ b :> 1
TwoAcksInFlight == a :> 1 @@ b :> 2
===========================================================================
