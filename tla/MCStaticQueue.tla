---------------------------- MODULE MCStaticQueue ----------------------------
(* Instances of StaticQueue for TLC. A ring of five cells is the smallest  *)
(* in which each of the four ways to linearise it moves several elements;  *)
(* two queues that are assigned to each other have different capacities.   *)
EXTENDS StaticQueue

CONSTANTS large, medium, small

MCCapacity == large :> 5 @@ medium :> 3 @@ small :> 2

AllCalls == {"insert", "erase", "eraseIterator", "compare"}
MCOneRing  == {[queues |-> {large}, calls |-> AllCalls]}
MCPrograms == MCOneRing \cup {[queues |-> {medium, small}, calls |-> {"erase"}]}
=============================================================================
