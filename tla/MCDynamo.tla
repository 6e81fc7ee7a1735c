------------------------------ MODULE MCDynamo ------------------------------
(* The five nodes of join in the order of their hashes; k1's hash is above *)
(* every node's, so that its coordinator is found by the wrap of the ring. *)
EXTENDS Dynamo, TLC

CONSTANTS k1, k2

MCNodeHash == [n \in Nodes |-> 10 * (n + 1)]
MCKeyHash == (k1 :> 55) @@ (k2 :> 45)
=============================================================================
