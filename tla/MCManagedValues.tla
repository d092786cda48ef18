--------------------------- MODULE MCManagedValues ---------------------------
(* A small instance of ManagedValues. *)
EXTENDS ManagedValues

CONSTANTS n1

(* All accessors read one node. *)
SharedNodeOf == [a \in Accessors |-> n1]

Exchange == Permutations(Accessors) \cup Permutations(Values)
=============================================================================
