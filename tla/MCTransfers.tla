----------------------------- MODULE MCTransfers -----------------------------
(* A small instance of Transfers. *)
EXTENDS Transfers, TLC

Exchange == Permutations(Elements)
=============================================================================
