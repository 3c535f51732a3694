------------------------------ MODULE MCGateway -----------------------------
(* Instance of Gateway for TLC: request slots are interchangeable. *)
EXTENDS Gateway, TLC

RequestSymmetry == Permutations(Requests)
=============================================================================
