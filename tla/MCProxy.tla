------------------------------ MODULE MCProxy ------------------------------
(* Proxy for TLC: the websites are interchangeable. *)
EXTENDS Proxy, TLC

Symmetry == Permutations(Urls)
=============================================================================
