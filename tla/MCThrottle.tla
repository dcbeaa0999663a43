----------------------------- MODULE MCThrottle -----------------------------
(* A small instance of Throttle: connections are alike. *)
EXTENDS Throttle, TLC

Symmetry == Permutations(Conns)
=============================================================================
