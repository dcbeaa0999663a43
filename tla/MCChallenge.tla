---------------------------- MODULE MCChallenge -----------------------------
(* A small instance of Challenge: one address that uploads and solves        *)
(* challenges, one neighbour, two requests that nothing tells apart.         *)
EXTENDS Challenge, TLC
CONSTANTS i1, i2, r1, r2
Symmetric == Permutations({r1, r2})
=============================================================================
