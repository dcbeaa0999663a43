---------------------------- MODULE MCDedupLinks ----------------------------
(* A small instance of DedupLinks: nothing tells contents or processes apart. *)
EXTENDS DedupLinks, TLC
CONSTANTS a, b, p1, p2
Symmetric == Permutations({a, b}) \union Permutations({p1, p2})
=============================================================================
