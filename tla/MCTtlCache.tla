----------------------------- MODULE MCTtlCache -----------------------------
(* TtlCache with the symmetries of its keys and of its requests. *)
EXTENDS TtlCache, TLC

Symmetry ==
  Permutations(Keys) \union Permutations(Getters) \union Permutations(Changers)
=============================================================================
