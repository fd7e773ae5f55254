--------------------------- MODULE MCSessionCache ---------------------------
(* Two processes and two families, of which one fills the cache. *)
EXTENDS SessionCache, TLC

CONSTANTS p1, p2, f1, f2

MCSymmetry == Permutations({p1, p2}) \cup Permutations({f1, f2})
=============================================================================
