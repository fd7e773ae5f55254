--------------------------- MODULE MCNetworkGraph ---------------------------
(* Small plants for TLC. *)
EXTENDS NetworkGraph, TLC

CONSTANTS i1, i2, i3, i4, i5, i6, i7

\* One item of another company, which nothing may hang from.
MCCompany == [i \in Items |-> IF i = i7 THEN "other" ELSE "own"]

MCSymmetry == Permutations({i1, i2, i3, i4, i5, i6})
=============================================================================
