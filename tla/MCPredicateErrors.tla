------------------------- MODULE MCPredicateErrors -------------------------
(***************************************************************************)
(* Up to three runs of which any may run inside another, two policies.     *)
(***************************************************************************)
EXTENDS PredicateErrors, TLC

MCSymmetry == Permutations(Run) \cup Permutations(Policy)
=============================================================================
