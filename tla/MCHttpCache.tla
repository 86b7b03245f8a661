---------------------------- MODULE MCHttpCache ----------------------------
(***************************************************************************)
(* Instances of HttpCache for TLC: two bodies that differ in length, and   *)
(* three of which two do not.                                              *)
(***************************************************************************)
EXTENDS HttpCache, TLC

CONSTANTS b1, b2, b3

DifferentSizes == b1 :> 1 @@ b2 :> 2
SharedSizes == b1 :> 1 @@ b2 :> 2 @@ b3 :> 2
Symmetry == Permutations(Loaders) \cup Permutations(Keys)
SharedSymmetry == Permutations(Keys) \cup Permutations({b2, b3})
=============================================================================
