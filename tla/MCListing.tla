------------------------------ MODULE MCListing ------------------------------
(* The model values and bounds of the runs on Listing. *)
EXTENDS Listing, TLC

CONSTANTS i1, i2, i3

Symmetry == Permutations(Ids)
=============================================================================
