---------------------------- MODULE MCDeployment ----------------------------
(* The model values and the symmetry of the run on Deployment. *)
EXTENDS Deployment, TLC

CONSTANTS k1, k2, i1, i2, u, p, q, c1, c2, r1, r2, w1, w2, a, b

Symmetry == Permutations(Commands) \cup Permutations(Ids) \cup Permutations(Operators)
              \cup Permutations(Passwords) \cup Permutations(Requests)
              \cup Permutations(Workers) \cup Permutations(Keys)
=============================================================================
