---------------------------- MODULE MCInventory ----------------------------
(* The model values and payloads of the runs on Inventory and Serving. *)
EXTENDS Serving

CONSTANTS s1, p1, r1, r2

(* A sale, the delta a client must not send, and a delivery that with MaxInt = 2
   overflows on a shelf that is not empty. *)
MCDeltas == {-1, 0, 2}

(* One sale or one delivery, for the counterexamples. *)
FewDeltas == {-1, 1}
=============================================================================
