---------------------------- MODULE MCStorefront -----------------------------
(* The model values and payloads of the runs on Storefront. *)
EXTENDS Storefront, TLC

CONSTANTS s1, s2, p1, p2, p3, r1, r2

(* Repetitions next to each other and apart, and an order that is not the
   products' own. *)
MCAsks == {<<p2, p1, p2>>, <<p1, p1>>}
=============================================================================
