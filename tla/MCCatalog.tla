----------------------------- MODULE MCCatalog ------------------------------
(* The model values and payloads of the runs on Catalog. *)
EXTENDS Catalog, TLC

CONSTANTS u1, u2, u3, i1, i2, s1, s2, a, b, x, y, r1, r2

Create(slug, sku, items) == [slug |-> slug, sku |-> sku, items |-> items]
Item(store, quantity) == [store |-> store, quantity |-> quantity]

(* Two stores with one empty; the second item too large for int4; one payload
   per refusal; and slugs and SKUs that clash one without the other. *)
MCCreates ==
  {Create(a, x, <<Item(s1, 0), Item(s2, 2)>>),
   Create(b, x, <<Item(s1, 1), Item(s2, 3)>>),
   Create(b, None, <<Item(s2, 1), Item(s1, 2)>>),
   Create(b, None, <<Item(s1, 1), Item(s1, 1)>>),
   Create(None, None, <<>>)}

(* Two products that can want each other's slug, a null for a column that is NOT
   NULL, and an attempt to bring a deleted product back. *)
MCPatches == {[slug |-> a], [slug |-> b, sku |-> x], [slug |-> None], [is_active |-> TRUE]}

Symmetry == Permutations(Requests) \cup Permutations(ProductIds) \cup Permutations(Admins)
=============================================================================
