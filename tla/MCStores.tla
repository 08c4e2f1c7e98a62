------------------------------ MODULE MCStores ------------------------------
(* The model values and payloads of the runs on Stores. *)
EXTENDS Stores, TLC

CONSTANTS u1, u2, ghost, i1, i2, a, b, d, r1, r2

Create(u, kind, owner, slug, detail) ==
  [user |-> u, kind |-> kind, owner |-> owner, slug |-> slug, detail |-> detail]

(* Both users compete for slug a; an admin may name an owner, an unknown one
   too; every kind is created, and one payload is refused for its fields. *)
MCCreates ==
  {Create(u1, "marketplace", None, a, None), Create(u2, "marketplace", None, a, None),
   Create(u1, "online", None, b, d), Create(u2, "physical", None, b, d),
   Create(u1, "marketplace", ghost, b, None), Create(u2, "online", None, a, None),
   Create(u2, "marketplace", None, None, None)}

MCPatches == {[slug |-> b], [slug |-> None], [detail |-> None], [is_active |-> TRUE]}

(* Two stores that want each other's slug, and a create that the foreign key of
   its owner refuses. *)
FewCreates == {Create(u1, "online", None, a, d), Create(u1, "online", None, b, d),
               Create(u1, "marketplace", ghost, b, None)}
FewPatches == {[slug |-> a], [slug |-> b], [detail |-> None]}

Symmetry == Permutations(Requests) \cup Permutations(StoreIds)
=============================================================================
