---------------------------- MODULE Availability ----------------------------
(***************************************************************************)
(* What the API says of stock: the filters of the staff's lists, the       *)
(* bucket a guest is shown, and the entries of a batch answer.             *)
(***************************************************************************)
EXTENDS Integers, Sequences, FiniteSets

CONSTANT None  \* a null, a missing row

(* low_stock_only of list_store_inventory. *)
LowStock(quantity, threshold) == threshold # None /\ quantity <= threshold

(* include_zero=false, of both inventory lists. *)
NonZero(quantity) == quantity > 0

CoarsenBelow(quantity, threshold) ==
  CASE quantity = None \/ quantity = 0        -> "out_of_stock"
    [] threshold # None /\ quantity < threshold -> "low_stock"
    [] OTHER                                  -> "in_stock"

(* storefront/schemas.py: coarsen; the first rule that applies. *)
Coarsen(quantity, threshold) ==
  IF quantity = None \/ quantity <= 0 THEN "out_of_stock"
  ELSE IF threshold # None /\ quantity <= threshold THEN "low_stock"
  ELSE "in_stock"

EveryAsked(ids) == ids

(* The loop over `seen` and `unique_ids` of both batch lookups. *)
UniqueIds(ids) ==
  LET next[k \in 0..Len(ids)] ==
        IF k = 0 THEN <<>>
        ELSE IF \E j \in 1..(k - 1) : ids[j] = ids[k] THEN next[k - 1]
        ELSE Append(next[k - 1], ids[k])
  IN next[Len(ids)]
=============================================================================
