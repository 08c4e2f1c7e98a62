---------------------------- MODULE StockLedger ----------------------------
(***************************************************************************)
(* What inventory/service.py and the docstrings of db/models.py promise    *)
(* about stock, without requests, sessions or locks: every item has a      *)
(* quantity and an append-only log, and both change together, in one step. *)
(*                                                                         *)
(* Two specifications differ only in the quantity a movement starts from.  *)
(*   StrictSpec: from the current stock, the ledger of the module          *)
(*     docstring, whose deltas always add up to the stock;                 *)
(*   AuditSpec: from the current stock, or from one recorded earlier: what *)
(*     is left of that promise when requests overlap.                      *)
(***************************************************************************)
EXTENDS Integers, Sequences

CONSTANTS Items,     \* the (store, product) pairs
          MaxStock   \* the largest quantity the column holds

VARIABLES stock,     \* Items -> 0..MaxStock: the Inventory snapshot
          log        \* Items -> Seq(Entry): InventoryMovement, oldest first

vars == <<stock, log>>

Entry == [delta : Int, quantity_after : 0..MaxStock]

Opened(i, n) == stock[i] = n /\ log[i] = <<[delta |-> n, quantity_after |-> n]>>

(* An item starts empty, or with the stock create_product gave it. *)
Init == /\ DOMAIN stock = Items
        /\ DOMAIN log = Items
        /\ \A i \in Items : \/ stock[i] = 0 /\ log[i] = <<>>
                            \/ stock[i] \in 1..MaxStock /\ Opened(i, stock[i])

Recorded(i) == {0} \cup {log[i][k].quantity_after : k \in DOMAIN log[i]}

(* Record one movement of item i that starts from base and ends at n. *)
Move(i, base, n) ==
  /\ n # base
  /\ stock' = [stock EXCEPT ![i] = n]
  /\ log' = [log EXCEPT ![i] = Append(@, [delta |-> n - base, quantity_after |-> n])]

StrictMove(i) == \E n \in 0..MaxStock : Move(i, stock[i], n)

StrictNext == \E i \in Items : StrictMove(i)

AuditNext == \E i \in Items : \E base \in Recorded(i), n \in 0..MaxStock : Move(i, base, n)

StrictSpec == Init /\ [][StrictNext]_vars
AuditSpec  == Init /\ [][AuditNext]_vars
=============================================================================
