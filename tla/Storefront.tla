----------------------------- MODULE Storefront ------------------------------
(***************************************************************************)
(* The reads of stock: the guest's routers/storefront.py, and the staff's  *)
(* lookup and single row of routers/inventory.py.  The two batch reads and *)
(* the guest's single read load the store first and the stock in a second  *)
(* statement, so stores may be retired and stock written in between.       *)
(***************************************************************************)
EXTENDS Availability

CONSTANTS
  Stores,      \* store ids, whether there is such a store or not
  Products,
  Asks,        \* the product_ids of batch payloads, 1 to 100 with repetitions
  Quantities, Thresholds,
  Requests

Kinds == {"PHYSICAL", "ONLINE", "MARKETPLACE"}

StoreRows == [kind : Kinds, is_active : BOOLEAN]
StockRows == [quantity : Quantities, threshold : Thresholds \cup {None}]

Calls == [op : {"guest_single", "staff_single"}, store : Stores, ids : {<<p>> : p \in Products}]
           \cup [op : {"guest_batch", "staff_batch"}, store : Stores, ids : Asks]

ASSUME AsksAssumption == Asks \subseteq Seq(Products) \ {<<>>}
ASSUME QuantitiesAssumption == Quantities \subseteq Nat
ASSUME ThresholdsAssumption == Thresholds \subseteq Nat
ASSUME NoneAssumption == None \notin Int /\ None \notin StoreRows

VARIABLES
  stores,     \* Stores -> row, or None
  inventory,  \* Stores \X Products -> row, or None
  pc,         \* Requests -> the await the handler is about to make
  call,       \* Requests -> endpoint, path and payload
  reply,      \* Requests -> status and entries of its last response
  closed      \* Requests -> history: no guest could see the store when the request came

vars == <<stores, inventory, pc, call, reply, closed>>

Guest(c) == c.op \in {"guest_single", "guest_batch"}

Entries == [id : Products, bucket : {"in_stock", "low_stock", "out_of_stock"}]
             \cup [id : Products, quantity : Quantities \cup {0},
                   threshold : Thresholds \cup {None}, present : BOOLEAN]

Replies == [status : {200, 404}, entries : Seq(Entries)]

NotFound == [status |-> 404, entries |-> <<>>]

-----------------------------------------------------------------------------
Init ==
  /\ stores = [s \in Stores |-> None]
  /\ inventory = [c \in Stores \X Products |-> None]
  /\ pc = [r \in Requests |-> "idle"]
  /\ call = [r \in Requests |-> None]
  /\ reply = [r \in Requests |-> None]
  /\ closed = [r \in Requests |-> FALSE]

Active(s) == stores[s] # None /\ stores[s].is_active

AnyActive(s) == Active(s)

(* _require_public_store. *)
Public(s) == Active(s) /\ stores[s].kind = "ONLINE"

Respond(r, response) ==
  /\ pc' = [pc EXCEPT ![r] = "idle"]
  /\ reply' = [reply EXCEPT ![r] = response]
  /\ UNCHANGED <<stores, inventory, call, closed>>

Goto(r, step) ==
  /\ pc' = [pc EXCEPT ![r] = step]
  /\ UNCHANGED <<stores, inventory, call, reply, closed>>

(* get_inventory_row asks nothing of the store. *)
Receive(r, c) ==
  /\ pc[r] = "idle"
  /\ pc' = [pc EXCEPT ![r] = IF c.op = "staff_single" THEN "select" ELSE "require"]
  /\ call' = [call EXCEPT ![r] = c]
  /\ reply' = [reply EXCEPT ![r] = None]
  /\ closed' = [closed EXCEPT ![r] = stores[c.store] # None /\
                   (stores[c.store].is_active => stores[c.store].kind # "ONLINE")]
  /\ UNCHANGED <<stores, inventory>>

Require(r) ==
  LET found == IF Guest(call[r]) THEN Public(call[r].store) ELSE Active(call[r].store)
  IN /\ pc[r] = "require"
     /\ IF found THEN Goto(r, "select") ELSE Respond(r, NotFound)

(* What a guest is shown of a pair, and what staff is. *)
GuestEntry(s, p) ==
  LET row == inventory[<<s, p>>]
  IN [id |-> p, bucket |-> IF row = None THEN Coarsen(None, None)
                           ELSE Coarsen(row.quantity, row.threshold)]

StaffEntry(s, p) ==
  LET row == inventory[<<s, p>>]
  IN [id |-> p, quantity |-> IF row = None THEN 0 ELSE row.quantity,
      threshold |-> IF row = None THEN None ELSE row.threshold, present |-> row # None]

FullEntry(c, p) == StaffEntry(c.store, p)

Entry(c, p) == IF Guest(c) THEN GuestEntry(c.store, p) ELSE StaffEntry(c.store, p)

(* One SELECT for all the products, then an entry for each, in their order. *)
Select(r) ==
  LET c == call[r]
      ids == UniqueIds(c.ids)
  IN /\ pc[r] = "select"
     /\ Respond(r, IF c.op = "staff_single" /\ inventory[<<c.store, c.ids[1]>>] = None THEN NotFound
                   ELSE [status |-> 200,
                         entries |-> [k \in 1..Len(ids) |-> Entry(c, ids[k])]])

(* The commits of the writers (modules Stores and Inventory); there is no way
   back from is_active = FALSE. *)
CreateStore(s, row) ==
  /\ stores[s] = None
  /\ row.is_active
  /\ stores' = [stores EXCEPT ![s] = row]
  /\ UNCHANGED <<inventory, pc, call, reply, closed>>

RetireStore(s) ==
  /\ Active(s)
  /\ stores' = [stores EXCEPT ![s].is_active = FALSE]
  /\ UNCHANGED <<inventory, pc, call, reply, closed>>

WriteStock(s, p, row) ==
  /\ stores[s] # None
  /\ inventory' = [inventory EXCEPT ![<<s, p>>] = row]
  /\ UNCHANGED <<stores, pc, call, reply, closed>>

Next ==
  \/ \E r \in Requests : \/ \E c \in Calls : Receive(r, c)
                         \/ Require(r) \/ Select(r)
  \/ \E s \in Stores : \/ \E row \in StoreRows : CreateStore(s, row)
                       \/ RetireStore(s)
                       \/ \E p \in Products, row \in StockRows : WriteStock(s, p, row)

Spec == Init /\ [][Next]_vars

-----------------------------------------------------------------------------
(* Every variable holds a value of its kind; a guest's answer has nothing but
   buckets ("never exact quantities or thresholds", routers/storefront.py). *)
TypeOK ==
  /\ stores \in [Stores -> StoreRows \cup {None}]
  /\ inventory \in [Stores \X Products -> StockRows \cup {None}]
  /\ pc \in [Requests -> {"idle", "require", "select"}]
  /\ call \in [Requests -> Calls \cup {None}]
  /\ reply \in [Requests -> Replies \cup {None}]
  /\ closed \in [Requests -> BOOLEAN]
  /\ \A r \in Requests : reply[r] # None /\ Guest(call[r]) =>
       \A k \in DOMAIN reply[r].entries : DOMAIN reply[r].entries[k] = {"id", "bucket"}

(* A guest who asks for a store that is retired, or of another kind, gets the one
   404 there is ("the response shape doesn't leak the existence of internal
   stores"); only requests under way can be answered past the store's end. *)
OnlyPublicStores ==
  \A r \in Requests : (reply[r] # None /\ Guest(call[r])) =>
    reply[r] = NotFound \/ (reply[r].status = 200 /\ ~closed[r])

(* A batch answer names every product asked for once, in the order in which the
   client first named it. *)
AnswersInOrder ==
  \A r \in Requests : (reply[r] # None /\ reply[r].status = 200) =>
    LET asked == call[r].ids
        answered == reply[r].entries
        First(p) == CHOOSE j \in DOMAIN asked : asked[j] = p /\ \A k \in 1..(j - 1) : asked[k] # p
    IN /\ {answered[k].id : k \in DOMAIN answered} = {asked[j] : j \in DOMAIN asked}
       /\ \A j, k \in DOMAIN answered : j < k => First(answered[j].id) < First(answered[k].id)

(* Guests and staff are told the same of a pair: low_stock is exactly what staff
   finds in the store's list with low_stock_only and without zero rows, and
   out_of_stock exactly what the lookup shows as quantity 0. *)
GuestsSeeWhatStaffSees ==
  \A s \in Stores, p \in Products :
    LET guest == GuestEntry(s, p).bucket
        staff == StaffEntry(s, p)
    IN /\ guest = "out_of_stock" <=> ~NonZero(staff.quantity)
       /\ guest = "low_stock" <=> /\ staff.present
                                  /\ NonZero(staff.quantity)
                                  /\ LowStock(staff.quantity, staff.threshold)
=============================================================================
