----------------------------- MODULE Inventory -----------------------------
(***************************************************************************)
(* The two write endpoints of routers/inventory.py, PUT and POST movements *)
(* on one (store, product) pair, over inventory/service.py and the tables  *)
(* inventory and inventory_movements.                                      *)
(*                                                                         *)
(* A request is a coroutine: it runs alone from one await to the next, and *)
(* other requests run while it waits for the database.  An action is the   *)
(* code between two awaits, the statement the first of them awaits         *)
(* included.  PostgreSQL is at its default isolation, READ COMMITTED: a    *)
(* SELECT sees what is committed; an UPDATE or INSERT holds its row from   *)
(* the flush to the end of the transaction, and whoever writes the row     *)
(* next waits.  Nothing of a transaction shows before its Commit.          *)
(***************************************************************************)
EXTENDS Integers, Sequences, FiniteSets

CONSTANTS
  Stores, Products,  \* rows of stores and of products
  Requests,          \* the requests that can be in flight at once
  Deltas,            \* POST movements: values of InventoryMovementCreate.delta
  Quantities,        \* PUT: values of InventorySetRequest.quantity
  Thresholds,        \* PUT: values of reorder_threshold
  MaxInt,            \* the largest int4
  MaxMovements,      \* bound: the movements of one pair
  None               \* a missing row, an omitted field

ASSUME ConstantsAssumption ==
  /\ Deltas \subseteq Int
  /\ Quantities \subseteq Nat
  /\ Thresholds \subseteq Nat
  /\ MaxInt \in Nat
  /\ MaxMovements \in Nat \ {0}

ASSUME NoneAssumption ==
  /\ None \notin Int
  /\ None \notin Requests

Pairs == [store : Stores, product : Products]

Columns == {"quantity", "reorder_threshold"}

Rows == [quantity : Nat, reorder_threshold : Thresholds \cup {None}]

StoredRows == {row \in Rows : row.quantity <= MaxInt}

(* created_at, as a rank: only its order is observed (list_movements). *)
Times == 1..MaxMovements

Movements == [delta : Int, quantity_after : 0..MaxInt, at : Times]

(* The two payloads; post_movement passes no reorder_threshold. *)
Calls == [op : {"set"}, pair : Pairs, amount : Quantities, threshold : Thresholds \cup {None}]
           \cup [op : {"move"}, pair : Pairs, amount : Deltas, threshold : {None}]

ASSUME NoneIsNoRecord == None \notin Rows /\ None \notin Calls

VARIABLES
  inventory,   \* Pairs -> committed row, or None
  movements,   \* Pairs -> committed movements, in commit order
  active,      \* Stores and Products -> is_active
  lock,        \* Pairs -> the request whose transaction wrote the row, or None
  pc,          \* Requests -> the await the request is about to make
  call,        \* Requests -> its payload
  obj,         \* Requests -> the Inventory object in the session's identity map
  dirty,       \* Requests -> the columns its UPDATE sets
  delta,       \* Requests -> the delta handed to apply_movement
  stamp        \* Requests -> created_at of its flushed movement

database == <<inventory, movements, active, lock>>
session  == <<call, obj, dirty, delta, stamp>>
vars     == <<inventory, movements, active, lock, pc, call, obj, dirty, delta, stamp>>

Steps == {"idle", "require_store", "require_product", "read", "apply",
          "insert", "update", "log", "commit", "refresh"}

PairOf(r) == call[r].pair

InFlight(p) == {r \in Requests : call[r] # None /\ PairOf(r) = p}

-----------------------------------------------------------------------------
(* create_product commits a product together with its first rows, so a pair
   starts untouched or with the INITIAL movement of a positive quantity. *)
Opening == {None} \cup {[quantity |-> q, reorder_threshold |-> t] :
                          q \in {n \in Quantities : 0 < n /\ n <= MaxInt},
                          t \in Thresholds \cup {None}}

Init ==
  /\ inventory \in [Pairs -> Opening]
  /\ movements = [p \in Pairs |->
       IF inventory[p] = None THEN <<>>
       ELSE <<[delta |-> inventory[p].quantity,
               quantity_after |-> inventory[p].quantity, at |-> 1]>>]
  /\ active = [x \in Stores \cup Products |-> TRUE]
  /\ lock = [p \in Pairs |-> None]
  /\ pc = [r \in Requests |-> "idle"]
  /\ call = [r \in Requests |-> None]
  /\ obj = [r \in Requests |-> None]
  /\ dirty = [r \in Requests |-> {}]
  /\ delta = [r \in Requests |-> 0]
  /\ stamp = [r \in Requests |-> None]

(* The end of a request, with any status: its session closes, and rolls back
   what it did not commit. *)
Reply(r) ==
  /\ lock' = [p \in Pairs |-> IF lock[p] = r THEN None ELSE lock[p]]
  /\ pc' = [pc EXCEPT ![r] = "idle"]
  /\ call' = [call EXCEPT ![r] = None]
  /\ obj' = [obj EXCEPT ![r] = None]
  /\ dirty' = [dirty EXCEPT ![r] = {}]
  /\ delta' = [delta EXCEPT ![r] = 0]
  /\ stamp' = [stamp EXCEPT ![r] = None]
  /\ UNCHANGED <<inventory, movements, active>>

Goto(r, step) == pc' = [pc EXCEPT ![r] = step]

(* An authenticated ADMIN's request, already validated against its schema. *)
Receive(r, c) ==
  /\ pc[r] = "idle"
  /\ Len(movements[c.pair]) + Cardinality(InFlight(c.pair)) < MaxMovements
  /\ Goto(r, "require_store")
  /\ call' = [call EXCEPT ![r] = c]
  /\ delta' = [delta EXCEPT ![r] = IF c.op = "move" THEN c.amount ELSE 0]
  /\ UNCHANGED <<database, obj, dirty, stamp>>

RequireAnyStore(r) == /\ pc[r] = "require_store" /\ Goto(r, "require_product")
                      /\ UNCHANGED <<database, session>>

RequireStore(r) ==
  /\ pc[r] = "require_store"
  /\ \/ /\ active[PairOf(r).store]
        /\ Goto(r, "require_product")
        /\ UNCHANGED <<database, session>>
     \/ ~active[PairOf(r).store] /\ Reply(r)                        \* 404

RequireProduct(r) ==
  /\ pc[r] = "require_product"
  /\ \/ /\ active[PairOf(r).product]
        /\ Goto(r, IF call[r].op = "set" THEN "read" ELSE "apply")
        /\ UNCHANGED <<database, session>>
     \/ ~active[PairOf(r).product] /\ Reply(r)                      \* 404

ChangedOrNot(old, new) == Columns

(* The columns an assignment really changed: only those are in the UPDATE. *)
Changed(old, new) == {c \in Columns : old[c] # new[c]}

WithThreshold(row, threshold) ==
  IF threshold = None THEN row ELSE [row EXCEPT !.reorder_threshold = threshold]

(* set_absolute_quantity's own load, up to its next await. *)
ReadCurrent(r) ==
  LET row == inventory[PairOf(r)]
      current == IF row = None THEN 0 ELSE row.quantity
      threshold == call[r].threshold
  IN /\ pc[r] = "read"
     /\ delta' = [delta EXCEPT ![r] = call[r].amount - current]
     /\ \/ /\ call[r].amount # current
           /\ Goto(r, "apply")
           /\ obj' = [obj EXCEPT ![r] = row]
           /\ UNCHANGED dirty
        \/ /\ call[r].amount = current
           /\ row = None
           /\ Goto(r, "insert")
           /\ obj' = [obj EXCEPT ![r] = [quantity |-> 0, reorder_threshold |-> threshold]]
           /\ UNCHANGED dirty
        \/ /\ call[r].amount = current
           /\ row # None
           /\ obj' = [obj EXCEPT ![r] = WithThreshold(row, threshold)]
           /\ dirty' = [dirty EXCEPT ![r] = Changed(row, WithThreshold(row, threshold))]
           \* an UPDATE if a column changed; updated_by alone changes it, or not
           /\ \/ threshold # None /\ Goto(r, "update")
              \/ dirty'[r] = {} /\ Goto(r, "commit")
     /\ UNCHANGED <<database, call, stamp>>

InsufficientIfNew(row, d) == row = None /\ d < 0

(* InsufficientStockError: nothing to take from, or not enough. *)
Insufficient(row, d) == IF row = None THEN d < 0 ELSE row.quantity + d < 0

CommittedRow(r) == inventory[PairOf(r)]

(* What _load returns in apply_movement: the object the session already holds,
   unrefreshed; only a row not seen before is read. *)
LoadedRow(r) == IF obj[r] # None THEN obj[r] ELSE inventory[PairOf(r)]

(* apply_movement up to its flush. *)
ApplyMovement(r) ==
  LET row == LoadedRow(r)
      new == WithThreshold([row EXCEPT !.quantity = @ + delta[r]], call[r].threshold)
  IN /\ pc[r] = "apply"
     /\ \/ delta[r] = 0 /\ Reply(r)                                  \* 422
        \/ Insufficient(row, delta[r]) /\ Reply(r)           \* 409 to POST, 422 to PUT
        \/ /\ row = None
           /\ delta[r] > 0
           /\ Goto(r, "insert")
           /\ obj' = [obj EXCEPT ![r] = [quantity |-> delta[r],
                                         reorder_threshold |-> call[r].threshold]]
           /\ UNCHANGED <<database, call, dirty, delta, stamp>>
        \/ /\ row # None
           /\ delta[r] # 0
           /\ ~Insufficient(row, delta[r])
           /\ Goto(r, "update")
           /\ obj' = [obj EXCEPT ![r] = new]
           /\ dirty' = [dirty EXCEPT ![r] = Changed(row, new)]
           /\ UNCHANGED <<database, call, delta, stamp>>

HoldRowUnlogged(r) ==
  /\ lock' = [lock EXCEPT ![PairOf(r)] = r]
  /\ Goto(r, "commit")
  /\ UNCHANGED <<inventory, movements, active, session>>

(* The statement has run and holds the row; what the transaction does next. *)
HoldRow(r) ==
  /\ lock' = [lock EXCEPT ![PairOf(r)] = r]
  /\ Goto(r, IF delta[r] # 0 THEN "log" ELSE "commit")
  /\ UNCHANGED <<inventory, movements, active, session>>

InsertOver(r) == /\ pc[r] = "insert" /\ obj[r].quantity <= MaxInt
                 /\ lock[PairOf(r)] = None /\ HoldRow(r)

InsertRow(r) ==
  /\ pc[r] = "insert"
  /\ obj[r].quantity <= MaxInt
  /\ lock[PairOf(r)] = None
  /\ \/ inventory[PairOf(r)] = None /\ HoldRow(r)
     \/ inventory[PairOf(r)] # None /\ Reply(r)        \* primary key taken: 500

UpdateRow(r) ==
  /\ pc[r] = "update"
  /\ obj[r].quantity <= MaxInt
  /\ lock[PairOf(r)] = None
  /\ HoldRow(r)

(* The driver refuses a parameter that is no int4: 500, nothing was sent. *)
Overflow(r) ==
  /\ pc[r] \in {"insert", "update"}
  /\ obj[r].quantity > MaxInt
  /\ Reply(r)

(* The created_at values of pair p that are committed or about to be. *)
Stamps(p) ==
  {movements[p][k].at : k \in DOMAIN movements[p]}
    \cup {stamp[q] : q \in {q \in InFlight(p) : stamp[q] # None}}

(* INSERT INTO inventory_movements; _utcnow is called now, and t is its rank
   among the stamps of the pair. *)
LogMovement(r) ==
  /\ pc[r] = "log"
  /\ \E t \in Times :
       /\ \A s \in Stamps(PairOf(r)) : s < t
       /\ t = 1 \/ t - 1 \in Stamps(PairOf(r))
       /\ stamp' = [stamp EXCEPT ![r] = t]
  /\ Goto(r, "commit")
  /\ UNCHANGED <<database, call, obj, dirty, delta>>

WrittenOnce(r) == IF inventory[PairOf(r)] = None THEN obj[r] ELSE inventory[PairOf(r)]

(* The row as the transaction leaves it: inserted whole, or the dirty columns
   written over what other transactions committed. *)
Written(r) ==
  LET row == inventory[PairOf(r)]
  IN IF row = None THEN obj[r]
     ELSE [c \in Columns |-> IF c \in dirty[r] THEN obj[r][c] ELSE row[c]]

Commit(r) ==
  LET p == PairOf(r)
  IN /\ pc[r] = "commit"
     /\ Goto(r, "refresh")
     /\ \/ /\ lock[p] = r
           /\ inventory' = [inventory EXCEPT ![p] = Written(r)]
           /\ lock' = [lock EXCEPT ![p] = None]
        \/ /\ lock[p] # r                                \* no statement was sent
           /\ UNCHANGED <<inventory, lock>>
     /\ movements' =
          IF stamp[r] = None THEN movements
          ELSE [movements EXCEPT ![p] =
                  Append(@, [delta |-> delta[r], quantity_after |-> obj[r].quantity,
                             at |-> stamp[r]])]
     /\ stamp' = [stamp EXCEPT ![r] = None]
     /\ UNCHANGED <<active, call, obj, dirty, delta>>

(* session.refresh re-reads the row for the response. *)
Refresh(r) == pc[r] = "refresh" /\ Reply(r)

(* The connection or the process dies at any await: the server rolls the
   transaction back and the client gets a 500 or nothing.  A crash of the
   whole process is one Fail for each request in flight. *)
Fail(r) == pc[r] # "idle" /\ Reply(r)

(* Another request soft-deletes a store or a product (Stores, Catalog). *)
Retire(x) ==
  /\ active[x]
  /\ active' = [active EXCEPT ![x] = FALSE]
  /\ UNCHANGED <<inventory, movements, lock, pc, session>>

(* Without requests the server rests. *)
Idle == (\A r \in Requests : pc[r] = "idle") /\ UNCHANGED vars

(* The steps a request takes by itself, and those that wait for a row. *)
Run(r) == \/ RequireStore(r) \/ RequireProduct(r) \/ ReadCurrent(r) \/ ApplyMovement(r)
          \/ Overflow(r) \/ LogMovement(r) \/ Commit(r) \/ Refresh(r)
Write(r) == InsertRow(r) \/ UpdateRow(r)

Next == \/ \E r \in Requests : \/ \E c \in Calls : Receive(r, c)
                               \/ Run(r) \/ Write(r) \/ Fail(r)
        \/ \E x \in Stores \cup Products : Retire(x)
        \/ Idle

Spec == Init /\ [][Next]_vars

-----------------------------------------------------------------------------
(* Every variable holds a value of its kind: no stored or recorded quantity is
   negative or wider than int4, the CHECK constraints of db/models.py. *)
TypeOK ==
  /\ inventory \in [Pairs -> StoredRows \cup {None}]
  /\ movements \in [Pairs -> Seq(Movements)]
  /\ active \in [Stores \cup Products -> BOOLEAN]
  /\ lock \in [Pairs -> Requests \cup {None}]
  /\ pc \in [Requests -> Steps]
  /\ call \in [Requests -> Calls \cup {None}]
  /\ obj \in [Requests -> Rows \cup {None}]
  /\ dirty \in [Requests -> SUBSET Columns]
  /\ delta \in [Requests -> Int]
  /\ stamp \in [Requests -> Times \cup {None}]

QuantityOf(p) == IF inventory[p] = None THEN 0 ELSE inventory[p].quantity

(* The audit log explains the snapshot: the movement of a pair with the latest
   created_at, the first line of list_movements, recorded the quantity the row
   has now; a pair without movements has no stock. *)
SnapshotMatchesAudit ==
  \A p \in Pairs :
    \/ movements[p] = <<>> /\ QuantityOf(p) = 0
    \/ \E k \in DOMAIN movements[p] :
         /\ movements[p][k].quantity_after = QuantityOf(p)
         /\ \A j \in DOMAIN movements[p] \ {k} : movements[p][j].at < movements[p][k].at

(* The stock and the log of the abstract ledger. *)
LedgerStock == [p \in Pairs |-> QuantityOf(p)]
LedgerLog ==
  [p \in Pairs |-> [k \in DOMAIN movements[p] |->
     [delta |-> movements[p][k].delta, quantity_after |-> movements[p][k].quantity_after]]]

Ledger == INSTANCE StockLedger
            WITH Items <- Pairs, MaxStock <- MaxInt, stock <- LedgerStock, log <- LedgerLog

(* However requests overlap, stock and log change together in one step, the
   log only grows, and a movement starts from a quantity the pair really had. *)
RefinesAudit == Ledger!AuditSpec

Balanced(p) ==
  LET m == movements[p]
      Sum[k \in 0..Len(m)] == IF k = 0 THEN 0 ELSE Sum[k - 1] + m[k].delta
  IN Sum[Len(m)] = QuantityOf(p)

(* The committed deltas of a pair add up to its quantity: the audit log "kept
   in sync with the snapshot" of inventory/service.py. *)
LedgerBalanced == \A p \in Pairs : Balanced(p)

PutCommits(r) == /\ pc[r] = "commit" /\ pc'[r] = "refresh"
                 /\ call[r].op = "set" /\ delta[r] # 0

(* PUT semantics as set_absolute_quantity's docstring has them: a PUT that
   changes the stock leaves the quantity it was given. *)
PutIsAbsolute ==
  [][\A r \in Requests :
       PutCommits(r) => inventory'[PairOf(r)].quantity = call[r].amount]_vars

(* What a PUT does whatever overlaps it: it leaves the quantity it was given,
   or, when its first load saw no stock, adds that quantity to one that another
   request recorded before its second load. *)
PutSetsOrAdds ==
  [][\A r \in Requests : PutCommits(r) =>
       LET q == inventory'[PairOf(r)].quantity
       IN \/ q = call[r].amount
          \/ /\ delta[r] = call[r].amount
             /\ \E k \in DOMAIN movements[PairOf(r)] :
                  movements[PairOf(r)][k].quantity_after = q - call[r].amount]_vars

(* A threshold never falls back: whatever a transaction writes over, the
   reorder_threshold of a row changes only to the one carried by the PUT that
   is committing.  A PUT without one and a movement change none, neither to null
   nor to the threshold they had loaded before an overlapping PUT set another. *)
ThresholdsKept ==
  [][\A p \in Pairs :
       (inventory[p] # None /\ inventory'[p].reorder_threshold # inventory[p].reorder_threshold)
         => \E r \in InFlight(p) : /\ pc[r] = "commit" /\ pc'[r] = "refresh"
                                   /\ call[r].op = "set" /\ call[r].threshold # None
                                   /\ inventory'[p].reorder_threshold = call[r].threshold]_vars

(* Every request is answered, whoever holds the row or the connection it needs:
   blocked writers get their turn and every error path ends the request, so that
   a request is again and again done. *)
RequestsFinish == \A r \in Requests : []<>(pc[r] = "idle")

(* Requests that passed the checks for a store that is retired now. *)
PastStore(s) == {r \in Requests : pc[r] \notin {"idle", "require_store"} /\ PairOf(r).store = s}

(* The is_active checks of _require_store are not repeated before the commit,
   yet the writes to a retired store die out: from some point on no request is
   past its check, although new ones keep coming. *)
RetiredStoresDrain == \A s \in Stores : <>[](active[s] \/ PastStore(s) = {})
=============================================================================
