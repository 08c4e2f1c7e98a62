------------------------------ MODULE Catalog -------------------------------
(***************************************************************************)
(* routers/products.py: create with initial inventory, PATCH and soft      *)
(* delete of products, over PostgreSQL at READ COMMITTED.                  *)
(*                                                                         *)
(* An action is the code between two awaits.  A create is one transaction  *)
(* of many statements: the product, which waits for its slug and its SKU   *)
(* in the unique indexes, then apply_movement for every item.  On a new    *)
(* product that function always takes its first-touch branch, so its load  *)
(* and its two inserts are one step here (Inventory has the whole of it).  *)
(*                                                                         *)
(* The columns kept are those that rules tell apart: slug (unique, NOT     *)
(* NULL), sku (unique, may be null) and is_active (NOT NULL).              *)
(***************************************************************************)
EXTENDS Integers, Sequences, FiniteSets

CONSTANTS
  Users, Admins,  \* rows of users; those whose role is ADMIN, which never changes
  ProductIds,     \* bound: the products there can be
  StoreIds,       \* rows of stores
  Slugs, Skus,
  Creates,        \* the ProductCreate payloads
  Patches,        \* the ProductUpdate payloads: the fields set, with their values
  MaxInt,         \* the largest int4
  Requests,       \* the requests that can be in flight at once
  None            \* a missing row, a null

Columns == {"slug", "sku", "is_active"}

Values == [slug |-> Slugs \cup {None}, sku |-> Skus \cup {None}, is_active |-> BOOLEAN \cup {None}]

Items == [store : StoreIds, quantity : Nat]

ASSUME AdminsAssumption == Admins \subseteq Users

ASSUME PayloadsAssumption ==
  /\ \A p \in Creates : /\ p.slug \in Slugs \cup {None} /\ p.sku \in Skus \cup {None}
                        /\ p.items \in Seq(Items)
  /\ \A p \in Patches : DOMAIN p \subseteq Columns /\ \A c \in DOMAIN p : p[c] \in Values[c]

ASSUME MaxIntAssumption == MaxInt \in Nat

Rows == [slug : Slugs \cup {None}, sku : Skus \cup {None}, is_active : BOOLEAN \cup {None},
         created_by : Admins]

Calls == [op : {"create"}, user : Users, payload : Creates]
           \cup [op : {"patch"}, user : Users, id : ProductIds, payload : Patches]
           \cup [op : {"delete"}, user : Users, id : ProductIds]

ASSUME NoneAssumption == None \notin BOOLEAN /\ None \notin Rows /\ None \notin Calls

(* Stock of one product: the stores where it has a row, and the quantity. *)
Openings == UNION {[set -> 1..MaxInt] : set \in SUBSET StoreIds}

VARIABLES
  products,      \* ProductIds -> committed row, or None
  opening,       \* ProductIds -> its inventory rows, each with its INITIAL movement
  store_active,  \* StoreIds -> stores.is_active
  pc,            \* Requests -> the await the request is about to make
  call,          \* Requests -> caller, payload and path
  session        \* Requests -> what the handler and its SQLAlchemy session hold

database == <<products, opening, store_active>>
vars == <<products, opening, store_active, pc, call, session>>

Steps == {"idle", "authenticate", "stores", "load", "update", "slug", "sku", "items",
          "commit", "respond"}

(* obj, dirty: the Product and the columns its statement writes; added: the
   last item the loop has applied; opened: the rows it has flushed. *)
Sessions == [id : ProductIds \cup {None}, obj : Rows \cup {None}, dirty : SUBSET Columns,
             added : Nat, opened : Openings]

Nothing == [s \in {} |-> 0]
Fresh == [id |-> None, obj |-> None, dirty |-> {}, added |-> 0, opened |-> Nothing]

-----------------------------------------------------------------------------
Init ==
  /\ products = [id \in ProductIds |-> None]
  /\ opening = [id \in ProductIds |-> Nothing]
  /\ store_active = [s \in StoreIds |-> TRUE]
  /\ pc = [r \in Requests |-> "idle"]
  /\ call = [r \in Requests |-> None]
  /\ session = [r \in Requests |-> Fresh]

(* The end of a request with any status; an open transaction rolls back. *)
Reply(r) ==
  /\ pc' = [pc EXCEPT ![r] = "idle"]
  /\ call' = [call EXCEPT ![r] = None]
  /\ session' = [session EXCEPT ![r] = Fresh]
  /\ UNCHANGED database

Goto(r, step) == pc' = [pc EXCEPT ![r] = step]

Creating == {r \in Requests : call[r] # None /\ call[r].op = "create"}

Receive(r, c) ==
  /\ pc[r] = "idle"
  /\ c.op = "create" =>
       Cardinality({id \in ProductIds : products[id] # None}) + Cardinality(Creating)
         < Cardinality(ProductIds)
  /\ Goto(r, "authenticate")
  /\ call' = [call EXCEPT ![r] = c]
  /\ UNCHANGED <<database, session>>

(* `initial_inventory contains duplicate store_id entries`. *)
NamesStoreTwice(items) ==
  \E j, k \in DOMAIN items : j # k /\ items[j].store = items[k].store

FreshIds == {id \in ProductIds : products[id] = None /\ \A q \in Creating : session[q].id # id}

AnyQuantity(item) == TRUE

Positive(item) == item.quantity > 0

(* RequireAdmin, and create_product up to its first await. *)
CreateProduct(r) ==
  LET p == call[r].payload
      refused == \/ call[r].user \notin Admins                          \* 403
                 \/ p.slug = None                                       \* 422
                 \/ NamesStoreTwice(p.items)                            \* 422
  IN /\ pc[r] = "authenticate"
     /\ call[r].op = "create"
     /\ \/ refused /\ Reply(r)
        \/ /\ ~refused
           /\ \E id \in FreshIds :
                session' = [session EXCEPT ![r] =
                  [id |-> id,
                   obj |-> [slug |-> p.slug, sku |-> p.sku, is_active |-> TRUE,
                            created_by |-> call[r].user],
                   dirty |-> Columns,
                   added |-> 0,
                   opened |-> Nothing]]
           /\ Goto(r, IF p.items = <<>> THEN "slug" ELSE "stores")
           /\ UNCHANGED <<database, call>>

(* One SELECT for all stores named, zero quantities included. *)
CheckStores(r) ==
  LET items == call[r].payload.items
      allActive == \A k \in DOMAIN items : store_active[items[k].store]
  IN /\ pc[r] = "stores"
     /\ \/ ~allActive /\ Reply(r)                                       \* 422
        \/ allActive /\ Goto(r, "slug") /\ UNCHANGED <<database, call, session>>

Authenticate(r) ==
  /\ pc[r] = "authenticate"
  /\ call[r].op # "create"
  /\ \/ call[r].user \notin Admins /\ Reply(r)                          \* 403
     \/ /\ call[r].user \in Admins
        /\ session' = [session EXCEPT ![r].id = call[r].id]
        /\ Goto(r, "load")
        /\ UNCHANGED <<database, call>>

Assigned(c) == IF c.op = "delete" THEN [set \in {"is_active"} |-> FALSE] ELSE c.payload

Present(row) == row # None

(* What _load_product returns rather than a 404. *)
Visible(row) == row # None /\ row.is_active

(* _load_product, the creator check, and the assignments; only the columns
   they really change are in the UPDATE, and none is sent when none is. *)
LoadProduct(r) ==
  LET row == products[session[r].id]
      set == Assigned(call[r])
      changed == {c \in DOMAIN set : set[c] # row[c]}
  IN /\ pc[r] = "load"
     /\ \/ ~Visible(row) /\ Reply(r)                                    \* 404
        \/ Visible(row) /\ row.created_by # call[r].user /\ Reply(r)     \* 403
        \/ /\ Visible(row)
           /\ row.created_by = call[r].user
           /\ session' = [session EXCEPT
                ![r].obj = [c \in DOMAIN row |-> IF c \in DOMAIN set THEN set[c] ELSE row[c]],
                ![r].dirty = changed]
           /\ Goto(r, IF changed = {} THEN "commit" ELSE "update")
           /\ UNCHANGED <<database, call>>

WrittenWhole(r) == session[r].obj

(* The row as the transaction leaves it. *)
Written(r) ==
  LET old == products[session[r].id]
  IN IF old = None THEN session[r].obj
     ELSE [c \in DOMAIN old |-> IF c \in session[r].dirty THEN session[r].obj[c] ELSE old[c]]

(* The NOT NULL columns of db/models.py. *)
RowAllowed(row) == row.slug # None /\ row.is_active # None

Holds(q, id) == /\ pc[q] \in {"slug", "sku", "commit"}
                /\ call[q].op # "create"
                /\ session[q].id = id
                /\ session[q].dirty # {}

RowFree(r) == \A q \in Requests : ~Holds(q, session[r].id)

UpdateRow(r) ==
  /\ pc[r] = "update"
  /\ RowFree(r)
  /\ RowAllowed(Written(r))
  /\ Goto(r, "slug")
  /\ UNCHANGED <<database, call, session>>

(* How far a transaction's statement has come through the two unique indexes:
   the values it takes off a row, and those it has put into an index, are in
   doubt for the others. *)
Claimed(q, column) ==
  /\ column \in session[q].dirty
  /\ pc[q] \in {"items", "commit"} \/ (pc[q] = "sku" /\ column = "slug")

Touches(q, column) ==
  {products[id][column] : id \in {id \in ProductIds : /\ products[id] # None
                                                      /\ Holds(q, id) /\ column \in session[q].dirty}}
    \cup (IF Claimed(q, column) THEN {session[q].obj[column]} ELSE {})

Wanted(r, column) == column \in session[r].dirty /\ session[r].obj[column] # None

Blockers(r, column) ==
  {q \in Requests \ {r} : Wanted(r, column) /\ session[r].obj[column] \in Touches(q, column)}

TakenByActive(r, column) ==
  /\ Wanted(r, column)
  /\ \E id \in ProductIds \ {session[r].id} :
       /\ products[id] # None /\ products[id].is_active
       /\ products[id][column] = session[r].obj[column]

Taken(r, column) ==
  /\ Wanted(r, column)
  /\ \E id \in ProductIds \ {session[r].id} :
       products[id] # None /\ products[id][column] = session[r].obj[column]

(* The flush goes through the index on slug, then the one on sku. *)
Claim(r, column) ==
  /\ pc[r] = column
  /\ Blockers(r, column) = {}
  /\ ~Taken(r, column)
  /\ Goto(r, CASE column = "slug" -> "sku"
               [] column = "sku" /\ call[r].op = "create" -> "items"
               [] OTHER -> "commit")
  /\ UNCHANGED <<database, call, session>>

(* IntegrityError: every one is answered with 409 "slug or sku already in use". *)
Conflict(r) ==
  /\ \/ \E column \in {"slug", "sku"} :
          pc[r] = column /\ Blockers(r, column) = {} /\ Taken(r, column)
     \/ pc[r] = "update" /\ RowFree(r) /\ ~RowAllowed(Written(r))
  /\ Reply(r)

(* PostgreSQL aborts one of the transactions that wait for each other: 500. *)
Cycle(S) == \A q \in S : \E column \in {"slug", "sku"} :
              pc[q] = column /\ Blockers(q, column) \cap S # {}

DeadlockVictim(r) ==
  \E S \in SUBSET Requests : /\ r \in S /\ Cycle(S)
                             /\ \A T \in (SUBSET S) \ {{}, S} : ~Cycle(T)
                             /\ Reply(r)

AnyInt(item) == TRUE

FitsInt4(item) == item.quantity <= MaxInt

(* The items the loop has still to apply; it skips those of quantity 0. *)
Remaining(r) ==
  LET items == call[r].payload.items
  IN {k \in DOMAIN items : k > session[r].added /\ Positive(items[k])}

(* apply_movement for the next item: an inventory row and its movement. *)
AddItem(r) ==
  LET items == call[r].payload.items
  IN /\ pc[r] = "items"
     /\ \/ /\ Remaining(r) = {}
           /\ Goto(r, "commit")
           /\ UNCHANGED <<database, call, session>>
        \/ \E k \in Remaining(r) :
             /\ \A j \in Remaining(r) : k <= j
             /\ \/ /\ FitsInt4(items[k])
                   /\ session' = [session EXCEPT
                        ![r].added = k,
                        ![r].opened = [s \in DOMAIN @ \cup {items[k].store} |->
                                         IF s = items[k].store THEN items[k].quantity ELSE @[s]]]
                   /\ UNCHANGED <<database, pc, call>>
                \/ ~FitsInt4(items[k]) /\ Reply(r)             \* no int4: 500

Commit(r) ==
  /\ pc[r] = "commit"
  /\ Goto(r, "respond")
  /\ products' = IF session[r].dirty = {} THEN products
                 ELSE [products EXCEPT ![session[r].id] = Written(r)]
  /\ opening' = IF call[r].op # "create" THEN opening
                ELSE [opening EXCEPT ![session[r].id] = session[r].opened]
  /\ session' = [session EXCEPT ![r] = Fresh]
  /\ UNCHANGED <<store_active, call>>

(* session.refresh and the response; a delete has nothing to refresh. *)
Respond(r) == pc[r] = "respond" /\ Reply(r)

(* The connection or the process dies at any await. *)
Fail(r) == pc[r] # "idle" /\ Reply(r)

(* Another request soft-deletes a store (module Stores). *)
RetireStore(s) ==
  /\ store_active[s]
  /\ store_active' = [store_active EXCEPT ![s] = FALSE]
  /\ UNCHANGED <<products, opening, pc, call, session>>

Idle == (\A r \in Requests : pc[r] = "idle") /\ UNCHANGED vars

Run(r) == \/ CreateProduct(r) \/ CheckStores(r) \/ Authenticate(r) \/ LoadProduct(r)
          \/ AddItem(r) \/ Commit(r) \/ Respond(r)

Write(r) == \/ UpdateRow(r) \/ Claim(r, "slug") \/ Claim(r, "sku")
            \/ Conflict(r) \/ DeadlockVictim(r)

Next == \/ \E r \in Requests : \/ \E c \in Calls : Receive(r, c)
                               \/ Run(r) \/ Write(r) \/ Fail(r)
        \/ \E s \in StoreIds : RetireStore(s)
        \/ Idle

Spec == Init /\ [][Next]_vars

-----------------------------------------------------------------------------
(* Every variable holds a value of its kind, and a committed row has no null
   slug or is_active. *)
TypeOK ==
  /\ products \in [ProductIds -> {row \in Rows : RowAllowed(row)} \cup {None}]
  /\ opening \in [ProductIds -> Openings]
  /\ store_active \in [StoreIds -> BOOLEAN]
  /\ pc \in [Requests -> Steps]
  /\ call \in [Requests -> Calls \cup {None}]
  /\ session \in [Requests -> Sessions]

(* No two products share a slug or a non-null SKU, retired ones included. *)
KeysUnique ==
  \A i, j \in ProductIds : (i # j /\ products[i] # None /\ products[j] # None) =>
    /\ products[i].slug # products[j].slug
    /\ products[i].sku = None \/ products[i].sku # products[j].sku

Commits(r, i) == pc[r] = "commit" /\ pc'[r] = "respond" /\ session[r].id = i

(* A product and all of its initial stock appear in one step, each positive
   item with its own quantity and no other row, and never change again here: a
   create that fails on a later item, on its slug or half way leaves nothing
   (the description of ProductCreate.initial_inventory). *)
InitialStockIsWhole ==
  [][\A i \in ProductIds :
       /\ (products[i] = None /\ products'[i] # None) =>
            \E r \in Requests :
              LET items == call[r].payload.items
              IN /\ Commits(r, i)
                 /\ DOMAIN opening'[i] = {items[k].store : k \in
                                            {k \in DOMAIN items : items[k].quantity > 0}}
                 /\ \A k \in DOMAIN items : items[k].quantity > 0 =>
                      opening'[i][items[k].store] = items[k].quantity
       /\ opening'[i] # opening[i] => products[i] = None /\ products'[i] # None]_vars

(* A column of a product changes only by the committing request of its creator
   and only to the value that request carries; created_by never changes. *)
CreatorsPayloadOnly ==
  [][\A i \in ProductIds : (products[i] # None /\ products'[i] # products[i]) =>
       \E r \in Requests :
         /\ Commits(r, i)
         /\ call[r].user = products[i].created_by
         /\ \A c \in DOMAIN products[i] : products'[i][c] # products[i][c] =>
              c \in DOMAIN Assigned(call[r]) /\ Assigned(call[r])[c] = products'[i][c]]_vars

(* A soft-deleted product stays deleted, also when a PATCH that loaded it while
   it was active commits later. *)
RetiredForever ==
  [][\A i \in ProductIds :
       (products[i] # None /\ products[i].is_active = FALSE) => products'[i].is_active = FALSE]_vars
=============================================================================
