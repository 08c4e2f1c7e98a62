---------------------------- MODULE CatalogProofs ----------------------------
(***************************************************************************)
(* Proofs about Catalog, for any users, products, stores, payloads and     *)
(* requests: the two keys of products stay unique, a product appears with  *)
(* all of its initial stock, and only its creator's payload reaches it.    *)
(*                                                                         *)
(* As in StoresProofs, IInv says what every request under way relies on    *)
(* (SessionInv) and what no two requests have both (PairInv).  New here    *)
(* are the second key, which may be null, and the stock that a create has  *)
(* built up so far.                                                        *)
(***************************************************************************)
EXTENDS Catalog, TLAPS

Keys == {"slug", "sku"}

(* A create that has its new id; an edit that has loaded its row. *)
Opening(r) == /\ pc[r] \in {"stores", "slug", "sku", "items", "commit"}
              /\ call[r].op = "create"

Editing(r) == /\ pc[r] \in {"update", "slug", "sku", "commit"}
              /\ call[r].op # "create"

(* The steps of the two kinds of request, and a session that has done nothing. *)
Staged(r) ==
  /\ call[r] = None <=> pc[r] = "idle"
  /\ pc[r] \in {"idle", "authenticate", "respond"} => session[r] = Fresh
  /\ pc[r] \in {"load", "update"} => call[r].op # "create"
  /\ pc[r] \in {"stores", "items"} => call[r].op = "create"

(* The stock of the first n items, and of nothing else. *)
Stocked(opened, items, n) ==
  LET kept == {k \in DOMAIN items : k <= n /\ Positive(items[k])}
  IN /\ DOMAIN opened = {items[k].store : k \in kept}
     /\ \A k \in kept : opened[items[k].store] = items[k].quantity

(* The new row takes an id of its own; its stock grows item by item, and is
   complete when the request is about to commit. *)
Opens(r) ==
  LET own == session[r]
      items == call[r].payload.items
  IN Opening(r) =>
       /\ own.id \in ProductIds /\ products[own.id] = None
       /\ own.dirty = Columns
       /\ own.obj \in Rows /\ RowAllowed(own.obj)
       /\ ~NamesStoreTwice(items)
       /\ Stocked(own.opened, items, own.added)
       /\ pc[r] = "commit" => Remaining(r) = {}

Loads(r) ==
  pc[r] = "load" =>
    /\ session[r].id = call[r].id /\ session[r].dirty = {} /\ session[r].opened = Nothing

(* An edit carries nothing but its payload, for a row that its caller made. *)
Edits(r) ==
  LET id == session[r].id
  IN Editing(r) =>
       /\ id = call[r].id
       /\ products[id] # None /\ session[r].obj \in Rows
       /\ products[id].created_by = call[r].user
       /\ \A c \in session[r].dirty : /\ c \in DOMAIN Assigned(call[r])
                                      /\ session[r].obj[c] = Assigned(call[r])[c]
       /\ "is_active" \in session[r].dirty => session[r].obj.is_active # TRUE
       /\ pc[r] # "commit" => session[r].dirty # {}
       /\ pc[r] # "update" /\ session[r].dirty # {} => RowAllowed(Written(r))

SessionInv == \A r \in Requests : Staged(r) /\ Opens(r) /\ Loads(r) /\ Edits(r)

(* What two requests never have both: a new id, a row, a slug, a SKU. *)
Apart(q, r) ==
  /\ Opening(q) /\ Opening(r) => session[q].id # session[r].id
  /\ \A id \in ProductIds : ~(Holds(q, id) /\ Holds(r, id))
  /\ \A c \in Keys : Claimed(q, c) /\ Claimed(r, c) /\ session[q].obj[c] # None =>
                       session[q].obj[c] # session[r].obj[c]

PairInv == \A q, r \in Requests : q # r => Apart(q, r)

ClaimInv == \A r \in Requests, c \in Keys : Claimed(r, c) => ~Taken(r, c)

KeyUnique(c) ==
  \A i, j \in ProductIds : (i # j /\ products[i] # None /\ products[j] # None) =>
    products[i][c] = None \/ products[i][c] # products[j][c]

UniqueInv == \A c \in Keys : KeyUnique(c)

IInv == TypeOK /\ UniqueInv /\ SessionInv /\ PairInv /\ ClaimInv

-----------------------------------------------------------------------------
(* What a call carries. *)
LEMMA CallFields ==
  ASSUME NEW c \in Calls
  PROVE  /\ c.user \in Users
         /\ c.op = "create" =>
              /\ c.payload \in Creates
              /\ c.payload.slug \in Slugs \cup {None} /\ c.payload.sku \in Skus \cup {None}
              /\ c.payload.items \in Seq(Items)
         /\ c.op # "create" => c.id \in ProductIds
  BY PayloadsAssumption DEF Calls

(* The columns a PATCH or DELETE assigns, and to what. *)
LEMMA AssignedType ==
  ASSUME NEW c \in Calls, c.op # "create"
  PROVE  /\ DOMAIN Assigned(c) \subseteq Columns
         /\ \A column \in DOMAIN Assigned(c) : Assigned(c)[column] \in Values[column]
<1>1. CASE c.op = "delete"
  <2>1. Assigned(c) = [set \in {"is_active"} |-> FALSE]
    BY <1>1 DEF Assigned
  <2>2. Values["is_active"] = BOOLEAN \cup {None}
    BY DEF Values
  <2>3. FALSE \in Values["is_active"]
    BY <2>2
  <2> QED
    BY <2>1, <2>3 DEF Columns
<1>2. CASE c.op # "delete"
  <2>1. c.payload \in Patches
    BY <1>2 DEF Calls
  <2> QED
    BY <1>2, <2>1, PayloadsAssumption DEF Assigned
<1> QED
  BY <1>1, <1>2

Overwrite(row, set, new) == [c \in DOMAIN row |-> IF c \in set THEN new[c] ELSE row[c]]

(* Writing some columns over a row leaves a row of the same creator. *)
LEMMA OverwrittenRow ==
  ASSUME NEW row \in Rows, NEW set \in SUBSET Columns, NEW new,
         \A c \in set : new[c] \in Values[c]
  PROVE  /\ Overwrite(row, set, new) \in Rows
         /\ Overwrite(row, set, new).created_by = row.created_by
         /\ \A c \in Columns :
              Overwrite(row, set, new)[c] = IF c \in set THEN new[c] ELSE row[c]
  BY DEF Overwrite, Rows, Columns, Values

(* The object of a session has values of its columns. *)
LEMMA RowValues ==
  ASSUME NEW row \in Rows, NEW c \in Columns
  PROVE  row[c] \in Values[c]
  BY DEF Rows, Columns, Values

(* A commit writes a row: the one opened, or the one there with the changed columns. *)
LEMMA WrittenType ==
  ASSUME TypeOK, NEW r \in Requests, session[r].id \in ProductIds,
         session[r].obj \in Rows
  PROVE  LET old == products[session[r].id]
         IN /\ Written(r) \in Rows
            /\ old = None => Written(r) = session[r].obj
            /\ old # None =>
                 /\ Written(r).created_by = old.created_by
                 /\ \A c \in Columns :
                      Written(r)[c] = IF c \in session[r].dirty THEN session[r].obj[c] ELSE old[c]
<1> DEFINE old == products[session[r].id]
<1>1. session[r].dirty \in SUBSET Columns /\ old \in Rows \cup {None}
  BY DEF TypeOK, Sessions
<1>2. \A c \in session[r].dirty : session[r].obj[c] \in Values[c]
  BY <1>1, RowValues
<1>3. CASE old = None
  BY <1>3 DEF Written
<1>4. CASE old # None
  <2>1. Written(r) = Overwrite(old, session[r].dirty, session[r].obj)
    BY <1>4 DEF Written, Overwrite
  <2> QED
    BY <1>1, <1>2, <1>4, <2>1, OverwrittenRow
<1> QED
  BY <1>3, <1>4

(* The stock a request holds in its session is stock a product can have. *)
LEMMA NoStock == Nothing \in Openings /\ Fresh \in Sessions
<1>1. Nothing \in [{} -> 1..MaxInt]
  BY DEF Nothing
<1>2. Nothing \in Openings
  BY <1>1 DEF Openings
<1> QED
  BY <1>2 DEF Fresh, Sessions

-----------------------------------------------------------------------------
(* Request r alone moves. *)
Frame(r) ==
  \A q \in Requests \ {r} : pc'[q] = pc[q] /\ call'[q] = call[q] /\ session'[q] = session[q]

(* What a request relies on is in its session and in the table of products. *)
LEMMA SessionStays ==
  ASSUME SessionInv, NEW q \in Requests, UNCHANGED products,
         pc'[q] = pc[q], call'[q] = call[q], session'[q] = session[q]
  PROVE  Staged(q)' /\ Opens(q)' /\ Loads(q)' /\ Edits(q)'
<1>1. /\ pc'[q] = pc[q] /\ call'[q] = call[q] /\ session'[q] = session[q]
      /\ products' = products
  OBVIOUS
<1>2. Staged(q) /\ Opens(q) /\ Loads(q) /\ Edits(q)
  BY DEF SessionInv
<1>3. Staged(q)' /\ Loads(q)'
  BY <1>1, <1>2 DEF Staged, Loads
<1>4. Opens(q)'
  <2>1. Remaining(q)' = Remaining(q)
    BY <1>1 DEF Remaining
  <2> QED
    BY <1>1, <1>2, <2>1 DEF Opens, Opening
<1>5. Edits(q)'
  <2>1. Written(q)' = Written(q)
    BY <1>1 DEF Written
  <2> QED
    BY <1>1, <1>2, <2>1 DEF Edits, Editing
<1> QED
  BY <1>3, <1>4, <1>5

(* A step that leaves the products alone keeps IInv when r's own part of it is
   kept, and r takes nothing that another request has. *)
LEMMA LocalStep ==
  ASSUME IInv, NEW r \in Requests, Frame(r), UNCHANGED database,
         pc' \in [Requests -> Steps], call' \in [Requests -> Calls \cup {None}],
         session' \in [Requests -> Sessions],
         Staged(r)', Opens(r)', Loads(r)', Edits(r)',
         \A c \in Keys : (Claimed(r, c) => ~Taken(r, c))',
         \A q \in Requests \ {r} : Apart(q, r)'
  PROVE  IInv'
<1> USE DEF IInv, database
<1>1. TypeOK' /\ UniqueInv'
  BY DEF TypeOK, UniqueInv, KeyUnique
<1>2. SessionInv'
  BY SessionStays DEF SessionInv, Frame
<1>3. PairInv'
  <2> SUFFICES ASSUME NEW p \in Requests, NEW q \in Requests, p # q PROVE Apart(p, q)'
    BY DEF PairInv
  <2>1. CASE p # r /\ q # r
    BY <2>1 DEF PairInv, Apart, Opening, Holds, Claimed, Frame
  <2>2. CASE p = r \/ q = r
    BY <2>2 DEF Apart
  <2> QED
    BY <2>1, <2>2
<1>4. ClaimInv'
  BY DEF ClaimInv, Claimed, Taken, Wanted, Frame
<1> QED
  BY <1>1, <1>2, <1>3, <1>4

(* Every response and every failure ends a request the same way. *)
LEMMA ReplyKeeps ==
  ASSUME IInv, NEW r \in Requests, Reply(r)
  PROVE  IInv'
<1>1. /\ Frame(r) /\ UNCHANGED database
      /\ pc'[r] = "idle" /\ call'[r] = None /\ session'[r] = Fresh
  BY DEF IInv, TypeOK, Reply, Frame
<1>2. /\ pc' \in [Requests -> Steps] /\ call' \in [Requests -> Calls \cup {None}]
      /\ session' \in [Requests -> Sessions]
  BY NoStock DEF IInv, TypeOK, Reply, Steps
<1>3. /\ Staged(r)' /\ Opens(r)' /\ Loads(r)' /\ Edits(r)'
      /\ \A c \in Keys : ~Claimed(r, c)'
      /\ \A q \in Requests \ {r} : Apart(q, r)'
  BY <1>1 DEF Staged, Opens, Opening, Loads, Edits, Editing, Claimed, Apart, Holds
<1> QED
  BY <1>1, <1>2, <1>3, LocalStep

(* An idle request takes a call. *)
LEMMA ReceiveKeeps ==
  ASSUME IInv, NEW r \in Requests, NEW c \in Calls, Receive(r, c)
  PROVE  IInv'
<1>1. /\ Frame(r) /\ UNCHANGED database
      /\ pc[r] = "idle" /\ pc'[r] = "authenticate"
      /\ call'[r] = c /\ c # None /\ session'[r] = session[r]
  BY NoneAssumption DEF IInv, TypeOK, Receive, Goto, Frame
<1>2. /\ pc' \in [Requests -> Steps] /\ call' \in [Requests -> Calls \cup {None}]
      /\ session' \in [Requests -> Sessions]
  BY DEF IInv, TypeOK, Receive, Goto, Steps
<1>3. session[r] = Fresh
  BY <1>1 DEF IInv, SessionInv, Staged
<1>4. /\ Staged(r)' /\ Opens(r)' /\ Loads(r)' /\ Edits(r)'
      /\ \A key \in Keys : ~Claimed(r, key)'
      /\ \A q \in Requests \ {r} : Apart(q, r)'
  BY <1>1, <1>3 DEF Staged, Opens, Opening, Loads, Edits, Editing, Claimed, Apart, Holds
<1> QED
  BY <1>1, <1>2, <1>4, LocalStep

(* The id of a PATCH or DELETE is taken from its path. *)
LEMMA AuthenticateKeeps ==
  ASSUME IInv, NEW r \in Requests, Authenticate(r)
  PROVE  IInv'
<1>1. CASE Reply(r)
  BY <1>1, ReplyKeeps
<1>2. CASE ~Reply(r)
  <2>1. /\ Frame(r) /\ UNCHANGED database /\ call' = call
        /\ pc[r] = "authenticate" /\ pc'[r] = "load"
        /\ session[r] = Fresh /\ call[r] \in Calls /\ call[r].op # "create"
        /\ session'[r] = [Fresh EXCEPT !.id = call[r].id]
    BY <1>2 DEF IInv, TypeOK, SessionInv, Staged, Authenticate, Goto, Frame
  <2>2. call[r].id \in ProductIds
    BY <2>1, CallFields
  <2>3. /\ pc' \in [Requests -> Steps] /\ call' \in [Requests -> Calls \cup {None}]
        /\ session' \in [Requests -> Sessions]
    <3>1. session'[r] \in Sessions
      BY <2>1, <2>2, NoStock DEF Fresh, Sessions
    <3> QED
      BY <1>2, <2>1, <3>1 DEF IInv, TypeOK, Authenticate, Goto, Steps
  <2>4. /\ Staged(r)' /\ Opens(r)' /\ Loads(r)' /\ Edits(r)'
        /\ \A c \in Keys : ~Claimed(r, c)'
        /\ \A q \in Requests \ {r} : Apart(q, r)'
    BY <2>1, <2>2, NoneAssumption
    DEF Staged, Opens, Opening, Loads, Edits, Editing, Claimed, Apart, Holds, Fresh
  <2> QED
    BY <2>1, <2>3, <2>4, LocalStep
<1> QED
  BY <1>1, <1>2

(* A valid create has a new id and an empty stock, at an active admin's call. *)
LEMMA CreateProductKeeps ==
  ASSUME IInv, NEW r \in Requests, CreateProduct(r)
  PROVE  IInv'
<1> DEFINE p == call[r].payload
<1>1. CASE Reply(r)
  BY <1>1, ReplyKeeps
<1>2. CASE ~Reply(r)
  <2>1. /\ Frame(r) /\ UNCHANGED database /\ call' = call
        /\ pc[r] = "authenticate" /\ pc'[r] \in {"slug", "stores"} /\ call[r].op = "create"
        /\ call[r] \in Calls /\ call[r].user \in Admins
        /\ p.slug # None /\ ~NamesStoreTwice(p.items)
    BY <1>2 DEF CreateProduct, Goto, Frame, IInv, TypeOK, SessionInv, Staged
  <2>2. PICK id \in FreshIds :
          session' = [session EXCEPT ![r] =
            [id |-> id,
             obj |-> [slug |-> p.slug, sku |-> p.sku, is_active |-> TRUE,
                      created_by |-> call[r].user],
             dirty |-> Columns, added |-> 0, opened |-> Nothing]]
    BY <1>2 DEF CreateProduct
  <2>3. /\ session'[r].id = id /\ session'[r].dirty = Columns
        /\ session'[r].added = 0 /\ session'[r].opened = Nothing
        /\ session'[r].obj = [slug |-> p.slug, sku |-> p.sku, is_active |-> TRUE,
                              created_by |-> call[r].user]
    BY <2>2 DEF IInv, TypeOK
  <2>4. session'[r].obj \in Rows /\ RowAllowed(session'[r].obj)
    <3>1. p.slug \in Slugs \cup {None} /\ p.sku \in Skus \cup {None}
      BY <2>1, CallFields
    <3>2. session'[r].obj \in Rows
      BY <2>1, <2>3, <3>1 DEF Rows
    <3>3. session'[r].obj.slug = p.slug /\ session'[r].obj.is_active = TRUE
      BY <2>3
    <3> QED
      BY <2>1, <3>2, <3>3, NoneAssumption DEF RowAllowed
  <2>5. session'[r] \in Sessions
    BY <2>2, <2>3, <2>4, NoStock DEF Sessions, FreshIds, IInv, TypeOK
  <2>6. /\ pc' \in [Requests -> Steps] /\ call' \in [Requests -> Calls \cup {None}]
        /\ session' \in [Requests -> Sessions]
    BY <1>2, <2>1, <2>2, <2>5 DEF CreateProduct, IInv, TypeOK, Goto, Steps
  <2>7. Stocked(Nothing, p.items, 0)
    <3>1. p.items \in Seq(Items)
      BY <2>1, CallFields
    <3>2. {k \in DOMAIN p.items : k <= 0 /\ Positive(p.items[k])} = {}
      BY <3>1
    <3> QED
      BY <3>2 DEF Stocked, Nothing
  <2>8. Opens(r)'
    BY <2>1, <2>3, <2>4, <2>7 DEF Opens, FreshIds, database
  <2>9. Staged(r)' /\ Loads(r)' /\ Edits(r)' /\ \A c \in Keys : ~Claimed(r, c)'
    BY <2>1, NoneAssumption DEF Staged, Loads, Edits, Editing, Claimed
  <2>10. \A q \in Requests \ {r} : Apart(q, r)'
    <3> SUFFICES ASSUME NEW q \in Requests \ {r} PROVE Apart(q, r)'
      OBVIOUS
    <3>1. Opening(q)' => q \in Creating /\ session'[q].id = session[q].id
      BY <2>1 DEF Opening, Frame, Creating, IInv, SessionInv, Staged
    <3>2. Opening(q)' => session'[q].id # session'[r].id
      BY <2>3, <3>1 DEF FreshIds
    <3> QED
      BY <2>1, <2>9, <3>2 DEF Apart, Holds
  <2> QED
    BY <2>1, <2>6, <2>8, <2>9, <2>10, LocalStep
<1> QED
  BY <1>1, <1>2

(* The stores are looked at once; nothing is kept of what was found. *)
LEMMA CheckStoresKeeps ==
  ASSUME IInv, NEW r \in Requests, CheckStores(r)
  PROVE  IInv'
<1>1. CASE Reply(r)
  BY <1>1, ReplyKeeps
<1>2. CASE ~Reply(r)
  <2>1. /\ Frame(r) /\ UNCHANGED database /\ call' = call /\ session' = session
        /\ pc[r] = "stores" /\ pc'[r] = "slug" /\ pc' \in [Requests -> Steps]
    BY <1>2 DEF CheckStores, Goto, Frame, IInv, TypeOK, Steps
  <2>2. Staged(r) /\ Opens(r) /\ call[r].op = "create"
    BY <2>1 DEF IInv, SessionInv, Staged
  <2>3. /\ Staged(r)' /\ Opens(r)' /\ Loads(r)' /\ Edits(r)'
        /\ \A c \in Keys : ~Claimed(r, c)'
    BY <2>1, <2>2 DEF Staged, Opens, Opening, Loads, Edits, Editing, Claimed, database
  <2>4. \A q \in Requests \ {r} : Apart(q, r)'
    BY <2>1, <2>2, <2>3 DEF IInv, PairInv, Apart, Opening, Holds, Frame
  <2> QED
    BY <2>1, <2>3, <2>4, LocalStep DEF IInv, TypeOK
<1> QED
  BY <1>1, <1>2

(* An edit's object is the visible row with the payload's columns, those that
   change dirty; the caller was found to be the one who made it. *)
LEMMA LoadProductKeeps ==
  ASSUME IInv, NEW r \in Requests, LoadProduct(r)
  PROVE  IInv'
<1> DEFINE id == session[r].id
           row == products[id]
           set == Assigned(call[r])
           changed == {c \in DOMAIN set : set[c] # row[c]}
<1>1. CASE Reply(r)
  BY <1>1, ReplyKeeps
<1>2. CASE ~Reply(r)
  <2>1. /\ UNCHANGED database /\ UNCHANGED call /\ pc[r] = "load"
        /\ session' = [session EXCEPT ![r].obj = Overwrite(row, DOMAIN set, set),
                                      ![r].dirty = changed]
        /\ pc' = [pc EXCEPT ![r] = IF changed = {} THEN "commit" ELSE "update"]
        /\ Visible(row) /\ row.created_by = call[r].user
    BY <1>2 DEF LoadProduct, Goto, Overwrite
  <2>2. /\ call[r] \in Calls /\ call[r].op # "create" /\ id = call[r].id
        /\ products' = products
    BY <2>1 DEF IInv, TypeOK, SessionInv, Staged, Loads, database
  <2>3. id \in ProductIds
    BY <2>2, CallFields
  <2>4. row \in Rows /\ row.is_active = TRUE
    BY <2>1, <2>3 DEF IInv, TypeOK, Visible, Rows
  <2>5. DOMAIN set \in SUBSET Columns /\ \A c \in DOMAIN set : set[c] \in Values[c]
    BY <2>2, AssignedType
  <2>6. /\ Overwrite(row, DOMAIN set, set) \in Rows
        /\ \A c \in DOMAIN set : Overwrite(row, DOMAIN set, set)[c] = set[c]
    BY <2>4, <2>5, OverwrittenRow
  <2>7. /\ session'[r].obj = Overwrite(row, DOMAIN set, set) /\ session'[r].dirty = changed
        /\ session'[r].id = id /\ session'[r] \in Sessions
        /\ pc'[r] \in {"commit", "update"} /\ (pc'[r] = "commit" <=> changed = {})
        /\ Frame(r)
    BY <2>1, <2>2, <2>5, <2>6 DEF IInv, TypeOK, Sessions, Frame
  <2>8. "is_active" \in changed => session'[r].obj.is_active # TRUE
    <3> SUFFICES ASSUME "is_active" \in changed PROVE session'[r].obj["is_active"] # TRUE
      OBVIOUS
    <3> QED
      BY <2>4, <2>6, <2>7
  <2>9. Edits(r)'
    BY <2>1, <2>2, <2>4, <2>6, <2>7, <2>8, NoneAssumption DEF Edits, Editing, Keys
  <2>10. /\ Staged(r)' /\ Opens(r)' /\ Loads(r)' /\ \A c \in Keys : ~Claimed(r, c)'
    BY <2>1, <2>2, <2>7, NoneAssumption DEF Staged, Opens, Opening, Loads, Claimed
  <2>11. \A q \in Requests \ {r} : Apart(q, r)'
    BY <2>1, <2>2, <2>7, <2>10 DEF Apart, Opening, Holds
  <2>12. /\ pc' \in [Requests -> Steps] /\ call' \in [Requests -> Calls \cup {None}]
         /\ session' \in [Requests -> Sessions]
    BY <2>1, <2>7 DEF IInv, TypeOK, Steps
  <2> QED
    BY <2>1, <2>7, <2>9, <2>10, <2>11, <2>12, LocalStep
<1> QED
  BY <1>1, <1>2

(* The statement waits for the row and finds no null where none may be. *)
LEMMA UpdateRowKeeps ==
  ASSUME IInv, NEW r \in Requests, UpdateRow(r)
  PROVE  IInv'
<1>1. /\ Frame(r) /\ UNCHANGED database /\ UNCHANGED <<call, session>>
      /\ products' = products
      /\ pc[r] = "update" /\ pc'[r] = "slug" /\ pc' \in [Requests -> Steps]
  BY DEF UpdateRow, Goto, IInv, TypeOK, Frame, Steps, database
<1>2. Written(r)' = Written(r)
  BY <1>1 DEF Written
<1>3. RowAllowed(Written(r)) /\ Editing(r) /\ Edits(r) /\ Staged(r) /\ call[r].op # "create"
  BY <1>1 DEF UpdateRow, Editing, IInv, SessionInv, Staged
<1>4. session[r].dirty # {}
  BY <1>1, <1>3 DEF Edits
<1>5. Edits(r)'
  BY <1>1, <1>2, <1>3, <1>4 DEF Edits, Editing
<1>6. Staged(r)' /\ Opens(r)' /\ Loads(r)' /\ \A c \in Keys : ~Claimed(r, c)'
  BY <1>1, <1>3 DEF Staged, Opens, Opening, Loads, Claimed
<1>7. \A q \in Requests \ {r} : Apart(q, r)'
  <2> SUFFICES ASSUME NEW q \in Requests \ {r} PROVE Apart(q, r)'
    OBVIOUS
  <2>1. ~Holds(q, session[r].id)'
    BY <1>1 DEF UpdateRow, RowFree, Holds, Frame
  <2> QED
    BY <1>1, <1>3, <1>6, <2>1 DEF Apart, Opening, Holds
<1> QED
  BY <1>1, <1>5, <1>6, <1>7, LocalStep DEF IInv, TypeOK

(* Whoever enters a value into an index waits for those who have it in doubt and
   finds it free of committed rows; a null is in no index. *)
LEMMA ClaimKeeps ==
  ASSUME IInv, NEW r \in Requests, NEW c \in Keys, Claim(r, c)
  PROVE  IInv'
<1>1. /\ Frame(r) /\ UNCHANGED database /\ UNCHANGED <<call, session>> /\ products' = products
      /\ pc[r] = c /\ pc' \in [Requests -> Steps] /\ call[r] \in Calls
      /\ pc'[r] = CASE c = "slug" -> "sku"
                    [] c = "sku" /\ call[r].op = "create" -> "items"
                    [] OTHER -> "commit"
  BY DEF Claim, Goto, IInv, TypeOK, SessionInv, Staged, Frame, Steps, database, Keys
<1>2. Written(r)' = Written(r)
  BY <1>1 DEF Written
<1>3. Staged(r) /\ Opens(r) /\ Edits(r)
  BY DEF IInv, SessionInv
<1>4. \/ pc[r] = "slug" /\ pc'[r] = "sku"
      \/ pc[r] = "sku" /\ pc'[r] = "items" /\ call[r].op = "create"
      \/ pc[r] = "sku" /\ pc'[r] = "commit" /\ call[r].op # "create"
  BY <1>1 DEF Keys
<1>5. Staged(r)' /\ Loads(r)'
  BY <1>1, <1>3, <1>4 DEF Staged, Loads
<1>6. Opens(r)'
  BY <1>1, <1>3, <1>4 DEF Opens, Opening
<1>7. Edits(r)'
  BY <1>1, <1>2, <1>3, <1>4 DEF Edits, Editing
<1>8. \A k \in Keys : Claimed(r, k)' => k \in session[r].dirty /\ (Claimed(r, k) \/ k = c)
  BY <1>1, <1>4 DEF Claimed, Keys
<1>9. \A k \in Keys : (Claimed(r, k) => ~Taken(r, k))'
  <2>1. \A k \in Keys : Taken(r, k)' = Taken(r, k)
    BY <1>1 DEF Taken, Wanted
  <2> QED
    BY <1>8, <2>1 DEF IInv, ClaimInv, Claim
<1>10. \A q \in Requests \ {r} : Apart(q, r)'
  <2> SUFFICES ASSUME NEW q \in Requests \ {r} PROVE Apart(q, r)'
    OBVIOUS
  <2>1. Apart(q, r) /\ q \notin Blockers(r, c)
    BY DEF IInv, PairInv, Claim
  <2>2. ASSUME Claimed(q, c), c \in session[r].dirty, session[q].obj[c] # None
        PROVE  session[q].obj[c] # session[r].obj[c]
    BY <2>1, <2>2 DEF Blockers, Touches, Wanted
  <2>3. \A k \in Keys : Claimed(q, k)' = Claimed(q, k)
    BY <1>1 DEF Claimed, Frame
  <2>4. \A id \in ProductIds : (Holds(q, id)' => Holds(q, id)) /\ (Holds(r, id)' => Holds(r, id))
    BY <1>1, <1>4 DEF Holds, Frame
  <2>5. (Opening(q)' => Opening(q)) /\ (Opening(r)' => Opening(r))
    BY <1>1, <1>4 DEF Opening, Frame
  <2> QED
    BY <1>1, <1>8, <2>1, <2>2, <2>3, <2>4, <2>5 DEF Apart
<1> QED
  BY <1>1, <1>5, <1>6, <1>7, <1>9, <1>10, LocalStep DEF IInv, TypeOK

-----------------------------------------------------------------------------
Add(opened, item) ==
  [s \in DOMAIN opened \cup {item.store} |-> IF s = item.store THEN item.quantity ELSE opened[s]]

(* A positive quantity that fits its column keeps the stock one that fits. *)
LEMMA AddType ==
  ASSUME NEW opened \in Openings, NEW item \in Items, Positive(item), FitsInt4(item)
  PROVE  Add(opened, item) \in Openings
<1>1. PICK set \in SUBSET StoreIds : opened \in [set -> 1..MaxInt]
  BY DEF Openings
<1>2. item.store \in StoreIds /\ item.quantity \in 1..MaxInt
  BY MaxIntAssumption DEF Items, Positive, FitsInt4
<1>3. Add(opened, item) \in [set \cup {item.store} -> 1..MaxInt]
  BY <1>1, <1>2 DEF Add
<1> QED
  BY <1>2, <1>3 DEF Openings

(* The loop applies the next positive item, and no store is named twice. *)
LEMMA StockGrows ==
  ASSUME NEW items \in Seq(Items), ~NamesStoreTwice(items), NEW n \in Nat, NEW opened,
         Stocked(opened, items, n),
         NEW k \in DOMAIN items, k > n, Positive(items[k]),
         \A j \in DOMAIN items : j > n /\ Positive(items[j]) => k <= j
  PROVE  Stocked(Add(opened, items[k]), items, k)
<1> DEFINE Kept(m) == {j \in DOMAIN items : j <= m /\ Positive(items[j])}
<1>1. DOMAIN items \subseteq Nat
  OBVIOUS
<1>2. Kept(k) = Kept(n) \cup {k}
  BY <1>1
<1>3. \A j \in Kept(n) : items[j].store # items[k].store
  BY <1>1 DEF NamesStoreTwice
<1>4. DOMAIN opened = {items[j].store : j \in Kept(n)}
  BY DEF Stocked
<1>5. \A j \in Kept(n) : opened[items[j].store] = items[j].quantity
  BY DEF Stocked
<1>6. DOMAIN Add(opened, items[k]) = {items[j].store : j \in Kept(k)}
  <2>1. DOMAIN Add(opened, items[k]) = DOMAIN opened \cup {items[k].store}
    BY DEF Add
  <2> HIDE DEF Kept
  <2> QED
    BY <1>2, <1>4, <2>1
<1>7. \A j \in Kept(k) : Add(opened, items[k])[items[j].store] = items[j].quantity
  <2> HIDE DEF Kept
  <2> SUFFICES ASSUME NEW j \in Kept(k)
      PROVE Add(opened, items[k])[items[j].store] = items[j].quantity
    OBVIOUS
  <2>1. CASE j = k
    BY <2>1 DEF Add
  <2>2. CASE j # k
    BY <1>2, <1>3, <1>4, <1>5, <2>2 DEF Add
  <2> QED
    BY <2>1, <2>2
<1> QED
  BY <1>6, <1>7 DEF Stocked

(* The initial stock, item by item. *)
LEMMA AddItemKeeps ==
  ASSUME IInv, NEW r \in Requests, AddItem(r)
  PROVE  IInv'
<1> DEFINE items == call[r].payload.items
<1>1. CASE Reply(r)
  BY <1>1, ReplyKeeps
<1>2. /\ pc[r] = "items" /\ call[r].op = "create" /\ call[r] \in Calls /\ items \in Seq(Items)
      /\ Staged(r) /\ Opens(r) /\ Opening(r)
  BY CallFields DEF AddItem, IInv, TypeOK, SessionInv, Staged, Opening
<1>3. CASE /\ Remaining(r) = {} /\ Goto(r, "commit")
           /\ UNCHANGED <<database, call, session>>
  <2>1. /\ Frame(r) /\ UNCHANGED database /\ UNCHANGED <<call, session>> /\ products' = products
        /\ pc'[r] = "commit" /\ pc' \in [Requests -> Steps] /\ Remaining(r)' = {}
    BY <1>3 DEF Goto, Frame, IInv, TypeOK, Steps, database, Remaining
  <2>2. Staged(r)' /\ Opens(r)' /\ Loads(r)' /\ Edits(r)'
    BY <1>2, <2>1 DEF Staged, Opens, Opening, Loads, Edits, Editing
  <2>3. \A c \in Keys : Claimed(r, c)' => Claimed(r, c)
    BY <1>2, <2>1 DEF Claimed
  <2>4. \A c \in Keys : (Claimed(r, c) => ~Taken(r, c))'
    BY <2>1, <2>3 DEF IInv, ClaimInv, Taken, Wanted
  <2>5. \A q \in Requests \ {r} : Apart(q, r)'
    BY <1>2, <2>1, <2>3 DEF IInv, PairInv, Apart, Opening, Holds, Claimed, Frame
  <2> QED
    BY <2>1, <2>2, <2>4, <2>5, LocalStep DEF IInv, TypeOK
<1>4. ASSUME NEW k \in Remaining(r), \A j \in Remaining(r) : k <= j, FitsInt4(items[k]),
             session' = [session EXCEPT ![r].added = k, ![r].opened = Add(@, items[k])],
             UNCHANGED <<database, pc, call>>
      PROVE  IInv'
  <2>1. /\ Frame(r) /\ UNCHANGED database /\ UNCHANGED <<pc, call>> /\ products' = products
    BY <1>4 DEF Frame, IInv, TypeOK, database
  <2>2. /\ k \in DOMAIN items /\ k \in Nat /\ k > session[r].added /\ Positive(items[k])
        /\ items[k] \in Items
        /\ \A j \in DOMAIN items : j > session[r].added /\ Positive(items[j]) => k <= j
    BY <1>2, <1>4 DEF Remaining
  <2>3. /\ session[r] \in Sessions /\ session[r].added \in Nat /\ session[r].opened \in Openings
    BY DEF IInv, TypeOK, Sessions
  <2>4. /\ session'[r].added = k /\ session'[r].opened = Add(session[r].opened, items[k])
        /\ session'[r].id = session[r].id /\ session'[r].obj = session[r].obj
        /\ session'[r].dirty = session[r].dirty
    BY <1>4, <2>3 DEF IInv, TypeOK, Sessions
  <2>5. Add(session[r].opened, items[k]) \in Openings
    BY <1>4, <2>2, <2>3, AddType
  <2>6. session' \in [Requests -> Sessions]
    <3>1. session'[r] \in Sessions
      BY <1>4, <2>2, <2>3, <2>5 DEF Sessions, IInv, TypeOK
    <3> QED
      BY <1>4, <3>1 DEF IInv, TypeOK
  <2>7. Stocked(session'[r].opened, items, k)
    BY <1>2, <2>2, <2>3, <2>4, StockGrows DEF Opens
  <2>8. Opens(r)'
    BY <1>2, <2>1, <2>4, <2>7 DEF Opens, Opening
  <2>9. Staged(r)' /\ Loads(r)' /\ Edits(r)'
    BY <1>2, <2>1 DEF Staged, Loads, Edits, Editing
  <2>10. \A c \in Keys : (Claimed(r, c) => ~Taken(r, c))'
    BY <2>1, <2>4 DEF IInv, ClaimInv, Claimed, Taken, Wanted
  <2>11. \A q \in Requests \ {r} : Apart(q, r)'
    BY <1>2, <2>1, <2>4 DEF IInv, PairInv, Apart, Opening, Holds, Claimed, Frame
  <2> QED
    BY <2>1, <2>6, <2>8, <2>9, <2>10, <2>11, LocalStep DEF IInv, TypeOK
<1> QED
  BY <1>1, <1>3, <1>4 DEF AddItem, Add

-----------------------------------------------------------------------------
(* What a commit may be: nothing, an edit by the one who made the row, or a new
   product with the stock it was given. *)
LEMMA CommitCases ==
  ASSUME IInv, NEW r \in Requests, Commit(r)
  PROVE  LET id == session[r].id
         IN /\ Frame(r) /\ call' = call /\ call[r] \in Calls /\ id \in ProductIds
            /\ pc[r] = "commit" /\ pc'[r] = "respond" /\ session'[r] = Fresh
            /\ store_active' = store_active
            /\ \/ /\ call[r].op # "create" /\ session[r].dirty = {}
                  /\ products' = products /\ opening' = opening
               \/ /\ call[r].op # "create" /\ session[r].dirty # {} /\ Edits(r)
                  /\ products' = [products EXCEPT ![id] = Written(r)] /\ opening' = opening
                  /\ products[id] # None /\ Written(r) \in Rows /\ RowAllowed(Written(r))
                  /\ Written(r).created_by = products[id].created_by
                  /\ \A c \in Columns : Written(r)[c] =
                       IF c \in session[r].dirty THEN session[r].obj[c] ELSE products[id][c]
               \/ /\ call[r].op = "create" /\ session[r].dirty = Columns /\ Opens(r)
                  /\ products' = [products EXCEPT ![id] = Written(r)]
                  /\ opening' = [opening EXCEPT ![id] = session[r].opened]
                  /\ products[id] = None /\ Written(r) \in Rows /\ RowAllowed(Written(r))
                  /\ Written(r) = session[r].obj
<1> DEFINE id == session[r].id
<1>1. /\ Frame(r) /\ call' = call /\ call[r] \in Calls
      /\ pc[r] = "commit" /\ pc'[r] = "respond" /\ session'[r] = Fresh
      /\ store_active' = store_active
  BY DEF Commit, Goto, Frame, IInv, TypeOK, SessionInv, Staged
<1>2. Opens(r) /\ Edits(r)
  BY DEF IInv, SessionInv
<1>3. CASE call[r].op # "create"
  <2>1. /\ id \in ProductIds /\ products[id] # None /\ session[r].obj \in Rows
        /\ session[r].dirty # {} => RowAllowed(Written(r))
    BY <1>1, <1>2, <1>3, CallFields DEF Edits, Editing
  <2>2. /\ opening' = opening
        /\ session[r].dirty = {} => products' = products
        /\ session[r].dirty # {} => products' = [products EXCEPT ![id] = Written(r)]
    BY <1>3 DEF Commit
  <2>3. /\ Written(r) \in Rows /\ Written(r).created_by = products[id].created_by
        /\ \A c \in Columns : Written(r)[c] =
             IF c \in session[r].dirty THEN session[r].obj[c] ELSE products[id][c]
    BY <2>1, WrittenType DEF IInv
  <2> QED
    BY <1>1, <1>2, <1>3, <2>1, <2>2, <2>3
<1>4. CASE call[r].op = "create"
  <2>1. /\ id \in ProductIds /\ products[id] = None /\ session[r].obj \in Rows
        /\ session[r].dirty = Columns /\ RowAllowed(session[r].obj)
    BY <1>1, <1>2, <1>4 DEF Opens, Opening
  <2>2. Written(r) = session[r].obj
    BY <2>1 DEF Written
  <2>3. Columns # {}
    BY DEF Columns
  <2>4. /\ products' = [products EXCEPT ![id] = Written(r)]
        /\ opening' = [opening EXCEPT ![id] = session[r].opened]
    BY <1>4, <2>1, <2>3 DEF Commit
  <2> QED
    BY <1>1, <1>2, <1>4, <2>1, <2>2, <2>4
<1> QED
  BY <1>3, <1>4

(* A commit leaves every other request what it relies on: its new id free, its
   row there with its creator. *)
LEMMA CommitLeavesOthers ==
  ASSUME IInv, NEW r \in Requests, Commit(r), NEW q \in Requests \ {r}
  PROVE  Staged(q)' /\ Opens(q)' /\ Loads(q)' /\ Edits(q)'
<1> DEFINE id == session[r].id
<1>1. /\ pc'[q] = pc[q] /\ call'[q] = call[q] /\ session'[q] = session[q]
      /\ call[q] \in Calls \cup {None}
  BY CommitCases DEF Frame, IInv, TypeOK
<1>2. Staged(q) /\ Opens(q) /\ Loads(q) /\ Edits(q) /\ Apart(q, r) /\ Apart(r, q)
  BY DEF IInv, SessionInv, PairInv
<1>3. Staged(q)' /\ Loads(q)'
  BY <1>1, <1>2 DEF Staged, Loads
<1>4. products' = products \/ \A i \in ProductIds \ {id} : products'[i] = products[i]
  BY CommitCases DEF IInv, TypeOK
<1>5. Opens(q)'
  <2> SUFFICES ASSUME Opening(q) PROVE Opens(q)'
    BY <1>1 DEF Opens, Opening
  <2>1. session[q].id # id \/ products' = products
    BY <1>2, CommitCases DEF Opens, Opening, Apart
  <2>2. products'[session[q].id] = None
    BY <1>2, <1>4, <2>1 DEF Opens
  <2>3. Remaining(q)' = Remaining(q)
    BY <1>1 DEF Remaining
  <2> QED
    BY <1>1, <1>2, <2>2, <2>3 DEF Opens, Opening
<1>6. Edits(q)'
  <2> SUFFICES ASSUME Editing(q) PROVE Edits(q)'
    BY <1>1 DEF Edits, Editing
  <2> DEFINE own == session[q].id
  <2>1. own \in ProductIds /\ products[own] # None
    <3>1. call[q] \in Calls
      BY <1>1, <1>2 DEF Staged, Editing
    <3> QED
      BY <1>2, <3>1, CallFields DEF Editing, Edits
  <2>2. CASE own = id /\ products' # products
    <3>1. /\ call[r].op # "create" /\ session[r].dirty # {}
          /\ products'[own] = Written(r) /\ Written(r) # None
          /\ Written(r).created_by = products[own].created_by
      BY <2>1, <2>2, CommitCases, NoneAssumption DEF IInv, TypeOK
    <3>2. Holds(r, own)
      BY <2>2, <3>1, CommitCases DEF Holds
    <3>3. ~Holds(q, own)
      BY <1>2, <2>1, <3>2 DEF Apart
    <3>4. pc[q] = "update" \/ session[q].dirty = {}
      BY <3>3 DEF Holds, Editing
    <3> QED
      BY <1>1, <1>2, <2>1, <3>1, <3>4 DEF Edits, Editing
  <2>3. CASE own # id \/ products' = products
    <3>1. products'[own] = products[own]
      BY <1>4, <2>1, <2>3
    <3>2. Written(q)' = Written(q)
      BY <1>1, <3>1 DEF Written
    <3> QED
      BY <1>1, <1>2, <3>1, <3>2 DEF Edits, Editing
  <2> QED
    BY <2>2, <2>3
<1> QED
  BY <1>3, <1>5, <1>6

(* The row a commit writes takes no key that another row or request has. *)
LEMMA CommitKeys ==
  ASSUME IInv, NEW r \in Requests, Commit(r)
  PROVE  UniqueInv' /\ ClaimInv'
<1> DEFINE id == session[r].id
<1>1. CASE products' = products
  <2>1. UniqueInv'
    BY <1>1 DEF IInv, UniqueInv, KeyUnique
  <2>2. ClaimInv'
    BY <1>1, CommitCases DEF IInv, ClaimInv, Claimed, Taken, Wanted, Frame
  <2> QED
    BY <2>1, <2>2
<1>2. CASE products' # products
  <2>1. /\ id \in ProductIds /\ products' = [products EXCEPT ![id] = Written(r)]
        /\ pc[r] = "commit"
    BY <1>2, CommitCases
  <2>2. ASSUME NEW c \in Keys
        PROVE  \/ Claimed(r, c) /\ Written(r)[c] = session[r].obj[c]
               \/ products[id] # None /\ Written(r)[c] = products[id][c]
    <3>1. c \in Columns
      BY DEF Keys, Columns
    <3> QED
      BY <1>2, <2>1, <3>1, CommitCases DEF Claimed
  <2>3. ASSUME NEW c \in Keys, NEW j \in ProductIds \ {id}, products[j] # None,
               Written(r)[c] # None
        PROVE  products[j][c] # Written(r)[c]
    <3>1. CASE Claimed(r, c) /\ Written(r)[c] = session[r].obj[c]
      BY <2>3, <3>1 DEF IInv, ClaimInv, Taken, Wanted, Claimed
    <3>2. CASE products[id] # None /\ Written(r)[c] = products[id][c]
      BY <2>1, <2>3, <3>2 DEF IInv, UniqueInv, KeyUnique
    <3> QED
      BY <2>2, <3>1, <3>2
  <2>4. UniqueInv'
    <3> SUFFICES ASSUME NEW c \in Keys, NEW i \in ProductIds, NEW j \in ProductIds,
                        i # j, products'[i] # None, products'[j] # None
                 PROVE  products'[i][c] = None \/ products'[i][c] # products'[j][c]
      BY DEF UniqueInv, KeyUnique
    <3>1. \A k \in ProductIds \ {id} : products'[k] = products[k]
      BY <2>1 DEF IInv, TypeOK
    <3>2. products'[id] = Written(r)
      BY <2>1 DEF IInv, TypeOK
    <3>3. CASE i # id /\ j # id
      BY <3>1, <3>3 DEF IInv, UniqueInv, KeyUnique
    <3>4. CASE i = id
      BY <2>3, <3>1, <3>2, <3>4
    <3>5. CASE j = id
      BY <2>3, <3>1, <3>2, <3>5
    <3> QED
      BY <3>3, <3>4, <3>5
  <2>5. ASSUME NEW q \in Requests, NEW c \in Keys, Claimed(q, c)' PROVE ~Taken(q, c)'
    <3>1. /\ q # r /\ session'[q] = session[q] /\ pc'[q] = pc[q] /\ Claimed(q, c)
      BY <2>5, CommitCases DEF Claimed, Frame
    <3>2. ~Taken(q, c) /\ Apart(q, r)
      BY <3>1 DEF IInv, ClaimInv, PairInv
    <3>3. session[q].id = id \/ session[q].obj[c] = None \/ Written(r)[c] # session[q].obj[c]
      BY <2>1, <2>2, <3>1, <3>2 DEF Apart, Taken, Wanted, Claimed
    <3> QED
      BY <2>1, <3>1, <3>2, <3>3 DEF Taken, Wanted, IInv, TypeOK
  <2> QED
    BY <2>4, <2>5 DEF ClaimInv
<1> QED
  BY <1>1, <1>2

(* The commit, where the row and its stock appear. *)
LEMMA CommitKeeps ==
  ASSUME IInv, NEW r \in Requests, Commit(r)
  PROVE  IInv'
<1>1. TypeOK'
  <2>1. products' \in [ProductIds -> {row \in Rows : RowAllowed(row)} \cup {None}]
    BY CommitCases DEF IInv, TypeOK
  <2>2. opening' \in [ProductIds -> Openings]
    <3>1. session[r].opened \in Openings
      BY DEF IInv, TypeOK, Sessions
    <3> QED
      BY <3>1, CommitCases DEF IInv, TypeOK
  <2> QED
    BY <2>1, <2>2, CommitCases, NoStock DEF IInv, TypeOK, Commit, Goto, Steps
<1>2. SessionInv'
  <2>1. Staged(r)' /\ Opens(r)' /\ Loads(r)' /\ Edits(r)'
    <3>1. pc'[r] = "respond" /\ session'[r] = Fresh /\ call'[r] \in Calls
      BY CommitCases
    <3> QED
      BY <3>1, NoneAssumption DEF Staged, Opens, Opening, Loads, Edits, Editing
  <2> QED
    BY <2>1, CommitLeavesOthers DEF SessionInv
<1>3. PairInv'
  <2> SUFFICES ASSUME NEW p \in Requests, NEW q \in Requests, p # q PROVE Apart(p, q)'
    BY DEF PairInv
  <2>1. CASE p # r /\ q # r
    BY <2>1, CommitCases DEF IInv, PairInv, Apart, Opening, Holds, Claimed, Frame
  <2>2. CASE p = r \/ q = r
    BY <2>2, CommitCases DEF Apart, Opening, Holds, Claimed
  <2> QED
    BY <2>1, <2>2
<1> QED
  BY <1>1, <1>2, <1>3, CommitKeys DEF IInv

-----------------------------------------------------------------------------
(* Before the first request. *)
LEMMA InitInv == Init => IInv
<1> SUFFICES ASSUME Init PROVE IInv
  OBVIOUS
<1>1. TypeOK
  BY NoStock DEF Init, TypeOK, Steps
<1>2. SessionInv
  BY DEF Init, SessionInv, Staged, Opens, Opening, Loads, Edits, Editing
<1>3. PairInv /\ ClaimInv
  BY DEF Init, PairInv, Apart, ClaimInv, Opening, Holds, Claimed
<1>4. UniqueInv
  BY DEF Init, UniqueInv, KeyUnique
<1> QED
  BY <1>1, <1>2, <1>3, <1>4 DEF IInv

(* A step that moves no request and no product. *)
LEMMA OthersKeep ==
  ASSUME IInv, UNCHANGED <<products, opening, pc, call, session>>,
         store_active' \in [StoreIds -> BOOLEAN]
  PROVE  IInv'
<1>1. /\ products' = products /\ opening' = opening
      /\ pc' = pc /\ call' = call /\ session' = session
  OBVIOUS
<1>2. TypeOK' /\ UniqueInv' /\ ClaimInv'
  BY <1>1 DEF IInv, TypeOK, UniqueInv, KeyUnique, ClaimInv, Claimed, Taken, Wanted
<1>3. PairInv'
  BY <1>1 DEF IInv, PairInv, Apart, Opening, Holds, Claimed
<1>4. SessionInv'
  BY <1>1, SessionStays DEF IInv, SessionInv
<1> QED
  BY <1>2, <1>3, <1>4 DEF IInv

(* IInv holds through every step of every request. *)
THEOREM IInvInductive == IInv /\ [Next]_vars => IInv'
<1> SUFFICES ASSUME IInv, [Next]_vars PROVE IInv'
  OBVIOUS
<1>1. ASSUME NEW r \in Requests, NEW c \in Calls, Receive(r, c) PROVE IInv'
  BY <1>1, ReceiveKeeps
<1>2. ASSUME NEW r \in Requests, Run(r) PROVE IInv'
  BY <1>2, CreateProductKeeps, CheckStoresKeeps, AuthenticateKeeps, LoadProductKeeps,
     AddItemKeeps, CommitKeeps, ReplyKeeps
  DEF Run, Respond
<1>3. ASSUME NEW r \in Requests, Write(r) PROVE IInv'
  BY <1>3, UpdateRowKeeps, ClaimKeeps, ReplyKeeps
  DEF Write, Conflict, DeadlockVictim, Keys
<1>4. ASSUME NEW r \in Requests, Fail(r) PROVE IInv'
  BY <1>4, ReplyKeeps DEF Fail
<1>5. ASSUME NEW s \in StoreIds, RetireStore(s) PROVE IInv'
  <2>1. store_active' \in [StoreIds -> BOOLEAN]
    BY <1>5 DEF RetireStore, IInv, TypeOK
  <2> QED
    BY <1>5, <2>1, OthersKeep DEF RetireStore
<1>6. CASE UNCHANGED vars
  <2>1. store_active' \in [StoreIds -> BOOLEAN]
    BY <1>6 DEF vars, IInv, TypeOK
  <2> QED
    BY <1>6, <2>1, OthersKeep DEF vars
<1> QED
  BY <1>1, <1>2, <1>3, <1>4, <1>5, <1>6 DEF Next, Idle

(* IInv holds always. *)
LEMMA InvariantHolds == Spec => []IInv
  BY InitInv, IInvInductive, PTL DEF Spec

(* Every variable keeps its type: no product ever has a stock that is not
   positive or wider than int4, or lacks a NOT NULL column. *)
THEOREM TypeCorrect == Spec => []TypeOK
<1>1. IInv => TypeOK
  BY DEF IInv
<1> QED
  BY <1>1, InvariantHolds, PTL

(* No two products ever share a slug or a non-null SKU. *)
THEOREM KeysApart == Spec => []KeysUnique
<1>1. IInv => KeysUnique
  <2> SUFFICES ASSUME IInv, NEW i \in ProductIds, NEW j \in ProductIds, i # j,
                      products[i] # None, products[j] # None
               PROVE  /\ products[i].slug # products[j].slug
                      /\ products[i].sku = None \/ products[i].sku # products[j].sku
    BY DEF KeysUnique
  <2>1. products[i].slug # None
    BY DEF IInv, TypeOK, RowAllowed
  <2>2. KeyUnique("slug") /\ KeyUnique("sku")
    BY DEF IInv, UniqueInv, Keys
  <2> QED
    BY <2>1, <2>2 DEF KeyUnique
<1> QED
  BY <1>1, InvariantHolds, PTL

-----------------------------------------------------------------------------
(* Only commits write the tables. *)
LEMMA OnlyCommits ==
  ASSUME IInv, [Next]_vars
  PROVE  UNCHANGED <<products, opening>> \/ \E r \in Requests : Commit(r)
<1>1. CASE UNCHANGED vars
  BY <1>1 DEF vars
<1>2. ASSUME NEW r \in Requests,
             \/ \E c \in Calls : Receive(r, c)
             \/ Run(r) \/ Write(r) \/ Fail(r)
      PROVE  UNCHANGED <<products, opening>> \/ Commit(r)
  BY <1>2 DEF Receive, Run, Write, Fail, CreateProduct, CheckStores, Authenticate, LoadProduct,
     AddItem, Respond, UpdateRow, Claim, Conflict, DeadlockVictim, Reply, Goto, database
<1>3. ASSUME NEW s \in StoreIds, RetireStore(s) PROVE UNCHANGED <<products, opening>>
  BY <1>3 DEF RetireStore
<1> QED
  BY <1>1, <1>2, <1>3 DEF Next, Idle

(* A product changes only in the commit of a request about it. *)
LEMMA ProductChanges ==
  ASSUME IInv, [Next]_vars, NEW i \in ProductIds,
         products'[i] # products[i] \/ opening'[i] # opening[i]
  PROVE  \E r \in Requests : Commit(r) /\ Commits(r, i)
<1>1. PICK r \in Requests : Commit(r)
  BY OnlyCommits
<1>2. pc[r] = "commit" /\ pc'[r] = "respond" /\ session[r].id = i
  BY <1>1, CommitCases DEF IInv, TypeOK
<1> QED
  BY <1>1, <1>2 DEF Commits

(* A product and all of its initial stock appear in one step, and nothing of
   them does when any statement of the create fails. *)
THEOREM WholeOrNothing == Spec => InitialStockIsWhole
<1> DEFINE Whole(i) ==
      (products[i] = None /\ products'[i] # None) =>
        \E r \in Requests :
          LET items == call[r].payload.items
          IN /\ Commits(r, i)
             /\ DOMAIN opening'[i] = {items[k].store : k \in
                                        {k \in DOMAIN items : items[k].quantity > 0}}
             /\ \A k \in DOMAIN items : items[k].quantity > 0 =>
                  opening'[i][items[k].store] = items[k].quantity
           Only(i) ==
      opening'[i] # opening[i] => products[i] = None /\ products'[i] # None
<1>1. IInv /\ [Next]_vars => \A i \in ProductIds : Whole(i)
  <2> SUFFICES ASSUME IInv, [Next]_vars, NEW i \in ProductIds,
                      products[i] = None, products'[i] # None PROVE Whole(i)
    OBVIOUS
  <2>1. PICK r \in Requests : Commit(r) /\ Commits(r, i)
    BY ProductChanges
  <2> DEFINE items == call[r].payload.items
  <2>2. session[r].id = i /\ pc[r] = "commit"
    BY <2>1 DEF Commits
  <2>3. call[r].op = "create" /\ Opens(r) /\ opening' = [opening EXCEPT ![i] = session[r].opened]
    BY <2>1, <2>2, CommitCases
  <2>4. opening'[i] = session[r].opened
    BY <2>3 DEF IInv, TypeOK
  <2>5. Stocked(session[r].opened, items, session[r].added) /\ Remaining(r) = {}
    BY <2>2, <2>3 DEF Opens, Opening
  <2>6. /\ items \in Seq(Items) /\ session[r].added \in Nat
    BY <2>1, <2>3, CommitCases, CallFields DEF IInv, TypeOK, Sessions
  <2>7. {k \in DOMAIN items : k <= session[r].added /\ Positive(items[k])}
          = {k \in DOMAIN items : items[k].quantity > 0}
    BY <2>5, <2>6 DEF Remaining, Positive
  <2> QED
    BY <2>1, <2>4, <2>5, <2>7 DEF Stocked
<1>2. IInv /\ [Next]_vars => \A i \in ProductIds : Only(i)
  <2> SUFFICES ASSUME IInv, [Next]_vars, NEW i \in ProductIds, opening'[i] # opening[i]
               PROVE  products[i] = None /\ products'[i] # None
    OBVIOUS
  <2>1. PICK r \in Requests : Commit(r) /\ Commits(r, i)
    BY ProductChanges
  <2>2. session[r].id = i
    BY <2>1 DEF Commits
  <2>3. /\ products[i] = None /\ Written(r) \in Rows
        /\ products' = [products EXCEPT ![i] = Written(r)]
    BY <2>1, <2>2, CommitCases
  <2> QED
    BY <2>3, NoneAssumption DEF IInv, TypeOK
<1>3. IInv /\ [Next]_vars =>
        \A i \in ProductIds :
          /\ (products[i] = None /\ products'[i] # None) =>
               \E r \in Requests :
                 LET items == call[r].payload.items
                 IN /\ Commits(r, i)
                    /\ DOMAIN opening'[i] = {items[k].store : k \in
                                               {k \in DOMAIN items : items[k].quantity > 0}}
                    /\ \A k \in DOMAIN items : items[k].quantity > 0 =>
                         opening'[i][items[k].store] = items[k].quantity
          /\ opening'[i] # opening[i] => products[i] = None /\ products'[i] # None
  BY <1>1, <1>2
<1> QED
  BY <1>3, InvariantHolds, PTL DEF Spec, InitialStockIsWhole

(* A column changes only at the commit of its creator's request and only to what
   that request carries. *)
THEOREM CreatorsOnly == Spec => CreatorsPayloadOnly
<1> DEFINE FromPayload(i) ==
      (products[i] # None /\ products'[i] # products[i]) =>
        \E r \in Requests :
          /\ Commits(r, i)
          /\ call[r].user = products[i].created_by
          /\ \A c \in DOMAIN products[i] : products'[i][c] # products[i][c] =>
               c \in DOMAIN Assigned(call[r]) /\ Assigned(call[r])[c] = products'[i][c]
<1>1. IInv /\ [Next]_vars => \A i \in ProductIds : FromPayload(i)
  <2> SUFFICES ASSUME IInv, [Next]_vars, NEW i \in ProductIds,
                      products[i] # None, products'[i] # products[i] PROVE FromPayload(i)
    OBVIOUS
  <2>1. PICK r \in Requests : Commit(r) /\ Commits(r, i)
    BY ProductChanges
  <2>2. session[r].id = i /\ pc[r] = "commit"
    BY <2>1 DEF Commits
  <2>3. /\ call[r].op # "create" /\ Edits(r)
        /\ products' = [products EXCEPT ![i] = Written(r)]
        /\ Written(r).created_by = products[i].created_by
        /\ \A c \in Columns : Written(r)[c] =
             IF c \in session[r].dirty THEN session[r].obj[c] ELSE products[i][c]
    BY <2>1, <2>2, CommitCases
  <2>4. products[i] \in Rows /\ products'[i] = Written(r)
    BY <2>3 DEF IInv, TypeOK
  <2>5. ASSUME NEW c \in DOMAIN products[i], products'[i][c] # products[i][c]
        PROVE  c \in session[r].dirty /\ products'[i][c] = session[r].obj[c]
    <3>1. c \in Columns \cup {"created_by"}
      BY <2>4 DEF Rows, Columns
    <3> QED
      BY <2>3, <2>4, <2>5, <3>1
  <2>6. /\ call[r].user = products[i].created_by
        /\ \A c \in session[r].dirty : /\ c \in DOMAIN Assigned(call[r])
                                       /\ session[r].obj[c] = Assigned(call[r])[c]
    BY <2>2, <2>3 DEF Edits, Editing
  <2> QED
    BY <2>1, <2>5, <2>6
<1> QED
  BY <1>1, InvariantHolds, PTL DEF Spec, CreatorsPayloadOnly

(* No edit brings a soft-deleted product back, whenever it had loaded it. *)
THEOREM DeletedForGood == Spec => RetiredForever
<1> DEFINE StaysRetired(i) ==
      (products[i] # None /\ products[i].is_active = FALSE) => products'[i].is_active = FALSE
<1>1. IInv /\ [Next]_vars => \A i \in ProductIds : StaysRetired(i)
  <2> SUFFICES ASSUME IInv, [Next]_vars, NEW i \in ProductIds,
                      products[i] # None, products[i].is_active = FALSE,
                      products'[i] # products[i]
      PROVE products'[i].is_active = FALSE
    OBVIOUS
  <2>1. PICK r \in Requests : Commit(r) /\ Commits(r, i)
    BY ProductChanges
  <2>2. session[r].id = i /\ pc[r] = "commit"
    BY <2>1 DEF Commits
  <2>3. /\ Edits(r) /\ call[r].op # "create" /\ products' = [products EXCEPT ![i] = Written(r)]
        /\ Written(r) \in Rows /\ RowAllowed(Written(r))
        /\ \A c \in Columns : Written(r)[c] =
             IF c \in session[r].dirty THEN session[r].obj[c] ELSE products[i][c]
    BY <2>1, <2>2, CommitCases
  <2>4. products'[i] = Written(r)
    BY <2>3 DEF IInv, TypeOK
  <2>5. CASE "is_active" \in session[r].dirty
    <3>1. session[r].obj.is_active # TRUE
      BY <2>2, <2>3, <2>5 DEF Edits, Editing
    <3>2. Written(r).is_active = session[r].obj.is_active
      BY <2>3, <2>5 DEF Columns
    <3>3. Written(r).is_active \in BOOLEAN
      BY <2>3 DEF Rows, RowAllowed
    <3> QED
      BY <2>4, <3>1, <3>2, <3>3
  <2>6. CASE "is_active" \notin session[r].dirty
    BY <2>3, <2>4, <2>6 DEF Columns
  <2> QED
    BY <2>5, <2>6
<1> QED
  BY <1>1, InvariantHolds, PTL DEF Spec, RetiredForever
=============================================================================
