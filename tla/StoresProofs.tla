---------------------------- MODULE StoresProofs ----------------------------
(***************************************************************************)
(* Proofs about Stores, for any users, stores, payloads and requests: the  *)
(* rows keep their owners and their slugs apart, and what a commit writes  *)
(* is what its caller asked for and may ask for.                           *)
(*                                                                         *)
(* The tables alone do not say why: a check that a handler or a statement  *)
(* made before its last await must still hold at the commit.  IInv says    *)
(* what every request under way still relies on (SessionInv), and which of *)
(* two requests has what the other cannot have (PairInv).                  *)
(***************************************************************************)
EXTENDS Stores, TLAPS

Shaped(row) ==
  /\ NotNull(row)
  /\ row.kind # "MARKETPLACE" => row.owner = None
  /\ row.kind = "MARKETPLACE" => row.owner \in Users

(* A create between its validation and its end; an edit that has loaded its row. *)
Opening(r) == /\ pc[r] \in {"slug", "promote", "commit"}
              /\ call[r].op = "create"

Editing(r) == /\ pc[r] \in {"update", "slug", "commit"}
              /\ call[r].op # "create"

(* The slug of r's statement is in the unique index. *)
Claims(r) == pc[r] \in {"promote", "commit"} /\ "slug" \in session[r].dirty

(* The steps of the two kinds of request, and a session that has done nothing. *)
Staged(r) ==
  /\ call[r] = None <=> pc[r] = "idle"
  /\ pc[r] \in {"idle", "authenticate", "respond"} => session[r] = Fresh
  /\ pc[r] \in {"load", "update"} => call[r].op # "create"
  /\ pc[r] = "promote" => call[r].op = "create"

(* The new row takes an id of its own, and a caller who is to own it is, or is
   about to be, a VENDOR. *)
Opens(r) ==
  LET row == session[r].obj
      user == call[r].user
  IN Opening(r) =>
       /\ session[r].id \in StoreIds /\ stores[session[r].id] = None
       /\ session[r].dirty = Columns
       /\ row \in Rows /\ NotNull(row)
       /\ row.kind # "MARKETPLACE" => row.detail # None /\ row.owner = None
       /\ row.kind = "MARKETPLACE" => row.owner # None
       /\ session[r].promotes => /\ row.kind = "MARKETPLACE" /\ row.owner = user
                                 /\ role[user] \in {"CUSTOMER", "VENDOR"}
       /\ row.owner = user => session[r].promotes \/ role[user] \in {"ADMIN", "VENDOR"}
       /\ pc[r] # "slug" => Shaped(row)

(* The role a request was authenticated with is still its caller's, unless it is
   one that could not edit anyway. *)
Loads(r) ==
  pc[r] = "load" =>
    /\ session[r].id = call[r].id /\ session[r].promotes = FALSE /\ session[r].dirty = {}
    /\ session[r].user_role \in Roles
    /\ session[r].user_role \in {"ADMIN", "VENDOR"} => role[call[r].user] = session[r].user_role

(* An edit carries nothing but its payload, for a row its caller may edit. *)
Edits(r) ==
  LET id == session[r].id
      user == call[r].user
  IN Editing(r) =>
       /\ id = call[r].id /\ session[r].promotes = FALSE
       /\ stores[id] # None /\ session[r].obj \in Rows
       /\ CanModify(stores[id], user, role[user])
       /\ \A c \in session[r].dirty : /\ c \in DOMAIN Assigned(call[r])
                                      /\ session[r].obj[c] = Assigned(call[r])[c]
       /\ "is_active" \in session[r].dirty => session[r].obj.is_active # TRUE
       /\ pc[r] = "slug" => "slug" \in session[r].dirty
       /\ pc[r] # "update" /\ session[r].dirty # {} => NotNull(Written(r))

SessionInv == \A r \in Requests : Staged(r) /\ Opens(r) /\ Loads(r) /\ Edits(r)

(* What two requests never have both: a new id, a row, a slug. *)
Apart(q, r) ==
  /\ Opening(q) /\ Opening(r) => session[q].id # session[r].id
  /\ \A id \in StoreIds : ~(Holds(q, id) /\ Holds(r, id))
  /\ Claims(q) /\ Claims(r) => session[q].obj.slug # session[r].obj.slug

PairInv == \A q, r \in Requests : q # r => Apart(q, r)

ClaimInv == \A r \in Requests : Claims(r) => ~SlugTaken(r)

ShapeInv == \A i \in StoreIds : stores[i] # None => Shaped(stores[i])

IInv == TypeOK /\ ShapeInv /\ SlugsUnique /\ SessionInv /\ PairInv /\ ClaimInv

-----------------------------------------------------------------------------
(* The columns a PATCH or DELETE assigns, and to what. *)
LEMMA AssignedType ==
  ASSUME NEW c \in Calls, c.op # "create"
  PROVE  /\ DOMAIN Assigned(c) \subseteq Columns
         /\ \A column \in DOMAIN Assigned(c) : Assigned(c)[column] \in Values[column]
<1>1. CASE c.op = "delete"
  <2>1. Assigned(c) = [set \in {"is_active"} |-> FALSE]
    BY <1>1 DEF Assigned
  <2>2. Values["is_active"] = BOOLEAN \cup {None}
    BY DEF Values
  <2>3. FALSE \in Values["is_active"]
    BY <2>2
  <2> QED
    BY <2>1, <2>3 DEF Columns
<1>2. CASE c.op # "delete"
  <2>1. c.payload \in PatchSpace
    BY <1>2, PayloadsAssumption DEF Calls
  <2> QED
    BY <1>2, <2>1 DEF Assigned, PatchSpace
<1> QED
  BY <1>1, <1>2

Overwrite(row, set, new) == [c \in DOMAIN row |-> IF c \in set THEN new[c] ELSE row[c]]

(* Writing some columns over a row leaves a row of the same kind and owner. *)
LEMMA OverwrittenRow ==
  ASSUME NEW row \in Rows, NEW set \in SUBSET Columns, NEW new,
         \A c \in set : new[c] \in Values[c]
  PROVE  /\ Overwrite(row, set, new) \in Rows
         /\ Overwrite(row, set, new).kind = row.kind
         /\ Overwrite(row, set, new).owner = row.owner
         /\ \A c \in Columns :
              Overwrite(row, set, new)[c] = IF c \in set THEN new[c] ELSE row[c]
  BY DEF Overwrite, Rows, Columns, Values

(* The object of a session has values of its columns. *)
LEMMA RowValues ==
  ASSUME NEW row \in Rows, NEW c \in Columns
  PROVE  row[c] \in Values[c]
  BY DEF Rows, Columns, Values

(* A commit writes a row: the one opened, or the one there with the changed columns. *)
LEMMA WrittenType ==
  ASSUME TypeOK, NEW r \in Requests, session[r].id \in StoreIds,
         session[r].obj \in Rows
  PROVE  LET old == stores[session[r].id]
         IN /\ Written(r) \in Rows
            /\ old = None => Written(r) = session[r].obj
            /\ old # None =>
                 /\ Written(r).kind = old.kind /\ Written(r).owner = old.owner
                 /\ \A c \in Columns :
                      Written(r)[c] = IF c \in session[r].dirty THEN session[r].obj[c] ELSE old[c]
<1> DEFINE old == stores[session[r].id]
<1>1. session[r].dirty \in SUBSET Columns /\ old \in Rows \cup {None}
  BY DEF TypeOK, Sessions
<1>2. \A c \in session[r].dirty : session[r].obj[c] \in Values[c]
  BY <1>1, RowValues
<1>3. CASE old = None
  BY <1>3 DEF Written
<1>4. CASE old # None
  <2>1. Written(r) = Overwrite(old, session[r].dirty, session[r].obj)
    BY <1>4 DEF Written, Overwrite
  <2> QED
    BY <1>1, <1>2, <1>4, <2>1, OverwrittenRow
<1> QED
  BY <1>3, <1>4

-----------------------------------------------------------------------------
(* Request r alone moves. *)
Frame(r) ==
  \A q \in Requests \ {r} : pc'[q] = pc[q] /\ call'[q] = call[q] /\ session'[q] = session[q]

(* What a request relies on is in its session and in the tables. *)
LEMMA SessionStays ==
  ASSUME SessionInv, NEW q \in Requests, UNCHANGED <<role, stores>>,
         pc'[q] = pc[q], call'[q] = call[q], session'[q] = session[q]
  PROVE  Staged(q)' /\ Opens(q)' /\ Loads(q)' /\ Edits(q)'
<1>1. /\ pc'[q] = pc[q] /\ call'[q] = call[q] /\ session'[q] = session[q]
      /\ role' = role /\ stores' = stores
  OBVIOUS
<1>2. Staged(q) /\ Opens(q) /\ Loads(q) /\ Edits(q)
  BY DEF SessionInv
<1>3. Staged(q)'
  BY <1>1, <1>2 DEF Staged
<1>4. Opens(q)'
  BY <1>1, <1>2 DEF Opens, Opening
<1>5. Loads(q)'
  BY <1>1, <1>2 DEF Loads
<1>6. Edits(q)'
  <2>1. Written(q)' = Written(q)
    BY <1>1 DEF Written
  <2> QED
    BY <1>1, <1>2, <2>1 DEF Edits, Editing
<1> QED
  BY <1>3, <1>4, <1>5, <1>6

(* A step that leaves the tables alone keeps IInv when r's own part of it is
   kept, and r takes nothing that another request has. *)
LEMMA LocalStep ==
  ASSUME IInv, NEW r \in Requests, Frame(r), UNCHANGED <<role, stores>>,
         pc' \in [Requests -> Steps], call' \in [Requests -> Calls \cup {None}],
         session' \in [Requests -> Sessions],
         Staged(r)', Opens(r)', Loads(r)', Edits(r)', (Claims(r) => ~SlugTaken(r))',
         \A q \in Requests \ {r} : Apart(q, r)'
  PROVE  IInv'
<1> USE DEF IInv
<1>1. TypeOK' /\ ShapeInv' /\ SlugsUnique'
  BY DEF TypeOK, ShapeInv, SlugsUnique
<1>2. SessionInv'
  BY SessionStays DEF SessionInv, Frame
<1>3. PairInv'
  <2> SUFFICES ASSUME NEW p \in Requests, NEW q \in Requests, p # q PROVE Apart(p, q)'
    BY DEF PairInv
  <2>1. CASE p # r /\ q # r
    BY <2>1 DEF PairInv, Apart, Opening, Holds, Claims, Frame
  <2>2. CASE p = r \/ q = r
    BY <2>2 DEF Apart
  <2> QED
    BY <2>1, <2>2
<1>4. ClaimInv'
  BY DEF ClaimInv, Claims, SlugTaken, Frame
<1> QED
  BY <1>1, <1>2, <1>3, <1>4

(* Every response and every failure ends a request the same way. *)
LEMMA ReplyKeeps ==
  ASSUME IInv, NEW r \in Requests, Reply(r)
  PROVE  IInv'
<1>1. /\ Frame(r) /\ UNCHANGED <<role, stores>>
      /\ pc'[r] = "idle" /\ call'[r] = None /\ session'[r] = Fresh
  BY DEF IInv, TypeOK, Reply, Frame
<1>2. /\ pc' \in [Requests -> Steps] /\ call' \in [Requests -> Calls \cup {None}]
      /\ session' \in [Requests -> Sessions]
  BY DEF IInv, TypeOK, Reply, Steps, Fresh, Sessions
<1>3. /\ Staged(r)' /\ Opens(r)' /\ Loads(r)' /\ Edits(r)' /\ ~Claims(r)'
      /\ \A q \in Requests \ {r} : Apart(q, r)'
  BY <1>1 DEF Staged, Opens, Opening, Loads, Edits, Editing, Claims, Apart, Holds
<1> QED
  BY <1>1, <1>2, <1>3, LocalStep

(* An idle request takes a call. *)
LEMMA ReceiveKeeps ==
  ASSUME IInv, NEW r \in Requests, NEW c \in Calls, Receive(r, c)
  PROVE  IInv'
<1>1. /\ Frame(r) /\ UNCHANGED <<role, stores>>
      /\ pc[r] = "idle" /\ pc'[r] = "authenticate"
      /\ call'[r] = c /\ c # None /\ session'[r] = session[r]
  BY NoneAssumption DEF IInv, TypeOK, Receive, Goto, Frame
<1>2. /\ pc' \in [Requests -> Steps] /\ call' \in [Requests -> Calls \cup {None}]
      /\ session' \in [Requests -> Sessions]
  BY DEF IInv, TypeOK, Receive, Goto, Steps
<1>3. session[r] = Fresh
  BY <1>1 DEF IInv, SessionInv, Staged
<1>4. /\ Staged(r)' /\ Opens(r)' /\ Loads(r)' /\ Edits(r)' /\ ~Claims(r)'
      /\ \A q \in Requests \ {r} : Apart(q, r)'
  BY <1>1, <1>3 DEF Staged, Opens, Opening, Loads, Edits, Editing, Claims, Apart, Holds
<1> QED
  BY <1>1, <1>2, <1>4, LocalStep

(* The role of a PATCH's or DELETE's caller is read. *)
LEMMA AuthenticateKeeps ==
  ASSUME IInv, NEW r \in Requests, Authenticate(r)
  PROVE  IInv'
<1> SUFFICES ASSUME ~Reply(r) PROVE IInv'
  BY ReplyKeeps
<1>1. /\ Frame(r) /\ UNCHANGED <<role, stores>> /\ call' = call
      /\ pc[r] = "authenticate" /\ pc'[r] = "load"
      /\ session[r] = Fresh /\ call[r] \in Calls /\ call[r].op # "create"
      /\ session'[r] = [Fresh EXCEPT !.user_role = role[call[r].user], !.id = call[r].id]
  BY DEF IInv, TypeOK, SessionInv, Staged, Authenticate, Goto, Frame
<1>2. call[r].user \in Users /\ call[r].id \in StoreIds /\ role[call[r].user] \in Roles
  BY <1>1 DEF Calls, Authenticate, Loadable
<1>3. /\ pc' \in [Requests -> Steps] /\ call' \in [Requests -> Calls \cup {None}]
      /\ session' \in [Requests -> Sessions]
  <2>1. session'[r] \in Sessions
    BY <1>1, <1>2 DEF Fresh, Sessions
  <2> QED
    BY <1>1, <2>1 DEF IInv, TypeOK, Authenticate, Goto, Steps
<1>4. /\ Staged(r)' /\ Opens(r)' /\ Loads(r)' /\ Edits(r)' /\ ~Claims(r)'
      /\ \A q \in Requests \ {r} : Apart(q, r)'
  BY <1>1, <1>2, NoneAssumption
  DEF Staged, Opens, Opening, Loads, Edits, Editing, Claims, Apart, Holds, Fresh
<1> QED
  BY <1>1, <1>3, <1>4, LocalStep

(* A valid create is given a new id, and an owner whose role is read once. *)
LEMMA CreateStoreKeeps ==
  ASSUME IInv, NEW r \in Requests, CreateStore(r)
  PROVE  IInv'
<1> DEFINE user == call[r].user
           p == call[r].payload
<1>1. CASE Reply(r)
  BY <1>1, ReplyKeeps
<1>2. CASE ~Reply(r)
  <2>1. /\ Frame(r) /\ UNCHANGED <<role, stores, call>>
        /\ pc[r] = "authenticate" /\ pc'[r] = "slug" /\ call[r].op = "create"
        /\ call[r] \in Calls
    BY <1>2 DEF CreateStore, Goto, Frame, IInv, TypeOK, SessionInv, Staged
  <2>2. PICK id \in FreshIds :
          session' = [session EXCEPT ![r] =
            [user_role |-> role[user], promotes |-> Promotes(p, role[user]), id |-> id,
             obj |-> [kind |-> Stored(p.kind), owner |-> OwnerFor(p, user, role[user]),
                      slug |-> p.slug, detail |-> p.detail, is_active |-> TRUE],
             dirty |-> Columns]]
    BY <1>2 DEF CreateStore
  <2>3. /\ MayCreate(p.kind, role[user]) /\ ~FieldsMissing(p) /\ p.slug # None
    BY <1>2 DEF CreateStore
  <2>4. user \in Users /\ p \in CreateSpace /\ role[user] \in Roles
    BY <1>2, <2>1, PayloadsAssumption DEF Calls, CreateStore, Loadable
  <2>5. /\ OwnerFor(p, user, role[user]) \in Users \cup Strangers \cup {None}
        /\ p.kind # "marketplace" => OwnerFor(p, user, role[user]) = None
        /\ p.kind = "marketplace" => OwnerFor(p, user, role[user]) # None
        /\ Promotes(p, role[user]) => OwnerFor(p, user, role[user]) = user
    BY <2>4, NoneAssumption DEF CreateSpace, OwnerFor, Promotes
  <2> DEFINE kind == Stored(p.kind)
  <2>13. kind \in KindNames /\ (kind = "MARKETPLACE" <=> p.kind = "marketplace")
    BY <2>4 DEF CreateSpace, Kinds, KindNames, Stored
  <2>6. session'[r].obj \in Rows /\ session'[r] \in Sessions
    <3>1. Promotes(p, role[user]) \in BOOLEAN
      BY DEF Promotes
    <3> QED
      BY <2>2, <2>4, <2>5, <2>13, <3>1 DEF Sessions, Rows, CreateSpace, FreshIds, IInv, TypeOK
  <2>7. /\ pc' \in [Requests -> Steps] /\ call' \in [Requests -> Calls \cup {None}]
        /\ session' \in [Requests -> Sessions]
    BY <1>2, <2>1, <2>2, <2>6 DEF CreateStore, IInv, TypeOK, Goto, Steps
  <2>8. /\ session'[r].id = id /\ session'[r].promotes = Promotes(p, role[user])
        /\ session'[r].obj.kind = kind /\ session'[r].obj.slug = p.slug
        /\ session'[r].obj.owner = OwnerFor(p, user, role[user])
        /\ session'[r].obj.detail = p.detail /\ session'[r].obj.is_active = TRUE
        /\ session'[r].dirty = Columns
    BY <2>2 DEF IInv, TypeOK
  <2>9. NotNull(session'[r].obj)
    BY <2>3, <2>8, NoneAssumption DEF NotNull
  <2>10. Opens(r)'
    BY <2>1, <2>3, <2>4, <2>5, <2>6, <2>8, <2>9, <2>13, NoneAssumption
    DEF Opens, FreshIds, FieldsMissing, CreateSpace, Kinds, Promotes, MayCreate, Roles
  <2>11. Staged(r)' /\ Loads(r)' /\ Edits(r)' /\ ~Claims(r)'
    BY <2>1, NoneAssumption DEF Staged, Loads, Edits, Editing, Claims
  <2>12. \A q \in Requests \ {r} : Apart(q, r)'
    <3> SUFFICES ASSUME NEW q \in Requests \ {r} PROVE Apart(q, r)'
      OBVIOUS
    <3>1. Opening(q)' => q \in Creating /\ session'[q].id = session[q].id
      BY <2>1 DEF Opening, Frame, Creating, IInv, SessionInv, Staged
    <3>2. Opening(q)' => session'[q].id # session'[r].id
      BY <2>8, <3>1 DEF FreshIds
    <3> QED
      BY <2>1, <2>11, <3>2 DEF Apart, Holds
  <2> QED
    BY <2>1, <2>7, <2>10, <2>11, <2>12, LocalStep
<1> QED
  BY <1>1, <1>2

(* An edit's object is the visible row with the payload's columns, those that
   change dirty; the permission was checked on that row and the caller's role. *)
LEMMA LoadStoreKeeps ==
  ASSUME IInv, NEW r \in Requests, LoadStore(r)
  PROVE  IInv'
<1> DEFINE id == session[r].id
           row == stores[id]
           set == Assigned(call[r])
           changed == {c \in DOMAIN set : set[c] # row[c]}
<1>1. CASE Reply(r)
  BY <1>1, ReplyKeeps
<1>2. CASE ~Reply(r)
  <2>1. /\ UNCHANGED <<role, stores, call>> /\ pc[r] = "load"
        /\ session' = [session EXCEPT ![r].obj = Overwrite(row, DOMAIN set, set),
                                      ![r].dirty = changed]
        /\ pc' = [pc EXCEPT ![r] = IF changed = {} THEN "commit" ELSE "update"]
        /\ Visible(row) /\ CanModify(row, call[r].user, session[r].user_role)
    BY <1>2 DEF LoadStore, Goto, Overwrite
  <2>2. /\ call[r] \in Calls /\ call[r].op # "create" /\ id = call[r].id /\ id \in StoreIds
        /\ session[r].promotes = FALSE
        /\ session[r].user_role \in {"ADMIN", "VENDOR"} => role[call[r].user] = session[r].user_role
    BY <2>1 DEF IInv, TypeOK, SessionInv, Staged, Loads, Calls
  <2>3. row \in Rows /\ row.is_active = TRUE
    BY <2>1, <2>2 DEF IInv, TypeOK, Visible, Rows
  <2>4. /\ DOMAIN set \in SUBSET Columns /\ \A c \in DOMAIN set : set[c] \in Values[c]
    BY <2>2, AssignedType
  <2>5. /\ Overwrite(row, DOMAIN set, set) \in Rows
        /\ \A c \in DOMAIN set : Overwrite(row, DOMAIN set, set)[c] = set[c]
    BY <2>3, <2>4, OverwrittenRow
  <2>6. /\ session'[r].obj = Overwrite(row, DOMAIN set, set) /\ session'[r].dirty = changed
        /\ session'[r].id = id /\ session'[r].promotes = FALSE /\ session'[r] \in Sessions
        /\ pc'[r] \in {"commit", "update"} /\ (pc'[r] = "update" \/ changed = {})
        /\ Frame(r)
    BY <2>1, <2>2, <2>4, <2>5 DEF IInv, TypeOK, Sessions, Frame
  <2>7. "is_active" \in changed => session'[r].obj.is_active # TRUE
    <3> SUFFICES ASSUME "is_active" \in changed PROVE session'[r].obj["is_active"] # TRUE
      OBVIOUS
    <3> QED
      BY <2>3, <2>5, <2>6
  <2>8. Edits(r)'
    BY <2>1, <2>2, <2>3, <2>5, <2>6, <2>7, NoneAssumption DEF Edits, Editing, CanModify
  <2>9. Staged(r)' /\ Opens(r)' /\ Loads(r)' /\ ~Claims(r)'
    BY <2>1, <2>2, <2>6, NoneAssumption DEF Staged, Opens, Opening, Loads, Claims
  <2>10. \A q \in Requests \ {r} : Apart(q, r)'
    BY <2>1, <2>2, <2>6, <2>9 DEF Apart, Opening, Holds
  <2>11. /\ pc' \in [Requests -> Steps] /\ call' \in [Requests -> Calls \cup {None}]
         /\ session' \in [Requests -> Sessions]
    BY <2>1, <2>6 DEF IInv, TypeOK, Steps
  <2> QED
    BY <2>1, <2>6, <2>8, <2>9, <2>10, <2>11, LocalStep
<1> QED
  BY <1>1, <1>2

(* The statement waits for the row and leaves no required column null. *)
LEMMA UpdateRowKeeps ==
  ASSUME IInv, NEW r \in Requests, UpdateRow(r)
  PROVE  IInv'
<1>1. /\ Frame(r) /\ UNCHANGED <<role, stores, call, session>>
      /\ pc[r] = "update" /\ pc'[r] = IF "slug" \in session[r].dirty THEN "slug" ELSE "commit"
      /\ pc' \in [Requests -> Steps]
  BY DEF UpdateRow, Goto, IInv, TypeOK, Frame, Steps
<1>2. Written(r)' = Written(r)
  BY <1>1 DEF Written
<1>3. NotNull(Written(r)) /\ Editing(r) /\ Edits(r) /\ Staged(r) /\ call[r].op # "create"
  BY <1>1 DEF UpdateRow, RowAllowed, Editing, IInv, SessionInv, Staged
<1>4. Edits(r)'
  BY <1>1, <1>2, <1>3 DEF Edits, Editing
<1>5. Staged(r)' /\ Opens(r)' /\ Loads(r)' /\ ~Claims(r)'
  BY <1>1, <1>3 DEF Staged, Opens, Opening, Loads, Claims
<1>6. \A q \in Requests \ {r} : Apart(q, r)'
  <2> SUFFICES ASSUME NEW q \in Requests \ {r} PROVE Apart(q, r)'
    OBVIOUS
  <2>1. ~Holds(q, session[r].id)'
    BY <1>1 DEF UpdateRow, Holds, Frame
  <2> QED
    BY <1>1, <1>3, <1>5, <2>1 DEF Apart, Opening, Holds
<1> QED
  BY <1>1, <1>4, <1>5, <1>6, LocalStep DEF IInv, TypeOK

(* Whoever enters a slug into the index waits for those who have it in doubt and
   finds it free of committed rows. *)
LEMMA ClaimSlugKeeps ==
  ASSUME IInv, NEW r \in Requests, ClaimSlug(r)
  PROVE  IInv'
<1>1. /\ Frame(r) /\ UNCHANGED <<role, stores, call, session>>
      /\ pc[r] = "slug" /\ pc'[r] = IF session[r].promotes THEN "promote" ELSE "commit"
      /\ pc' \in [Requests -> Steps] /\ call[r] \in Calls
  BY DEF ClaimSlug, Goto, IInv, TypeOK, SessionInv, Staged, Frame, Steps
<1>2. Written(r)' = Written(r)
  BY <1>1 DEF Written
<1>3. NotNull(Written(r)) /\ Staged(r) /\ Opens(r) /\ Edits(r)
  BY DEF ClaimSlug, RowAllowed, IInv, SessionInv
<1>4. Staged(r)'
  BY <1>1, <1>3 DEF Staged, Edits, Editing
<1>5. Opens(r)'
  <2>1. Opening(r)' => Opening(r)
    BY <1>1 DEF Opening
  <2>2. Opening(r) => Shaped(session[r].obj)
    <3> SUFFICES ASSUME Opening(r) PROVE Shaped(session[r].obj)
      OBVIOUS
    <3>1. Written(r) = session[r].obj /\ session[r].obj.owner \in Users \cup {None}
      BY <1>3 DEF Opens, Written, ClaimSlug, OwnerExists
    <3> QED
      BY <1>3, <3>1 DEF Opens, Shaped
  <2> QED
    BY <1>1, <1>3, <2>1, <2>2 DEF Opens
<1>6. Edits(r)'
  BY <1>1, <1>2, <1>3 DEF Edits, Editing
<1>7. Loads(r)' /\ ~SlugTaken(r)'
  BY <1>1 DEF Loads, ClaimSlug, SlugTaken
<1>8. \A q \in Requests \ {r} : Apart(q, r)'
  <2> SUFFICES ASSUME NEW q \in Requests \ {r} PROVE Apart(q, r)'
    OBVIOUS
  <2>1. Apart(q, r) /\ q \notin Blockers(r)
    BY DEF IInv, PairInv, ClaimSlug
  <2>2. Claims(q) => session[q].obj.slug # session[r].obj.slug
    BY <2>1 DEF Blockers, Touches, Claims
  <2> QED
    BY <1>1, <2>1, <2>2 DEF Apart, Opening, Holds, Claims, Frame
<1> QED
  BY <1>1, <1>4, <1>5, <1>6, <1>7, <1>8, LocalStep DEF IInv, TypeOK

(* The role is written under the lock of its row, which only holds others up. *)
LEMMA PromoteKeeps ==
  ASSUME IInv, NEW r \in Requests, Promote(r)
  PROVE  IInv'
<1>1. /\ Frame(r) /\ UNCHANGED <<role, stores, call, session>>
      /\ pc[r] = "promote" /\ pc'[r] = "commit" /\ pc' \in [Requests -> Steps]
  BY DEF Promote, Goto, IInv, TypeOK, Frame, Steps
<1>2. Staged(r) /\ Opens(r) /\ call[r].op = "create" /\ (Claims(r) => ~SlugTaken(r))
  BY <1>1 DEF IInv, SessionInv, Staged, ClaimInv
<1>3. /\ Staged(r)' /\ Opens(r)' /\ Loads(r)' /\ Edits(r)'
      /\ (Claims(r) => ~SlugTaken(r))'
  BY <1>1, <1>2 DEF Staged, Opens, Opening, Loads, Edits, Editing, Claims, SlugTaken
<1>4. \A q \in Requests \ {r} : Apart(q, r)'
  BY <1>1, <1>2 DEF IInv, PairInv, Apart, Opening, Holds, Claims, Frame
<1> QED
  BY <1>1, <1>3, <1>4, LocalStep DEF IInv, TypeOK

-----------------------------------------------------------------------------
(* What a commit may be: nothing, an edit of a row that keeps its kind and owner,
   or a new store, with the promotion of its owner or without. *)
LEMMA CommitCases ==
  ASSUME IInv, NEW r \in Requests, Commit(r)
  PROVE  LET id == session[r].id
             user == call[r].user
         IN /\ Frame(r) /\ call' = call /\ call[r] \in Calls /\ user \in Users /\ id \in StoreIds
            /\ pc[r] = "commit" /\ pc'[r] = "respond" /\ session'[r] = Fresh
            /\ \/ /\ call[r].op # "create" /\ session[r].dirty = {}
                  /\ UNCHANGED <<role, stores>>
               \/ /\ call[r].op # "create" /\ session[r].dirty # {} /\ Edits(r)
                  /\ stores' = [stores EXCEPT ![id] = Written(r)]
                  /\ stores[id] # None /\ Written(r) \in Rows /\ Shaped(Written(r))
                  /\ Written(r).kind = stores[id].kind /\ Written(r).owner = stores[id].owner
                  /\ \A c \in Columns : Written(r)[c] =
                       IF c \in session[r].dirty THEN session[r].obj[c] ELSE stores[id][c]
                  /\ role' = role
               \/ /\ call[r].op = "create" /\ "slug" \in session[r].dirty /\ Opens(r)
                  /\ stores' = [stores EXCEPT ![id] = Written(r)]
                  /\ stores[id] = None /\ Written(r) \in Rows /\ Shaped(Written(r))
                  /\ Written(r) = session[r].obj
                  /\ role' = IF session[r].promotes THEN [role EXCEPT ![user] = "VENDOR"] ELSE role
<1> DEFINE id == session[r].id
           user == call[r].user
<1>1. /\ Frame(r) /\ call' = call /\ call[r] \in Calls /\ user \in Users
      /\ pc[r] = "commit" /\ pc'[r] = "respond" /\ session'[r] = Fresh
  BY DEF Commit, Goto, Frame, IInv, TypeOK, SessionInv, Staged, Calls
<1>2. Opens(r) /\ Edits(r)
  BY DEF IInv, SessionInv
<1>3. CASE call[r].op # "create"
  <2>1. /\ id = call[r].id /\ id \in StoreIds /\ session[r].promotes = FALSE
        /\ stores[id] # None /\ session[r].obj \in Rows
        /\ session[r].dirty # {} => NotNull(Written(r))
    BY <1>1, <1>2, <1>3 DEF Edits, Editing, Calls
  <2>2. /\ role' = role
        /\ session[r].dirty = {} => stores' = stores
        /\ session[r].dirty # {} => stores' = [stores EXCEPT ![id] = Written(r)]
    BY <2>1 DEF Commit
  <2>3. /\ Written(r) \in Rows
        /\ Written(r).kind = stores[id].kind /\ Written(r).owner = stores[id].owner
        /\ \A c \in Columns : Written(r)[c] =
             IF c \in session[r].dirty THEN session[r].obj[c] ELSE stores[id][c]
    BY <2>1, WrittenType DEF IInv
  <2>4. NotNull(Written(r)) => Shaped(Written(r))
    BY <2>1, <2>3 DEF Shaped, IInv, ShapeInv
  <2> QED
    BY <1>1, <1>2, <1>3, <2>1, <2>2, <2>3, <2>4
<1>4. CASE call[r].op = "create"
  <2>1. /\ id \in StoreIds /\ stores[id] = None /\ session[r].obj \in Rows
        /\ session[r].dirty = Columns /\ Shaped(session[r].obj)
    BY <1>1, <1>2, <1>4 DEF Opens, Opening
  <2>2. Written(r) = session[r].obj
    BY <2>1 DEF Written
  <2>3. "slug" \in session[r].dirty
    BY <2>1 DEF Columns
  <2>4. /\ stores' = [stores EXCEPT ![id] = Written(r)]
        /\ role' = IF session[r].promotes THEN [role EXCEPT ![user] = "VENDOR"] ELSE role
    BY <2>3 DEF Commit
  <2> QED
    BY <1>1, <1>2, <1>4, <2>1, <2>2, <2>3, <2>4
<1> QED
  BY <1>3, <1>4

(* The only role a commit gives is VENDOR, and only to a CUSTOMER or a VENDOR. *)
LEMMA CommitRoles ==
  ASSUME IInv, NEW r \in Requests, Commit(r)
  PROVE  /\ role' \in [Users -> RoleStrings]
         /\ \A u \in Users : role'[u] = role[u] \/ (role[u] = "CUSTOMER" /\ role'[u] = "VENDOR")
<1>1. CASE session[r].promotes
  <2>1. /\ role' = [role EXCEPT ![call[r].user] = "VENDOR"]
        /\ role[call[r].user] \in {"CUSTOMER", "VENDOR"}
    <3>1. pc[r] = "commit" /\ Opens(r) /\ Edits(r)
      BY DEF Commit, IInv, SessionInv
    <3> QED
      BY <1>1, <3>1 DEF Opens, Opening, Edits, Editing, Commit
  <2> QED
    BY <2>1 DEF IInv, TypeOK, RoleStrings, Roles
<1>2. CASE ~session[r].promotes
  BY <1>2 DEF Commit, IInv, TypeOK
<1> QED
  BY <1>1, <1>2

(* A commit leaves every other request what it relies on: its new id free, its
   row there with kind and owner, its caller's role no less. *)
LEMMA CommitLeavesOthers ==
  ASSUME IInv, NEW r \in Requests, Commit(r), NEW q \in Requests \ {r}
  PROVE  Staged(q)' /\ Opens(q)' /\ Loads(q)' /\ Edits(q)'
<1> DEFINE id == session[r].id
<1>1. /\ pc'[q] = pc[q] /\ call'[q] = call[q] /\ session'[q] = session[q]
      /\ call[q] \in Calls \cup {None}
  BY CommitCases DEF Frame, IInv, TypeOK
<1>2. Staged(q) /\ Opens(q) /\ Loads(q) /\ Edits(q) /\ Apart(q, r) /\ Apart(r, q)
  BY DEF IInv, SessionInv, PairInv
<1>3. call[q] # None => call[q].user \in Users
  BY <1>1 DEF Calls
<1>4. /\ \A u \in Users : role'[u] = role[u] \/ (role[u] = "CUSTOMER" /\ role'[u] = "VENDOR")
      /\ \A u \in Users : role[u] \in RoleStrings
  BY CommitRoles DEF IInv, TypeOK
<1>5. Staged(q)' /\ Loads(q)'
  BY <1>1, <1>2, <1>3, <1>4 DEF Staged, Loads
<1>6. stores' = stores \/ \A i \in StoreIds \ {id} : stores'[i] = stores[i]
  BY CommitCases DEF IInv, TypeOK
<1>7. Opens(q)'
  <2> SUFFICES ASSUME Opening(q) PROVE Opens(q)'
    BY <1>1 DEF Opens, Opening
  <2>1. call[q] # None
    BY <1>2 DEF Staged, Opening
  <2>2. session[q].id # id \/ stores' = stores
    BY <1>2, CommitCases DEF Opens, Opening, Apart
  <2>3. stores'[session[q].id] = None
    BY <1>2, <1>6, <2>2 DEF Opens
  <2> QED
    BY <1>1, <1>2, <1>3, <1>4, <2>1, <2>3 DEF Opens, Opening
<1>8. Edits(q)'
  <2> SUFFICES ASSUME Editing(q) PROVE Edits(q)'
    BY <1>1 DEF Edits, Editing
  <2> DEFINE own == session[q].id
  <2>1. call[q] # None /\ own \in StoreIds /\ stores[own] # None
    BY <1>1, <1>2 DEF Staged, Editing, Edits, Calls
  <2>2. CASE own = id /\ stores' # stores
    <3>1. /\ call[r].op # "create" /\ session[r].dirty # {}
          /\ stores'[own] = Written(r) /\ Written(r) # None
          /\ Written(r).kind = stores[own].kind /\ Written(r).owner = stores[own].owner
      BY <2>1, <2>2, CommitCases, NoneAssumption DEF IInv, TypeOK
    <3>2. Holds(r, own)
      BY <2>2, <3>1, CommitCases DEF Holds
    <3>3. ~Holds(q, own)
      BY <1>2, <2>1, <3>2 DEF Apart
    <3>4. pc[q] = "update" \/ session[q].dirty = {}
      BY <3>3 DEF Holds, Editing
    <3>5. CanModify(stores'[own], call[q].user, role'[call[q].user])
      BY <1>2, <1>3, <1>4, <2>1, <3>1 DEF Edits, CanModify
    <3> QED
      BY <1>1, <1>2, <2>1, <3>1, <3>4, <3>5 DEF Edits, Editing
  <2>3. CASE own # id \/ stores' = stores
    <3>1. stores'[own] = stores[own]
      BY <1>6, <2>1, <2>3
    <3>2. Written(q)' = Written(q)
      BY <1>1, <3>1 DEF Written
    <3> QED
      BY <1>1, <1>2, <1>3, <1>4, <2>1, <3>1, <3>2 DEF Edits, Editing, CanModify
  <2> QED
    BY <2>2, <2>3
<1> QED
  BY <1>5, <1>7, <1>8

(* The row a commit writes takes no slug that another row or request has. *)
LEMMA CommitSlugs ==
  ASSUME IInv, NEW r \in Requests, Commit(r)
  PROVE  SlugsUnique' /\ ClaimInv'
<1> DEFINE id == session[r].id
<1>1. CASE stores' = stores
  <2>1. SlugsUnique'
    BY <1>1 DEF IInv, SlugsUnique
  <2>2. ClaimInv'
    BY <1>1, CommitCases DEF IInv, ClaimInv, Claims, SlugTaken, Frame
  <2> QED
    BY <2>1, <2>2
<1>2. CASE stores' # stores
  <2>1. /\ id \in StoreIds /\ stores' = [stores EXCEPT ![id] = Written(r)]
        /\ \/ Claims(r) /\ Written(r).slug = session[r].obj.slug
           \/ stores[id] # None /\ Written(r).slug = stores[id].slug
    BY <1>2, CommitCases DEF Claims, Columns
  <2>2. \A j \in StoreIds \ {id} : stores[j] # None => stores[j].slug # Written(r).slug
    BY <2>1 DEF IInv, ClaimInv, SlugTaken, SlugsUnique
  <2>3. SlugsUnique'
    BY <2>1, <2>2 DEF IInv, TypeOK, SlugsUnique
  <2>4. ASSUME NEW q \in Requests, Claims(q)' PROVE ~SlugTaken(q)'
    <3>1. /\ q # r /\ session'[q] = session[q] /\ pc'[q] = pc[q] /\ Claims(q)
      BY <2>4, CommitCases DEF Claims, Frame
    <3>2. /\ ~SlugTaken(q) /\ Apart(q, r)
      BY <3>1 DEF IInv, ClaimInv, PairInv
    <3>3. session[q].id = id \/ Written(r).slug # session[q].obj.slug
      BY <2>1, <3>1, <3>2 DEF Apart, SlugTaken
    <3> QED
      BY <2>1, <3>1, <3>2, <3>3 DEF SlugTaken, IInv, TypeOK
  <2> QED
    BY <2>3, <2>4 DEF ClaimInv
<1> QED
  BY <1>1, <1>2

(* The commit, where the row and the role appear. *)
LEMMA CommitKeeps ==
  ASSUME IInv, NEW r \in Requests, Commit(r)
  PROVE  IInv'
<1>1. TypeOK'
  <2>1. Fresh \in Sessions
    BY DEF Fresh, Sessions
  <2>2. stores' \in [StoreIds -> {row \in Rows : row.slug # None /\ row.is_active # None} \cup {None}]
    BY CommitCases DEF IInv, TypeOK, Shaped, NotNull
  <2> QED
    BY <2>1, <2>2, CommitRoles DEF IInv, TypeOK, Commit, Goto, Steps
<1>2. ShapeInv'
  BY CommitCases DEF IInv, TypeOK, ShapeInv
<1>3. SessionInv'
  <2>1. Staged(r)' /\ Opens(r)' /\ Loads(r)' /\ Edits(r)'
    <3>1. pc'[r] = "respond" /\ session'[r] = Fresh /\ call'[r] \in Calls
      BY CommitCases
    <3> QED
      BY <3>1, NoneAssumption DEF Staged, Opens, Opening, Loads, Edits, Editing
  <2> QED
    BY <2>1, CommitLeavesOthers DEF SessionInv
<1>4. PairInv'
  <2> SUFFICES ASSUME NEW p \in Requests, NEW q \in Requests, p # q PROVE Apart(p, q)'
    BY DEF PairInv
  <2>1. CASE p # r /\ q # r
    BY <2>1, CommitCases DEF IInv, PairInv, Apart, Opening, Holds, Claims, Frame
  <2>2. CASE p = r \/ q = r
    BY <2>2, CommitCases DEF Apart, Opening, Holds, Claims
  <2> QED
    BY <2>1, <2>2
<1> QED
  BY <1>1, <1>2, <1>3, <1>4, CommitSlugs DEF IInv

-----------------------------------------------------------------------------
(* Before the first request. *)
LEMMA InitInv == Init => IInv
<1> SUFFICES ASSUME Init PROVE IInv
  OBVIOUS
<1>1. TypeOK
  BY DEF Init, TypeOK, Steps, Fresh, Sessions
<1>2. SessionInv
  BY DEF Init, SessionInv, Staged, Opens, Opening, Loads, Edits, Editing
<1>3. PairInv /\ ClaimInv
  BY DEF Init, PairInv, Apart, ClaimInv, Opening, Holds, Claims
<1>4. ShapeInv /\ SlugsUnique
  BY DEF Init, ShapeInv, SlugsUnique
<1> QED
  BY <1>1, <1>2, <1>3, <1>4 DEF IInv

(* IInv holds through every step of every request. *)
THEOREM IInvInductive == IInv /\ [Next]_vars => IInv'
<1> SUFFICES ASSUME IInv, [Next]_vars PROVE IInv'
  OBVIOUS
<1>1. ASSUME NEW r \in Requests, NEW c \in Calls, Receive(r, c) PROVE IInv'
  BY <1>1, ReceiveKeeps
<1>2. ASSUME NEW r \in Requests, Run(r) PROVE IInv'
  BY <1>2, CreateStoreKeeps, AuthenticateKeeps, LoadStoreKeeps, CommitKeeps, ReplyKeeps
  DEF Run, Respond
<1>3. ASSUME NEW r \in Requests, Write(r) PROVE IInv'
  BY <1>3, UpdateRowKeeps, ClaimSlugKeeps, PromoteKeeps, ReplyKeeps
  DEF Write, Conflict, DeadlockVictim
<1>4. ASSUME NEW r \in Requests, Fail(r) PROVE IInv'
  BY <1>4, ReplyKeeps DEF Fail
<1>5. CASE UNCHANGED vars
  <2>1. UNCHANGED <<role, stores, pc, call, session>>
    BY <1>5 DEF vars
  <2>2. TypeOK' /\ ShapeInv' /\ SlugsUnique' /\ ClaimInv'
    BY <2>1 DEF IInv, TypeOK, ShapeInv, SlugsUnique, ClaimInv, Claims, SlugTaken
  <2>3. PairInv'
    BY <2>1 DEF IInv, PairInv, Apart, Opening, Holds, Claims
  <2>4. SessionInv'
    BY <2>1, SessionStays DEF IInv, SessionInv
  <2> QED
    BY <2>2, <2>3, <2>4 DEF IInv
<1> QED
  BY <1>1, <1>2, <1>3, <1>4, <1>5 DEF Next, Idle

(* IInv holds always. *)
LEMMA InvariantHolds == Spec => []IInv
  BY InitInv, IInvInductive, PTL DEF Spec

(* Every variable keeps its type, and committed rows their NOT NULL columns. *)
THEOREM TypeCorrect == Spec => []TypeOK
<1>1. IInv => TypeOK
  BY DEF IInv
<1> QED
  BY <1>1, InvariantHolds, PTL

(* No two stores ever share a slug, although no handler looks for it first. *)
THEOREM SlugsApart == Spec => []SlugsUnique
<1>1. IInv => SlugsUnique
  BY DEF IInv
<1> QED
  BY <1>1, InvariantHolds, PTL

-----------------------------------------------------------------------------
(* Only commits write the tables, and only a commit takes a request on from its
   commit to its response. *)
LEMMA OnlyCommits ==
  ASSUME IInv, [Next]_vars
  PROVE  /\ UNCHANGED <<role, stores>> \/ \E r \in Requests : Commit(r)
         /\ \A r \in Requests : pc[r] = "commit" /\ pc'[r] = "respond" => Commit(r)
<1>1. CASE \E r \in Requests : Commit(r)
  <2>1. PICK r \in Requests : Commit(r)
    BY <1>1
  <2>2. \A q \in Requests \ {r} : pc'[q] = pc[q]
    BY <2>1, CommitCases DEF Frame
  <2> QED
    BY <2>1, <2>2
<1>2. CASE ~\E r \in Requests : Commit(r)
  <2>1. pc \in [Requests -> Steps]
    BY DEF IInv, TypeOK
  <2>2. CASE UNCHANGED vars
    BY <2>2 DEF vars
  <2>3. ASSUME NEW q \in Requests,
               \/ \E c \in Calls : Receive(q, c)
               \/ Run(q) \/ Write(q) \/ Fail(q)
        PROVE  /\ UNCHANGED <<role, stores>>
               /\ \A r \in Requests : ~(pc[r] = "commit" /\ pc'[r] = "respond")
    BY <1>2, <2>1, <2>3 DEF Receive, Run, Write, Fail, CreateStore, Authenticate, LoadStore,
       Respond, UpdateRow, ClaimSlug, Conflict, Promote, DeadlockVictim, Reply, Goto
  <2> QED
    BY <2>2, <2>3 DEF Next, Idle
<1> QED
  BY <1>1, <1>2

(* What a step does to the tables is what some commit does; the form in which the
   action properties use it. *)
LEMMA StoreChanges ==
  ASSUME IInv, [Next]_vars, NEW i \in StoreIds, stores'[i] # stores[i]
  PROVE  \E r \in Requests : Commit(r) /\ Commits(r, i)
<1>1. PICK r \in Requests : Commit(r)
  BY OnlyCommits
<1>2. pc[r] = "commit" /\ pc'[r] = "respond" /\ session[r].id = i
  BY <1>1, CommitCases DEF IInv, TypeOK
<1> QED
  BY <1>1, <1>2 DEF Commits

(* Self-service onboarding is all or nothing, whatever overlaps it: roles change
   in the step that commits a CUSTOMER's own marketplace store, and only there. *)
THEOREM Onboarding == Spec => OnboardingIsAtomic
<1> DEFINE Promoted(u) ==
      role'[u] # role[u] =>
        /\ role[u] = "CUSTOMER" /\ role'[u] = "VENDOR"
        /\ \E i \in StoreIds : /\ stores[i] = None /\ stores'[i] # None
                               /\ stores'[i].kind = "MARKETPLACE" /\ stores'[i].owner = u
           Sells(r) ==
      (pc[r] = "commit" /\ pc'[r] = "respond" /\ call[r].op = "create"
         /\ session[r].obj.owner = call[r].user)
        => role'[call[r].user] \in {"ADMIN", "VENDOR"}
<1>1. IInv /\ [Next]_vars => \A u \in Users : Promoted(u)
  <2> SUFFICES ASSUME IInv, [Next]_vars, NEW u \in Users,
                      role'[u] # role[u] PROVE Promoted(u)
    OBVIOUS
  <2>1. PICK r \in Requests : Commit(r)
    BY OnlyCommits
  <2>2. role[u] = "CUSTOMER" /\ role'[u] = "VENDOR"
    BY <2>1, CommitRoles
  <2>3. /\ call[r].op = "create" /\ session[r].promotes /\ u = call[r].user /\ Opens(r)
        /\ session[r].id \in StoreIds /\ stores[session[r].id] = None
        /\ stores' = [stores EXCEPT ![session[r].id] = session[r].obj]
    BY <2>1, CommitCases DEF IInv, TypeOK
  <2>4. /\ session[r].obj.kind = "MARKETPLACE" /\ session[r].obj.owner = u
        /\ session[r].obj \in Rows
    BY <2>1, <2>3 DEF Opens, Opening, Commit
  <2>5. stores'[session[r].id] = session[r].obj
    BY <2>3 DEF IInv, TypeOK
  <2> QED
    BY <2>2, <2>3, <2>4, <2>5, NoneAssumption
<1>2. IInv /\ [Next]_vars => \A r \in Requests : Sells(r)
  <2> SUFFICES ASSUME IInv, [Next]_vars, NEW r \in Requests,
                      pc[r] = "commit", pc'[r] = "respond", call[r].op = "create",
                      session[r].obj.owner = call[r].user
      PROVE role'[call[r].user] \in {"ADMIN", "VENDOR"}
    OBVIOUS
  <2>1. Commit(r)
    BY OnlyCommits
  <2>2. session[r].promotes \/ role[call[r].user] \in {"ADMIN", "VENDOR"}
    BY DEF IInv, SessionInv, Opens, Opening
  <2>3. /\ call[r].user \in Users
        /\ role' = IF session[r].promotes THEN [role EXCEPT ![call[r].user] = "VENDOR"] ELSE role
    BY <2>1, CommitCases
  <2> QED
    BY <2>2, <2>3 DEF IInv, TypeOK
<1> QED
  BY <1>1, <1>2, InvariantHolds, PTL DEF Spec, OnboardingIsAtomic

(* An edit that waited, for a row or for a slug, still writes no column but those
   of its payload: the others keep what was committed meanwhile. *)
THEOREM PayloadsOnly == Spec => PayloadOnly
<1> DEFINE FromPayload(i) ==
      (stores[i] # None /\ stores'[i] # stores[i]) =>
        \E r \in Requests :
          /\ Commits(r, i)
          /\ call[r].op # "create"
          /\ \A c \in DOMAIN stores[i] : stores'[i][c] # stores[i][c] =>
               c \in DOMAIN Assigned(call[r]) /\ Assigned(call[r])[c] = stores'[i][c]
<1>1. IInv /\ [Next]_vars => \A i \in StoreIds : FromPayload(i)
  <2> SUFFICES ASSUME IInv, [Next]_vars, NEW i \in StoreIds,
                      stores[i] # None, stores'[i] # stores[i] PROVE FromPayload(i)
    OBVIOUS
  <2>1. PICK r \in Requests : Commit(r) /\ Commits(r, i)
    BY StoreChanges
  <2>2. session[r].id = i
    BY <2>1 DEF Commits
  <2>3. /\ call[r].op # "create" /\ Edits(r)
        /\ stores' = [stores EXCEPT ![i] = Written(r)]
        /\ Written(r).kind = stores[i].kind /\ Written(r).owner = stores[i].owner
        /\ \A c \in Columns : Written(r)[c] =
             IF c \in session[r].dirty THEN session[r].obj[c] ELSE stores[i][c]
    BY <2>1, <2>2, CommitCases
  <2>4. stores[i] \in Rows /\ stores'[i] = Written(r)
    BY <2>3 DEF IInv, TypeOK
  <2>5. ASSUME NEW c \in DOMAIN stores[i], stores'[i][c] # stores[i][c]
        PROVE  c \in session[r].dirty /\ stores'[i][c] = session[r].obj[c]
    <3>1. c \in Columns \cup {"kind", "owner"}
      BY <2>4 DEF Rows, Columns
    <3> QED
      BY <2>3, <2>4, <2>5, <3>1
  <2>6. \A c \in session[r].dirty : /\ c \in DOMAIN Assigned(call[r])
                                    /\ session[r].obj[c] = Assigned(call[r])[c]
    BY <2>1, <2>3 DEF Edits, Editing, Commit
  <2> QED
    BY <2>1, <2>3, <2>5, <2>6
<1> QED
  BY <1>1, InvariantHolds, PTL DEF Spec, PayloadOnly

(* The CHECKs of the kinds let every row pass that the mapper can write, with or
   without address, domain and owner. *)
THEOREM ChecksNeverFire == \A row \in Rows : KindChecks(row)
  BY DEF Rows, KindNames, KindChecks

(* Only a PATCH that carries a null takes the address or the domain off a store,
   and owners stay with the kind: what is left of the shape without the CHECKs. *)
THEOREM ShapeNeedsNull == Spec => ShapeLostToNullOnly
<1> DEFINE Nulled(i) ==
      \E r \in Requests : /\ Commits(r, i) /\ call[r].op = "patch"
                          /\ "detail" \in DOMAIN call[r].payload
                          /\ call[r].payload.detail = None
           Fits(i) ==
      (stores'[i] # None /\ stores'[i] # stores[i]) =>
        /\ IF stores'[i].kind = "MARKETPLACE" THEN stores'[i].owner \in Users
           ELSE stores'[i].owner = None
        /\ LosesDetail(stores[i], stores'[i]) => Nulled(i)
<1>1. IInv /\ [Next]_vars => \A i \in StoreIds : Fits(i)
  <2> SUFFICES ASSUME IInv, [Next]_vars, NEW i \in StoreIds,
                      stores'[i] # None, stores'[i] # stores[i] PROVE Fits(i)
    OBVIOUS
  <2>1. PICK r \in Requests : Commit(r) /\ Commits(r, i)
    BY StoreChanges
  <2>2. session[r].id = i /\ pc[r] = "commit" /\ call[r] \in Calls
    BY <2>1, CommitCases DEF Commits
  <2>3. stores'[i] = Written(r) /\ Written(r) \in Rows /\ Shaped(Written(r))
    BY <2>1, <2>2, CommitCases DEF IInv, TypeOK
  <2>4. CASE call[r].op = "create"
    <3>1. Opens(r) /\ Opening(r) /\ Written(r) = session[r].obj
      BY <2>1, <2>2, <2>4, CommitCases DEF Opening
    <3> QED
      BY <2>3, <3>1 DEF Opens, Shaped, LosesDetail
  <2>5. CASE call[r].op # "create"
    <3>1. /\ Edits(r) /\ Editing(r) /\ stores[i] # None
          /\ \A c \in Columns : Written(r)[c] =
               IF c \in session[r].dirty THEN session[r].obj[c] ELSE stores[i][c]
      BY <2>1, <2>2, <2>5, CommitCases DEF Editing
    <3>2. LosesDetail(stores[i], stores'[i]) => Nulled(i)
      <4> SUFFICES ASSUME LosesDetail(stores[i], stores'[i]) PROVE Nulled(i)
        OBVIOUS
      <4>1. "detail" \in session[r].dirty /\ session[r].obj["detail"] = None
        BY <2>3, <3>1 DEF LosesDetail, Columns
      <4>2. "detail" \in DOMAIN Assigned(call[r]) /\ Assigned(call[r])["detail"] = None
        BY <3>1, <4>1 DEF Edits
      <4>3. call[r].op = "patch"
        BY <2>2, <2>5, <4>2 DEF Assigned, Calls
      <4> QED
        BY <2>1, <4>2, <4>3 DEF Assigned
    <3> QED
      BY <2>3, <3>2 DEF Shaped
  <2> QED
    BY <2>4, <2>5
<1> QED
  BY <1>1, InvariantHolds, PTL DEF Spec, ShapeLostToNullOnly

(* The permission an edit was let in with still holds when it is committed. *)
THEOREM EditsStayPermitted == Spec => EditsPermitted
<1> DEFINE Permitted(i) ==
      (stores[i] # None /\ stores'[i] # stores[i]) =>
        \E r \in Requests :
          /\ Commits(r, i)
          /\ \/ role[call[r].user] = "ADMIN"
             \/ /\ role[call[r].user] = "VENDOR"
                /\ stores[i].kind = "MARKETPLACE"
                /\ stores[i].owner = call[r].user
<1>1. IInv /\ [Next]_vars => \A i \in StoreIds : Permitted(i)
  <2> SUFFICES ASSUME IInv, [Next]_vars, NEW i \in StoreIds,
                      stores[i] # None, stores'[i] # stores[i] PROVE Permitted(i)
    OBVIOUS
  <2>1. PICK r \in Requests : Commit(r) /\ Commits(r, i)
    BY StoreChanges
  <2>2. session[r].id = i /\ pc[r] = "commit"
    BY <2>1 DEF Commits
  <2>3. call[r].op # "create" /\ Edits(r)
    BY <2>1, <2>2, CommitCases
  <2>4. CanModify(stores[i], call[r].user, role[call[r].user])
    BY <2>2, <2>3 DEF Edits, Editing
  <2> QED
    BY <2>1, <2>4 DEF CanModify
<1> QED
  BY <1>1, InvariantHolds, PTL DEF Spec, EditsPermitted

(* No edit brings a soft-deleted store back, whenever it had loaded it. *)
THEOREM DeletedForGood == Spec => RetiredForever
<1> DEFINE StaysRetired(i) ==
      (stores[i] # None /\ stores[i].is_active = FALSE) => stores'[i].is_active = FALSE
<1>1. IInv /\ [Next]_vars => \A i \in StoreIds : StaysRetired(i)
  <2> SUFFICES ASSUME IInv, [Next]_vars, NEW i \in StoreIds,
                      stores[i] # None, stores[i].is_active = FALSE, stores'[i] # stores[i]
      PROVE stores'[i].is_active = FALSE
    OBVIOUS
  <2>1. PICK r \in Requests : Commit(r) /\ Commits(r, i)
    BY StoreChanges
  <2>2. session[r].id = i
    BY <2>1 DEF Commits
  <2>3. /\ Edits(r) /\ call[r].op # "create" /\ stores' = [stores EXCEPT ![i] = Written(r)]
        /\ Written(r) \in Rows /\ Shaped(Written(r))
        /\ \A c \in Columns : Written(r)[c] =
             IF c \in session[r].dirty THEN session[r].obj[c] ELSE stores[i][c]
    BY <2>1, <2>2, CommitCases
  <2>4. stores'[i] = Written(r)
    BY <2>3 DEF IInv, TypeOK
  <2>5. CASE "is_active" \in session[r].dirty
    <3>1. session[r].obj.is_active # TRUE
      BY <2>1, <2>3, <2>5 DEF Edits, Editing, Commit
    <3>2. Written(r).is_active = session[r].obj.is_active
      BY <2>3, <2>5 DEF Columns
    <3>3. Written(r).is_active \in BOOLEAN
      BY <2>3 DEF Rows, Shaped, NotNull
    <3> QED
      BY <2>4, <3>1, <3>2, <3>3
  <2>6. CASE "is_active" \notin session[r].dirty
    BY <2>3, <2>4, <2>6 DEF Columns
  <2> QED
    BY <2>5, <2>6
<1> QED
  BY <1>1, InvariantHolds, PTL DEF Spec, RetiredForever
=============================================================================
