------------------------------- MODULE Stores -------------------------------
(***************************************************************************)
(* routers/stores.py: create, PATCH and soft delete of stores, with the    *)
(* tables stores and users over PostgreSQL at READ COMMITTED.              *)
(*                                                                         *)
(* A request is a coroutine and an action is the code between two awaits.  *)
(* The flush inside session.commit() is three waits of its own: for the    *)
(* row an UPDATE writes, for the unique index on slug, and for the user    *)
(* row of a promotion.  What a transaction holds while it waits follows    *)
(* from how far it has come (Holds, Touches).                              *)
(*                                                                         *)
(* Columns that no rule tells apart are left out.  What remains are slug   *)
(* (unique, NOT NULL), is_active (NOT NULL) and detail, which stands for   *)
(* the columns a CHECK requires of the kind: the address of a physical     *)
(* store, the domain of an online one.                                     *)
(***************************************************************************)
EXTENDS Integers, FiniteSets

CONSTANTS
  Users,      \* rows of users
  Strangers,  \* user ids without a row
  StoreIds,   \* bound: the stores there can be
  Slugs, Details,
  Requests,   \* the requests that can be in flight at once
  Creates,    \* the StoreCreate payloads, with the caller
  Patches,    \* the StoreUpdate payloads: the fields set, with their values
  None        \* a missing row, a null

(* The Enums of db/models.py write the name of a member and read nothing else.
   Requests carry the value of a kind, and SQL compares with values: the CHECKs
   on stores, and the server_default of users.role. *)
Roles == {"ADMIN", "SELLER", "VENDOR", "CUSTOMER"}
RoleStrings == Roles \cup {"customer"}

Kinds == {"physical", "online", "marketplace"}
KindNames == {"PHYSICAL", "ONLINE", "MARKETPLACE"}

Stored(kind) == CASE kind = "physical"    -> "PHYSICAL"
                  [] kind = "online"      -> "ONLINE"
                  [] kind = "marketplace" -> "MARKETPLACE"

Columns == {"slug", "detail", "is_active"}

CreateSpace == [user : Users, kind : Kinds, owner : Users \cup Strangers \cup {None},
                slug : Slugs \cup {None}, detail : Details \cup {None}]

(* A PATCH may set any field to null: every field is optional and nullable. *)
Values == [slug |-> Slugs \cup {None}, detail |-> Details \cup {None},
           is_active |-> BOOLEAN \cup {None}]

PatchSpace ==
  UNION {{p \in [set -> UNION {Values[c] : c \in set}] : \A c \in set : p[c] \in Values[c]} :
           set \in SUBSET Columns}

ASSUME PayloadsAssumption == Creates \subseteq CreateSpace /\ Patches \subseteq PatchSpace

Rows == [kind : KindNames, owner : Users \cup Strangers \cup {None}, slug : Slugs \cup {None},
         detail : Details \cup {None}, is_active : BOOLEAN \cup {None}]

Calls == [op : {"create"}, user : Users, payload : Creates]
           \cup [op : {"patch"}, user : Users, id : StoreIds, payload : Patches]
           \cup [op : {"delete"}, user : Users, id : StoreIds]

ASSUME NoneAssumption ==
  None \notin Users /\ None \notin BOOLEAN /\ None \notin Rows /\ None \notin Calls

VARIABLES
  role,     \* Users -> users.role, as it is stored
  stores,   \* StoreIds -> committed row, or None
  pc,       \* Requests -> the await the request is about to make
  call,     \* Requests -> caller, payload and path
  session   \* Requests -> what the handler and its SQLAlchemy session hold

vars == <<role, stores, pc, call, session>>

Steps == {"idle", "authenticate", "load", "update", "slug", "promote", "commit", "respond"}

(* user_role: role of current_user as loaded; promotes: it was set to VENDOR;
   id, obj, dirty: the Store object and the columns its UPDATE sets. *)
Sessions == [user_role : Roles \cup {None}, promotes : BOOLEAN, id : StoreIds \cup {None},
             obj : Rows \cup {None}, dirty : SUBSET Columns]

Fresh == [user_role |-> None, promotes |-> FALSE, id |-> None, obj |-> None, dirty |-> {}]

-----------------------------------------------------------------------------
Init ==
  /\ role \in [Users -> RoleStrings]
  /\ stores = [id \in StoreIds |-> None]
  /\ pc = [r \in Requests |-> "idle"]
  /\ call = [r \in Requests |-> None]
  /\ session = [r \in Requests |-> Fresh]

(* The end of a request with any status; an open transaction rolls back. *)
Reply(r) ==
  /\ pc' = [pc EXCEPT ![r] = "idle"]
  /\ call' = [call EXCEPT ![r] = None]
  /\ session' = [session EXCEPT ![r] = Fresh]
  /\ UNCHANGED <<role, stores>>

Goto(r, step) == pc' = [pc EXCEPT ![r] = step]

Creating == {r \in Requests : call[r] # None /\ call[r].op = "create"}

Receive(r, c) ==
  /\ pc[r] = "idle"
  /\ c.op = "create" =>
       Cardinality({id \in StoreIds : stores[id] # None}) + Cardinality(Creating)
         < Cardinality(StoreIds)
  /\ Goto(r, "authenticate")
  /\ call' = [call EXCEPT ![r] = c]
  /\ UNCHANGED <<role, stores, session>>

AddressMissing(p) == p.kind = "physical" /\ p.detail = None

(* _validate_kind_specific_fields: what the CHECKs are meant to say. *)
FieldsMissing(p) ==
  \/ p.kind = "physical" /\ p.detail = None
  \/ p.kind = "online" /\ (p.detail = None \/ p.owner # None)

MayCreate(kind, userRole) ==
  IF kind = "marketplace" THEN userRole # "SELLER" ELSE userRole = "ADMIN"

NeverPromotes(p, userRole) == FALSE

(* A CUSTOMER's own marketplace store makes them a VENDOR. *)
Promotes(p, userRole) == p.kind = "marketplace" /\ userRole = "CUSTOMER"

OwnerFor(p, user, userRole) ==
  CASE p.kind # "marketplace" -> None
    [] p.kind = "marketplace" /\ userRole = "ADMIN" /\ p.owner # None -> p.owner
    [] OTHER -> user

(* get_current_user loads its user, or the mapper refuses the string it reads. *)
Loadable(user) == role[user] \in Roles

FreshIds == {id \in StoreIds : stores[id] = None /\ \A q \in Creating : session[q].id # id}

(* get_current_user, and all of create_store up to its commit. *)
CreateStore(r) ==
  LET user == call[r].user
      p == call[r].payload
  IN /\ pc[r] = "authenticate"
     /\ call[r].op = "create"
     /\ \/ ~Loadable(user) /\ Reply(r)                                   \* 500
        \/ ~MayCreate(p.kind, role[user]) /\ Reply(r)                    \* 403
        \/ FieldsMissing(p) /\ Reply(r)                                  \* 422
        \/ p.slug = None /\ Reply(r)                                     \* 422
        \/ /\ Loadable(user)
           /\ MayCreate(p.kind, role[user])
           /\ ~FieldsMissing(p)
           /\ p.slug # None
           /\ \E id \in FreshIds :
                session' = [session EXCEPT ![r] =
                  [user_role |-> role[user],
                   promotes |-> Promotes(p, role[user]),
                   id |-> id,
                   obj |-> [kind |-> Stored(p.kind), owner |-> OwnerFor(p, user, role[user]),
                            slug |-> p.slug, detail |-> p.detail, is_active |-> TRUE],
                   dirty |-> Columns]]
           /\ Goto(r, "slug")
           /\ UNCHANGED <<role, stores, call>>

(* get_current_user of the other two endpoints. *)
Authenticate(r) ==
  /\ pc[r] = "authenticate"
  /\ call[r].op # "create"
  /\ \/ ~Loadable(call[r].user) /\ Reply(r)                               \* 500
     \/ /\ Loadable(call[r].user)
        /\ session' = [session EXCEPT ![r].user_role = role[call[r].user],
                                      ![r].id = call[r].id]
        /\ Goto(r, "load")
        /\ UNCHANGED <<role, stores, call>>

CanModifyAnyMarketplace(row, user, userRole) ==
  userRole = "ADMIN" \/ (userRole = "VENDOR" /\ row.kind = "MARKETPLACE")

(* _can_modify, on the role and the row as they were loaded. *)
CanModify(row, user, userRole) ==
  \/ userRole = "ADMIN"
  \/ userRole = "VENDOR" /\ row.kind = "MARKETPLACE" /\ row.owner = user

Assigned(c) == IF c.op = "delete" THEN [set \in {"is_active"} |-> FALSE] ELSE c.payload

Present(row) == row # None

(* What _load_store returns rather than a 404. *)
Visible(row) == row # None /\ row.is_active

(* _load_store, the permission, and the assignments; only the columns they
   really change are in the UPDATE, and no UPDATE is sent when none is. *)
LoadStore(r) ==
  LET id == session[r].id
      row == stores[id]
      set == Assigned(call[r])
      new == [c \in DOMAIN row |-> IF c \in DOMAIN set THEN set[c] ELSE row[c]]
      changed == {c \in DOMAIN set : set[c] # row[c]}
  IN /\ pc[r] = "load"
     /\ \/ ~Visible(row) /\ Reply(r)                                     \* 404
        \/ /\ Visible(row)
           /\ ~CanModify(row, call[r].user, session[r].user_role)
           /\ Reply(r)                                                   \* 403
        \/ /\ Visible(row)
           /\ CanModify(row, call[r].user, session[r].user_role)
           /\ session' = [session EXCEPT ![r].obj = new, ![r].dirty = changed]
           /\ Goto(r, IF changed = {} THEN "commit" ELSE "update")
           /\ UNCHANGED <<role, stores, call>>

WrittenWhole(r) == session[r].obj

(* The row as the transaction leaves it: new, or the dirty columns written
   over what other transactions committed. *)
Written(r) ==
  LET old == stores[session[r].id]
  IN IF old = None THEN session[r].obj
     ELSE [c \in DOMAIN old |-> IF c \in session[r].dirty THEN session[r].obj[c] ELSE old[c]]

SlugOrNull(row) == row.is_active # None

(* The NOT NULL columns of db/models.py. *)
NotNull(row) == row.slug # None /\ row.is_active # None

(* Its CHECK constraints, on the kind that is stored: none of them ever fires. *)
KindChecks(row) ==
  /\ row.kind # "physical" \/ row.detail # None
  /\ row.kind # "online" \/ (row.detail # None /\ row.owner = None)
  /\ row.kind # "marketplace" \/ row.owner # None

RowAllowed(row) == NotNull(row) /\ KindChecks(row)

(* The request whose UPDATE has run holds the row to the end of its transaction. *)
Holds(q, id) == /\ pc[q] \in {"slug", "commit"}
                /\ call[q].op # "create"
                /\ session[q].id = id
                /\ session[q].dirty # {}

UpdateRow(r) ==
  /\ pc[r] = "update"
  /\ \A q \in Requests : ~Holds(q, session[r].id)
  /\ RowAllowed(Written(r))
  /\ Goto(r, IF "slug" \in session[r].dirty THEN "slug" ELSE "commit")
  /\ UNCHANGED <<role, stores, call, session>>

(* The slugs a transaction has in doubt for the others: the one its UPDATE
   takes off a row, and the one it has put into the index. *)
Touches(q) ==
  {stores[id].slug : id \in {id \in StoreIds : /\ stores[id] # None
                                               /\ Holds(q, id) /\ "slug" \in session[q].dirty}}
    \cup (IF pc[q] \in {"promote", "commit"} /\ "slug" \in session[q].dirty
          THEN {session[q].obj.slug} ELSE {})

Blockers(r) == {q \in Requests \ {r} : session[r].obj.slug \in Touches(q)}

SlugTakenByActive(r) ==
  \E id \in StoreIds \ {session[r].id} :
    stores[id] # None /\ stores[id].slug = session[r].obj.slug /\ stores[id].is_active

SlugTaken(r) ==
  \E id \in StoreIds \ {session[r].id} :
    stores[id] # None /\ stores[id].slug = session[r].obj.slug

OwnerExists(r) == session[r].obj.owner \in Users \cup {None}

(* INSERT INTO stores, or the index entry of an UPDATE of slug: wait for who
   has the slug in doubt; then the unique index, the foreign key. *)
ClaimSlug(r) ==
  /\ pc[r] = "slug"
  /\ RowAllowed(Written(r))
  /\ Blockers(r) = {}
  /\ ~SlugTaken(r)
  /\ OwnerExists(r)
  /\ Goto(r, IF session[r].promotes THEN "promote" ELSE "commit")
  /\ UNCHANGED <<role, stores, call, session>>

(* The CHECK of revision 0004 lets in "vendor" and the other values, not "VENDOR";
   the tables of db/models.py have no such CHECK.  Either may be what is there. *)
PromotionRefused(r) == pc[r] = "promote"

(* IntegrityError: every one is answered with 409 "slug already in use". *)
Conflict(r) ==
  /\ \/ pc[r] = "slug" /\ Blockers(r) = {} /\ (SlugTaken(r) \/ ~OwnerExists(r))
     \/ pc[r] = "slug" /\ ~RowAllowed(Written(r))
     \/ /\ pc[r] = "update"
        /\ \A q \in Requests : ~Holds(q, session[r].id)
        /\ ~RowAllowed(Written(r))
     \/ PromotionRefused(r)
  /\ Reply(r)

(* UPDATE users SET role, which waits for another promotion of that user. *)
Promote(r) ==
  /\ pc[r] = "promote"
  /\ \A q \in Requests \ {r} :
       ~(pc[q] = "commit" /\ session[q].promotes /\ call[q].user = call[r].user)
  /\ Goto(r, "commit")
  /\ UNCHANGED <<role, stores, call, session>>

Undetected(S) == FALSE

(* PostgreSQL aborts one of the transactions that wait for each other: 500. *)
Cycle(S) == \A q \in S : pc[q] = "slug" /\ Blockers(q) \cap S # {}

DeadlockVictim(r) ==
  \E S \in SUBSET Requests : /\ r \in S /\ Cycle(S)
                             /\ \A T \in (SUBSET S) \ {{}, S} : ~Cycle(T)
                             /\ Reply(r)

Commit(r) ==
  /\ pc[r] = "commit"
  /\ Goto(r, "respond")
  /\ IF session[r].dirty = {} THEN UNCHANGED stores
     ELSE stores' = [stores EXCEPT ![session[r].id] = Written(r)]
  /\ IF session[r].promotes THEN role' = [role EXCEPT ![call[r].user] = "VENDOR"]
     ELSE UNCHANGED role
  /\ session' = [session EXCEPT ![r] = Fresh]
  /\ UNCHANGED call

(* session.refresh and the response; a delete has nothing to refresh. *)
Respond(r) == pc[r] = "respond" /\ Reply(r)

(* The connection or the process dies at any await. *)
Fail(r) == pc[r] # "idle" /\ Reply(r)

Idle == (\A r \in Requests : pc[r] = "idle") /\ UNCHANGED vars

Run(r) == CreateStore(r) \/ Authenticate(r) \/ LoadStore(r) \/ Commit(r) \/ Respond(r)

Write(r) == UpdateRow(r) \/ ClaimSlug(r) \/ Conflict(r) \/ Promote(r) \/ DeadlockVictim(r)

Next == \/ \E r \in Requests : \/ \E c \in Calls : Receive(r, c)
                               \/ Run(r) \/ Write(r) \/ Fail(r)
        \/ Idle

Spec == Init /\ [][Next]_vars

(* Coroutines are resumed, waiters get their turn, deadlocks are detected. *)
FairSpec == Spec /\ \A r \in Requests : WF_vars(Run(r)) /\ SF_vars(Write(r))

-----------------------------------------------------------------------------
(* Every variable holds a value of its kind, and a committed row has no null
   slug or is_active. *)
TypeOK ==
  /\ role \in [Users -> RoleStrings]
  /\ stores \in [StoreIds -> {row \in Rows : row.slug # None /\ row.is_active # None} \cup {None}]
  /\ pc \in [Requests -> Steps]
  /\ call \in [Requests -> Calls \cup {None}]
  /\ session \in [Requests -> Sessions]

(* No two stores share a slug, retired ones included, although no handler looks
   whether a slug is free before it writes. *)
SlugsUnique ==
  \A i, j \in StoreIds :
    (i # j /\ stores[i] # None /\ stores[j] # None) => stores[i].slug # stores[j].slug

(* "DB CHECK constraints enforce kind-specific required fields" (README.md:275):
   a store has what its kind needs after any sequence of PATCHes, a physical one
   its address, an online one its domain and no owner, a marketplace one an owner. *)
KindShape ==
  \A i \in StoreIds : stores[i] # None =>
    CASE stores[i].kind = "PHYSICAL"    -> stores[i].detail # None
      [] stores[i].kind = "ONLINE"      -> stores[i].detail # None /\ stores[i].owner = None
      [] stores[i].kind = "MARKETPLACE" -> stores[i].owner # None

(* Self-service onboarding is all or nothing: a CUSTOMER becomes VENDOR in the
   step that commits a marketplace store of theirs and in no other, and no role
   changes otherwise; when the create fails on its slug the role stays. *)
OnboardingIsAtomic ==
  [][/\ \A u \in Users : role'[u] # role[u] =>
          /\ role[u] = "CUSTOMER" /\ role'[u] = "VENDOR"
          /\ \E i \in StoreIds : /\ stores[i] = None /\ stores'[i] # None
                                 /\ stores'[i].kind = "MARKETPLACE" /\ stores'[i].owner = u
     /\ \A r \in Requests :
          (pc[r] = "commit" /\ pc'[r] = "respond" /\ call[r].op = "create"
             /\ session[r].obj.owner = call[r].user)
          => role'[call[r].user] \in {"ADMIN", "VENDOR"}]_vars

Commits(r, i) == pc[r] = "commit" /\ pc'[r] = "respond" /\ session[r].id = i

(* A column of a store changes only to the value the committing PATCH or DELETE
   carries for it: what the handler had loaded never overwrites what others
   committed since; kind and owner never change. *)
PayloadOnly ==
  [][\A i \in StoreIds : (stores[i] # None /\ stores'[i] # stores[i]) =>
       \E r \in Requests :
         /\ Commits(r, i)
         /\ call[r].op # "create"
         /\ \A c \in DOMAIN stores[i] : stores'[i][c] # stores[i][c] =>
              c \in DOMAIN Assigned(call[r]) /\ Assigned(call[r])[c] = stores'[i][c]]_vars

(* A written store comes to lack, or begins without, what its kind requires. *)
LosesDetail(old, new) ==
  /\ new.kind # "MARKETPLACE" /\ new.detail = None
  /\ IF old = None THEN TRUE ELSE old.detail # None

(* What is left of the shape without the CHECKs: only the validation of a create
   and the foreign key stand for it.  A store that is written has an owner who
   exists if it is a marketplace store and none if it is not, and it lacks the
   address or domain of its kind only once a PATCH has carried a null for it. *)
ShapeLostToNullOnly ==
  [][\A i \in StoreIds : (stores'[i] # None /\ stores'[i] # stores[i]) =>
       /\ IF stores'[i].kind = "MARKETPLACE" THEN stores'[i].owner \in Users
          ELSE stores'[i].owner = None
       /\ LosesDetail(stores[i], stores'[i]) =>
            \E r \in Requests : /\ Commits(r, i) /\ call[r].op = "patch"
                                /\ "detail" \in DOMAIN call[r].payload
                                /\ call[r].payload.detail = None]_vars

(* Permissions hold when the change lands, not only when they were checked: at
   the commit the caller is an ADMIN, or the VENDOR who owns the marketplace
   store (the table in the docstring of routers/stores.py). *)
EditsPermitted ==
  [][\A i \in StoreIds : (stores[i] # None /\ stores'[i] # stores[i]) =>
       \E r \in Requests :
         /\ Commits(r, i)
         /\ \/ role[call[r].user] = "ADMIN"
            \/ /\ role[call[r].user] = "VENDOR"
               /\ stores[i].kind = "MARKETPLACE"
               /\ stores[i].owner = call[r].user]_vars

(* A soft-deleted store stays deleted, also when a PATCH that loaded it while
   it was active commits later. *)
RetiredForever ==
  [][\A i \in StoreIds :
       (stores[i] # None /\ stores[i].is_active = FALSE) => stores'[i].is_active = FALSE]_vars

(* Every request is answered, those that wait for each other's slugs too. *)
RequestsAnswered == \A r \in Requests : pc[r] # "idle" ~> pc[r] = "idle"
=============================================================================
