------------------------------ MODULE Listing -------------------------------
(***************************************************************************)
(* The paged lists: _pagination.paginate and its copies in the two         *)
(* inventory lists.  A page is two statements, a COUNT and the page        *)
(* itself, each with its own READ COMMITTED snapshot.  A client walks the  *)
(* pages 1, 2, 3, ... of one list up to an empty page (there is no client  *)
(* in the repository) while other requests commit writes to its rows.      *)
(*                                                                         *)
(* A row of the list is reduced to what the list orders and filters by;    *)
(* `fits` stands for the q, kind and owner_user_id filters together.       *)
(***************************************************************************)
EXTENDS Availability

CONSTANTS
  Endpoints,    \* the lists of this instance, a subset of Lists
  Ids,          \* bound: the rows a list can have
  Stamps,       \* created_at, as ranks
  Names,        \* Product.name or Store.name, as ranks
  Quantities, Thresholds,
  Limits        \* page sizes

ByCreatedAt == {"movements", "products", "stores"}
ByName      == {"store_inventory", "product_inventory"}
Lists       == ByCreatedAt \cup ByName

ASSUME EndpointsAssumption == Endpoints \subseteq Lists
ASSUME LimitsAssumption == Limits \subseteq Nat \ {0}
ASSUME IdsAssumption == IsFiniteSet(Ids)
ASSUME RanksAssumption == Stamps \subseteq Nat /\ Names \subseteq Nat

Rows(e) ==
  CASE e = "movements"         -> [created : Stamps]
    [] e \in {"products", "stores"} -> [created : Stamps, fits : BOOLEAN, active : BOOLEAN]
    [] e = "store_inventory"   -> [name : Names, fits : BOOLEAN, quantity : Quantities,
                                   threshold : Thresholds \cup {None}]
    [] e = "product_inventory" -> [name : Names, quantity : Quantities]

ASSUME NoneAssumption == \A e \in Lists : None \notin Rows(e)

(* The filters of the query string. *)
Queries(e) ==
  CASE e = "movements"         -> [limit : Limits]
    [] e \in {"products", "stores"} -> [limit : Limits, include_inactive : BOOLEAN]
    [] e = "store_inventory"   -> [limit : Limits, include_zero : BOOLEAN, low_stock_only : BOOLEAN]
    [] e = "product_inventory" -> [limit : Limits, include_zero : BOOLEAN]

VARIABLES
  endpoint,  \* the list that is walked
  rows,      \* Ids -> committed row, or None
  parent,    \* is_active of the store or product in the path
  query,     \* the query parameters of the walk
  pc,        \* the await the page's handler is about to make; "idle" between pages
  page,      \* the page asked for last
  total,     \* the COUNT of that page
  returned,  \* all pages of the walk, one after the other
  start,     \* history: the rows of the list when the walk began
  since      \* history: what writes have done to the list since then

client == <<query, pc, page, total, returned>>
vars == <<endpoint, rows, parent, client, start, since>>

-----------------------------------------------------------------------------
Matches(row, e, qs) ==
  /\ e \in {"products", "stores"} => row.fits /\ (qs.include_inactive \/ row.active)
  /\ e \in ByName => qs.include_zero \/ NonZero(row.quantity)
  /\ e = "store_inventory" =>
       row.fits /\ (qs.low_stock_only => LowStock(row.quantity, row.threshold))

(* base: the SELECT both statements are made from. *)
Base == {i \in Ids : rows[i] # None /\ Matches(rows[i], endpoint, query)}

InNoOrder(i, j) == FALSE

(* order_by: created_at DESC, or the name ASC; rows that tie come as they come. *)
Before(i, j) == IF endpoint \in ByName THEN rows[i].name < rows[j].name
                ELSE rows[i].created > rows[j].created

Orders(S) ==
  {order \in [1..Cardinality(S) -> S] :
     \A j, k \in 1..Cardinality(S) : j < k => /\ order[j] # order[k]
                                              /\ ~Before(order[k], order[j])}

OffsetFromZero(p, limit) == p * limit

Offset(p, limit) == (p - 1) * limit

Uncapped(order, p, limit) == SubSeq(order, Offset(p, limit) + 1, Len(order))

Slice(order, p, limit) ==
  SubSeq(order, Offset(p, limit) + 1,
         IF Offset(p, limit) + limit <= Len(order) THEN Offset(p, limit) + limit ELSE Len(order))

FullPages(count, limit) == count \div limit

TotalPages(count, limit) == IF count = 0 THEN 0 ELSE (count + limit - 1) \div limit

Init ==
  /\ endpoint \in Endpoints
  /\ rows = [i \in Ids |-> None]
  /\ parent = TRUE
  /\ query \in Queries(endpoint)
  /\ pc = "ended"
  /\ page = 0 /\ total = 0 /\ returned = <<>>
  /\ start = {} /\ since = {}

(* A client starts at the first page. *)
Begin(qs) ==
  /\ pc = "ended"
  /\ query' = qs
  /\ pc' = "idle"
  /\ page' = 0 /\ total' = 0 /\ returned' = <<>>
  /\ start' = {i \in Ids : rows[i] # None /\ Matches(rows[i], endpoint, qs)}
  /\ since' = {}
  /\ UNCHANGED <<endpoint, rows, parent>>

(* The next page; only the inventory lists have a parent to load first. *)
Ask ==
  /\ pc = "idle"
  /\ page' = page + 1
  /\ pc' = IF endpoint \in ByName THEN "require" ELSE "count"
  /\ UNCHANGED <<endpoint, rows, parent, query, total, returned, start, since>>

(* _require_store, _require_product. *)
Require ==
  /\ pc = "require"
  /\ pc' = IF parent THEN "count" ELSE "ended"                             \* 404
  /\ UNCHANGED <<endpoint, rows, parent, query, page, total, returned, start, since>>

CountAll == Cardinality({i \in Ids : rows[i] # None})

CountBase == Cardinality(Base)

Count ==
  /\ pc = "count"
  /\ total' = CountBase
  /\ pc' = "select"
  /\ since' = since \ {"between"}
  /\ UNCHANGED <<endpoint, rows, parent, query, page, returned, start>>

Select ==
  /\ pc = "select"
  /\ \E order \in Orders(Base) :
       LET items == Slice(order, page, query.limit)
       IN /\ returned' = returned \o items
          /\ pc' = IF items = <<>> THEN "ended" ELSE "idle"
  /\ UNCHANGED <<endpoint, rows, parent, query, page, total, start, since>>

(* What a write does to the list; "between" that it fell between the two
   statements of a page. *)
Effect(i, new) ==
  LET was == i \in Base
      is == Matches(new, endpoint, query)
  IN (IF is /\ ~was THEN {"enter", "between"} ELSE {})
       \cup (IF was /\ ~is THEN {"leave", "between"} ELSE {})
       \cup (IF was /\ is /\ endpoint \in ByName THEN {"move"} ELSE {})

Commit(i, new) ==
  /\ rows' = [rows EXCEPT ![i] = new]
  /\ since' = since \cup Effect(i, new)
  /\ UNCHANGED <<endpoint, parent, client, start>>

(* A create, a first touch, an audit entry.  created_at is the server's clock as
   the row was flushed, before its commit: it may appear below rows that were
   there before it. *)
Insert(i, new) ==
  /\ rows[i] = None
  /\ endpoint \in ByCreatedAt => \A j \in Ids : rows[j] # None => rows[j].created # new.created
  /\ endpoint \in {"products", "stores"} => new.active
  /\ Commit(i, new)

(* A PATCH or a soft delete; stock written and products or stores renamed.
   Movements are never written again. *)
Edit(i, new) ==
  /\ rows[i] # None
  /\ new # rows[i]
  /\ endpoint # "movements"
  /\ endpoint \in {"products", "stores"} => rows[i].active /\ new.created = rows[i].created
  /\ Commit(i, new)

RetireParent ==
  /\ endpoint \in ByName
  /\ parent
  /\ parent' = FALSE
  /\ UNCHANGED <<endpoint, rows, client, start, since>>

Next ==
  \/ \E qs \in Queries(endpoint) : Begin(qs)
  \/ Ask \/ Require \/ Count \/ Select
  \/ \E i \in Ids, new \in Rows(endpoint) : Insert(i, new) \/ Edit(i, new)
  \/ RetireParent

Spec == Init /\ [][Next]_vars

-----------------------------------------------------------------------------
(* Every variable holds a value of its kind, and pages have no more than `limit`
   rows (PageParams: "Items per page"). *)
TypeOK ==
  /\ endpoint \in Endpoints
  /\ rows \in [Ids -> Rows(endpoint) \cup {None}]
  /\ parent \in BOOLEAN
  /\ query \in Queries(endpoint)
  /\ pc \in {"idle", "require", "count", "select", "ended"}
  /\ page \in Nat
  /\ total \in 0..Cardinality(Ids)
  /\ returned \in Seq(Ids) /\ Len(returned) <= page * query.limit
  /\ start \subseteq Ids
  /\ since \subseteq {"enter", "leave", "move", "between"}

ReturnedIds == {returned[k] : k \in DOMAIN returned}

ReturnedOnce == \A j, k \in DOMAIN returned : j # k => returned[j] # returned[k]

(* The two statements of a page agree: unless a row entered or left the list
   between them, the page holds exactly the rows `total` says are left for it,
   past the last page none.  The filters must be in both queries, as the comment
   "copy the count/offset pattern verbatim" asks of the inventory lists. *)
PageFills ==
  [][(pc = "select" /\ pc' # "select" /\ "between" \notin since) =>
     LET left == total - Offset(page, query.limit)
         room == IF left < query.limit THEN left ELSE query.limit
     IN Len(returned') - Len(returned) = IF room < 0 THEN 0 ELSE room]_vars

(* No two rows of the list tie. *)
Strict == \A i, j \in Base : i # j => Before(i, j) \/ Before(j, i)

QuietWalkEnds == pc = "idle" /\ since = {} /\ page >= 1 /\ page >= TotalPages(total, query.limit)

(* Paging is deterministic (paginate): when nothing in the list changes during
   the walk, the pages up to total_pages hold every row exactly once. *)
QuietWalkExact == QuietWalkEnds => ReturnedOnce /\ ReturnedIds = start

(* The same for the lists whose order leaves no tie, as created_at does. *)
StrictWalkExact == QuietWalkEnds /\ Strict => ReturnedOnce /\ ReturnedIds = start

(* Rows that only come in, at any place of the order, never hide a row: a walk
   up to an empty page has every row that was there when it began.  This is what
   makes the audit log of a pair readable while sales go on. *)
WalkLosesNothing ==
  (pc = "ended" /\ parent /\ page >= 1 /\ since \subseteq {"enter", "between"} /\ Strict) =>
    start \subseteq ReturnedIds

(* Rows that only drop out of a list by created_at (soft deletes) never make
   another row appear twice. *)
RemovalsNeverRepeat ==
  (endpoint \in ByCreatedAt /\ since \subseteq {"leave", "between"}) => ReturnedOnce
=============================================================================
