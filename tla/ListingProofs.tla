--------------------------- MODULE ListingProofs ---------------------------
(***************************************************************************)
(* Proofs about Listing, for rows, filters and page sizes of any values:   *)
(* a page agrees with its COUNT, a walk over unchanged rows is exact,      *)
(* insertions hide nothing and removals repeat nothing.                    *)
(*                                                                         *)
(* None of it is inductive: what a later page returns depends on where the *)
(* rows are that earlier pages returned or left out.  IInv adds that a row *)
(* still to come has at least as many rows ahead of it as earlier pages    *)
(* have gone past (StillToCome), and one already returned has fewer        *)
(* (LeftBehind).                                                           *)
(***************************************************************************)
EXTENDS Listing, TLAPS, FiniteSetTheorems, SequenceTheorems

(* The rows that the pages answered so far have gone past. *)
Passed == IF pc = "idle" THEN Offset(page + 1, query.limit) ELSE Offset(page, query.limit)

(* At least n rows of the list come before row i. *)
Ahead(i, n) == \E f \in Injection(1..n, Base) : \A k \in 1..n : Before(f[k], i)

PageInv == pc # "ended" => /\ Len(returned) <= Passed
                           /\ pc # "idle" => page >= 1

StampsApart ==
  endpoint \in ByCreatedAt =>
    \A i, j \in Ids : (i # j /\ rows[i] # None /\ rows[j] # None) => rows[i].created # rows[j].created

(* What `total` counted is still there. *)
Counted ==
  \/ pc = "select" /\ "between" \notin since
  \/ pc = "idle" /\ page >= 1 /\ since = {}

CountInv == Counted => total = Cardinality(Base)

(* `since` tells what the list and the walk have become. *)
SinceInv ==
  /\ "between" \in since => "enter" \in since \/ "leave" \in since
  /\ "leave" \notin since => start \subseteq Base
  /\ "enter" \notin since => Base \subseteq start /\ ReturnedIds \subseteq start

OnlyGrows == since \subseteq {"enter", "between"} /\ Strict

StillToCome ==
  OnlyGrows =>
    /\ pc # "ended" => \A i \in start \ ReturnedIds : Ahead(i, Passed)
    /\ pc = "ended" /\ parent /\ page >= 1 => start \subseteq ReturnedIds

OnlyShrinks ==
  \/ endpoint \in ByCreatedAt /\ since \subseteq {"leave", "between"}
  \/ since = {} /\ Strict

LeftBehind ==
  OnlyShrinks =>
    /\ ReturnedOnce
    /\ pc # "ended" => \A i \in ReturnedIds \cap Base : ~Ahead(i, Passed)

IInv == TypeOK /\ PageInv /\ StampsApart /\ CountInv /\ SinceInv /\ StillToCome /\ LeftBehind

-----------------------------------------------------------------------------
(* The list and its order. *)
LEMMA BaseFinite == IsFiniteSet(Base) /\ Cardinality(Base) \in 0..Cardinality(Ids)
<1>1. Base \in SUBSET Ids
  BY DEF Base
<1> QED
  BY <1>1, IdsAssumption, FS_Subset, FS_CardinalityType

(* No row comes before itself. *)
LEMMA Irreflexive ==
  ASSUME TypeOK, NEW i \in Base
  PROVE  ~Before(i, i)
<1>1. i \in Ids /\ rows[i] \in Rows(endpoint) /\ endpoint \in Lists
  BY EndpointsAssumption DEF TypeOK, Base
<1>2. CASE endpoint \in ByName
  <2>1. rows[i].name \in Nat
    BY <1>1, <1>2, RanksAssumption DEF Rows, ByName
  <2> QED
    BY <1>2, <2>1 DEF Before
<1>3. CASE endpoint \in ByCreatedAt
  <2>1. rows[i].created \in Nat
    BY <1>1, <1>3, RanksAssumption DEF Rows, ByCreatedAt
  <2> QED
    BY <1>3, <2>1 DEF Before, ByName, ByCreatedAt
<1> QED
  BY <1>1, <1>2, <1>3 DEF Lists

(* Lists by created_at have no ties. *)
LEMMA ByStampIsStrict ==
  ASSUME TypeOK, StampsApart, endpoint \in ByCreatedAt
  PROVE  Strict
<1> SUFFICES ASSUME NEW i \in Base, NEW j \in Base, i # j
             PROVE  Before(i, j) \/ Before(j, i)
  BY DEF Strict
<1>1. rows[i].created # rows[j].created
  BY DEF StampsApart, Base
<1>2. rows[i].created \in Nat /\ rows[j].created \in Nat
  BY RanksAssumption DEF TypeOK, Base, Rows, ByCreatedAt
<1> QED
  BY <1>1, <1>2 DEF Before, ByName, ByCreatedAt

(* An order of the list has every row of it once, and when no rows tie, each
   comes before the later ones. *)
LEMMA OrderOfBase ==
  ASSUME NEW order \in Orders(Base)
  PROVE  /\ order \in Seq(Base) /\ Len(order) = Cardinality(Base)
         /\ order \in Injection(1..Cardinality(Base), Base)
         /\ \A i \in Base : \E k \in 1..Cardinality(Base) : order[k] = i
         /\ Strict => \A j, k \in 1..Cardinality(Base) : j < k => Before(order[j], order[k])
<1> DEFINE n == Cardinality(Base)
<1>1. n \in Nat
  BY BaseFinite
<1>2. /\ order \in [1..n -> Base]
      /\ \A j, k \in 1..n : j < k => order[j] # order[k] /\ ~Before(order[k], order[j])
  BY DEF Orders
<1>3. order \in Seq(Base) /\ Len(order) = n
  BY <1>1, <1>2
<1>4. order \in Injection(1..n, Base)
  BY <1>1, <1>2 DEF Injection, IsInjective
<1>5. IsFiniteSet(1..n) /\ Cardinality(1..n) = n
  BY <1>1, FS_Interval
<1>6. order \in Surjection(1..n, Base)
  BY <1>4, <1>5, BaseFinite, FS_Injection
<1>7. \A i \in Base : \E k \in 1..n : order[k] = i
  BY <1>6 DEF Surjection
<1>8. ASSUME Strict, NEW j \in 1..n, NEW k \in 1..n, j < k
      PROVE  Before(order[j], order[k])
  BY <1>2, <1>8 DEF Strict
<1> QED
  BY <1>3, <1>4, <1>7, <1>8

(* The k-th row has exactly k - 1 rows ahead of it. *)
LEMMA InPlace ==
  ASSUME TypeOK, Strict, NEW order \in Orders(Base),
         NEW k \in 1..Cardinality(Base), NEW m \in Nat
  PROVE  Ahead(order[k], m) <=> m < k
<1> DEFINE n == Cardinality(Base)
<1>1. n \in Nat
  BY BaseFinite
<1>2. /\ order \in [1..n -> Base]
      /\ \A a, b \in 1..n : order[a] = order[b] => a = b
      /\ \A i \in Base : \E a \in 1..n : order[a] = i
      /\ \A a, b \in 1..n : a < b => Before(order[a], order[b])
      /\ \A a, b \in 1..n : a < b => ~Before(order[b], order[a])
  BY OrderOfBase DEF Injection, IsInjective, Orders
<1>3. ASSUME m < k PROVE Ahead(order[k], m)
  <2> DEFINE f == [a \in 1..m |-> order[a]]
  <2>1. f \in Injection(1..m, Base)
    BY <1>1, <1>2, <1>3 DEF Injection, IsInjective
  <2>2. \A a \in 1..m : Before(f[a], order[k])
    BY <1>1, <1>2, <1>3
  <2> HIDE DEF f
  <2> QED
    BY <2>1, <2>2 DEF Ahead
<1>4. ASSUME Ahead(order[k], m) PROVE m < k
  <2>1. PICK f \in Injection(1..m, Base) : \A a \in 1..m : Before(f[a], order[k])
    BY <1>4 DEF Ahead
  <2>2. /\ f \in [1..m -> Base]
        /\ \A a, b \in 1..m : f[a] = f[b] => a = b
    BY <2>1 DEF Injection, IsInjective
  <2> DEFINE place == [a \in 1..m |-> CHOOSE b \in 1..n : order[b] = f[a]]
  <2>3. ASSUME NEW a \in 1..m
        PROVE  place[a] \in 1..(k - 1) /\ order[place[a]] = f[a]
    <3>1. place[a] \in 1..n /\ order[place[a]] = f[a]
      BY <1>2, <2>2
    <3>2. Before(order[place[a]], order[k])
      BY <2>1, <3>1
    <3>3. order[k] \in Base
      BY <1>2
    <3>4. place[a] # k
      BY <3>2, <3>3, Irreflexive
    <3> HIDE DEF place
    <3>5. ~(k < place[a])
      BY <1>2, <3>1, <3>2
    <3> QED
      BY <1>1, <3>1, <3>4, <3>5
  <2>4. place \in Injection(1..m, 1..(k - 1))
    <3>1. place \in [1..m -> 1..(k - 1)]
      BY <2>3
    <3>2. \A a, b \in 1..m : place[a] = place[b] => a = b
      <4> HIDE DEF place
      <4> QED
        BY <2>2, <2>3
    <3> QED
      BY <3>1, <3>2 DEF Injection, IsInjective
  <2>5. IsFiniteSet(1..(k - 1)) /\ Cardinality(1..(k - 1)) = k - 1
    <3> DEFINE last == k - 1
    <3>1. last \in Nat
      BY <1>1
    <3> HIDE DEF last
    <3>2. IsFiniteSet(1..last) /\ Cardinality(1..last) = last
      BY <3>1, FS_Interval
    <3> QED
      BY <3>2 DEF last
  <2>6. Cardinality(1..m) = m
    BY FS_Interval
  <2> HIDE DEF place
  <2>7. m <= k - 1
    BY <2>4, <2>5, <2>6, FS_Injection
  <2> QED
    BY <1>1, <2>7
<1> QED
  BY <1>3, <1>4

(* A row of the list has fewer rows ahead of it than the list has. *)
LEMMA AheadBounded ==
  ASSUME TypeOK, NEW i \in Base, NEW m \in Nat, Ahead(i, m)
  PROVE  m < Cardinality(Base)
<1>1. PICK f \in Injection(1..m, Base) : \A k \in 1..m : Before(f[k], i)
  BY DEF Ahead
<1>2. \A k \in 1..m : f[k] # i
  BY <1>1, Irreflexive
<1>3. f \in Injection(1..m, Base \ {i})
  BY <1>1, <1>2 DEF Injection, IsInjective
<1>4. /\ IsFiniteSet(Base \ {i})
      /\ Cardinality(Base \ {i}) = Cardinality(Base) - 1
  BY BaseFinite, FS_RemoveElement
<1>5. Cardinality(1..m) = m
  BY FS_Interval
<1>6. m <= Cardinality(Base) - 1
  BY <1>3, <1>4, <1>5, FS_Injection
<1> QED
  BY <1>6, BaseFinite

(* Who has n rows ahead has fewer, too. *)
LEMMA FewerAhead ==
  ASSUME NEW i, NEW m \in Nat, NEW n \in Nat, m <= n, Ahead(i, n)
  PROVE  Ahead(i, m)
<1>1. PICK f \in Injection(1..n, Base) : \A k \in 1..n : Before(f[k], i)
  BY DEF Ahead
<1> DEFINE g == [k \in 1..m |-> f[k]]
<1>2. g \in Injection(1..m, Base)
  BY <1>1 DEF Injection, IsInjective
<1>3. \A k \in 1..m : Before(g[k], i)
  BY <1>1
<1> HIDE DEF g
<1> QED
  BY <1>2, <1>3 DEF Ahead

(* Every row has at least no row ahead of it. *)
LEMMA NobodyAhead == \A S : <<>> \in Injection(1..0, S)
  BY DEF Injection, IsInjective

-----------------------------------------------------------------------------
(* What a write to row i does to the list. *)
LEMMA CommitMoves ==
  ASSUME TypeOK, NEW i \in Ids, NEW new \in Rows(endpoint), Insert(i, new) \/ Edit(i, new)
  PROVE  /\ "between" \in Effect(i, new) <=>
              ("enter" \in Effect(i, new) \/ "leave" \in Effect(i, new))
         /\ "leave" \notin Effect(i, new) => Base \subseteq Base'
         /\ "enter" \notin Effect(i, new) => Base' \subseteq Base
         /\ "move" \notin Effect(i, new) =>
              \A j, k \in Base \cap Base' : Before(j, k)' <=> Before(j, k)
         /\ endpoint \in ByCreatedAt => "move" \notin Effect(i, new)
<1>1. /\ rows' = [rows EXCEPT ![i] = new]
      /\ endpoint' = endpoint /\ query' = query
  BY DEF Insert, Edit, Commit, client
<1>2. endpoint \in Lists /\ new # None /\ rows \in [Ids -> Rows(endpoint) \cup {None}]
  BY EndpointsAssumption, NoneAssumption DEF TypeOK
<1> DEFINE was == i \in Base
           is == Matches(new, endpoint, query)
<1>3. /\ "enter" \in Effect(i, new) <=> is /\ ~was
      /\ "leave" \in Effect(i, new) <=> was /\ ~is
      /\ "move" \in Effect(i, new) <=> was /\ is /\ endpoint \in ByName
      /\ "between" \in Effect(i, new) <=> (is /\ ~was) \/ (was /\ ~is)
  BY DEF Effect
<1>4. rows'[i] = new /\ \A j \in Ids : j # i => rows'[j] = rows[j]
  BY <1>1, <1>2
<1>5. i \in Base' <=> is
  BY <1>1, <1>2, <1>4 DEF Base
<1>6. \A j \in Ids : j # i => (j \in Base' <=> j \in Base)
  BY <1>1, <1>4 DEF Base
<1>7. \A j \in Base \cup Base' : j \in Ids
  BY DEF Base
<1> HIDE DEF was, is
<1>8. /\ "leave" \notin Effect(i, new) => Base \subseteq Base'
      /\ "enter" \notin Effect(i, new) => Base' \subseteq Base
  <2> USE DEF was
  <2> QED
    BY <1>3, <1>5, <1>6, <1>7
<1>9. ASSUME "move" \notin Effect(i, new), NEW j \in Base \cap Base', NEW k \in Base \cap Base'
      PROVE  Before(j, k)' <=> Before(j, k)
  <2>1. CASE i \notin Base \cap Base'
    <3>1. rows'[j] = rows[j] /\ rows'[k] = rows[k]
      BY <1>4, <1>7, <2>1
    <3> QED
      BY <1>1, <3>1 DEF Before
  <2>2. CASE i \in Base \cap Base'
    <3>1. endpoint \notin ByName
      BY <1>3, <1>5, <1>9, <2>2 DEF was
    <3>2. Edit(i, new)
      BY <2>2 DEF Insert, Base
    <3>3. new.created = rows[i].created
      BY <1>2, <3>1, <3>2 DEF Edit, Lists, ByCreatedAt
    <3>4. rows'[j].created = rows[j].created /\ rows'[k].created = rows[k].created
      BY <1>4, <1>7, <3>3
    <3> QED
      BY <1>1, <3>1, <3>4 DEF Before
  <2> QED
    BY <2>1, <2>2
<1>10. endpoint \in ByCreatedAt => endpoint \notin ByName
  BY DEF ByCreatedAt, ByName
<1> QED
  BY <1>3, <1>8, <1>9, <1>10

(* Rows ahead stay ahead when the list keeps them and their order ... *)
LEMMA AheadStays ==
  ASSUME NEW i \in Base, NEW n \in Nat, Base \subseteq Base',
         \A j, k \in Base : Before(j, k) => Before(j, k)', Ahead(i, n)
  PROVE  Ahead(i, n)'
<1>1. PICK f \in Injection(1..n, Base) : \A k \in 1..n : Before(f[k], i)
  BY DEF Ahead
<1>2. f \in Injection(1..n, Base')
  BY <1>1 DEF Injection, IsInjective
<1>3. \A k \in 1..n : Before(f[k], i)'
  BY <1>1 DEF Injection
<1> QED
  BY <1>2, <1>3 DEF Ahead

(* ... and none come ahead when the list gets no others. *)
LEMMA NoMoreAhead ==
  ASSUME NEW i \in Base', NEW n \in Nat, Base' \subseteq Base,
         \A j, k \in Base' : Before(j, k)' => Before(j, k), Ahead(i, n)'
  PROVE  Ahead(i, n)
<1>1. PICK f \in Injection(1..n, Base') : \A k \in 1..n : Before(f[k], i)'
  BY DEF Ahead
<1>2. f \in Injection(1..n, Base)
  BY <1>1 DEF Injection, IsInjective
<1>3. \A k \in 1..n : Before(f[k], i)
  BY <1>1 DEF Injection
<1> QED
  BY <1>2, <1>3 DEF Ahead

(* The rows before page p, and those before the page after it. *)
LEMMA Offsets ==
  ASSUME NEW p \in Nat, NEW limit \in Nat \ {0}
  PROVE  /\ Offset(p + 1, limit) \in Nat /\ Offset(p + 1, limit) = p * limit
         /\ p >= 1 => /\ Offset(p, limit) \in Nat
                      /\ Offset(p + 1, limit) = Offset(p, limit) + limit
         /\ p = 0 => Offset(p + 1, limit) = 0
<1>1. p * limit \in Nat /\ (p + 1) - 1 = p
  OBVIOUS
<1>2. p >= 1 => p - 1 \in Nat /\ (p - 1) * limit \in Nat /\ p * limit = (p - 1) * limit + limit
  OBVIOUS
<1>3. 0 * limit = 0
  OBVIOUS
<1> QED
  BY <1>1, <1>2, <1>3 DEF Offset

(* A page size is a positive number (PageParams). *)
LEMMA LimitIs ==
  ASSUME NEW e \in Endpoints, NEW qs \in Queries(e)
  PROVE  qs.limit \in Nat \ {0}
<1>1. qs.limit \in Limits
  BY EndpointsAssumption DEF Queries, Lists, ByCreatedAt, ByName
<1> QED
  BY <1>1, LimitsAssumption

(* A page asked for leads to the rows of the next one. *)
LEMMA PassedIs ==
  ASSUME TypeOK, PageInv, pc # "ended"
  PROVE  Passed \in Nat /\ (pc # "idle" => Offset(page + 1, query.limit) = Passed + query.limit)
<1>1. page \in Nat
  BY DEF TypeOK
<1> QED
  BY <1>1, LimitIs, Offsets DEF Passed, PageInv, TypeOK

-----------------------------------------------------------------------------
(* The client's steps. *)
LEMMA InitInv == Init => IInv
<1> SUFFICES ASSUME Init PROVE IInv
  OBVIOUS
<1>1. TypeOK
  <2>1. rows \in [Ids -> Rows(endpoint) \cup {None}]
    BY DEF Init
  <2>2. returned \in Seq(Ids) /\ Len(returned) = 0 /\ page = 0
    BY DEF Init
  <2>3. query.limit \in Nat
    BY LimitIs DEF Init
  <2>4. page * query.limit = 0
    BY <2>2, <2>3
  <2>5. 0 \in 0..Cardinality(Ids)
    BY IdsAssumption, FS_CardinalityType
  <2> QED
    BY <2>1, <2>2, <2>4, <2>5 DEF Init, TypeOK
<1>2. Base = {} /\ ReturnedIds = {} /\ ReturnedOnce
  BY DEF Init, Base, ReturnedIds, ReturnedOnce
<1> QED
  BY <1>1, <1>2
    DEF Init, IInv, PageInv, StampsApart, CountInv, Counted, SinceInv, StillToCome, LeftBehind

(* A step that leaves the list alone leaves ahead what is ahead. *)
SameList == UNCHANGED <<endpoint, rows, query>>

(* ... and the list, its order and the order's ties stay as they are. *)
LEMMA ListStays ==
  ASSUME SameList
  PROVE  /\ Base' = Base /\ (Strict' <=> Strict)
         /\ StampsApart => StampsApart'
         /\ \A i, n : Ahead(i, n)' <=> Ahead(i, n)
<1>1. Base' = Base /\ \A i, j : Before(i, j)' <=> Before(i, j)
  BY DEF SameList, Base, Before
<1> QED
  BY <1>1 DEF SameList, Strict, StampsApart, Ahead

(* A walk starts with nothing returned and the whole list to come. *)
LEMMA BeginKeeps ==
  ASSUME IInv, NEW qs \in Queries(endpoint), Begin(qs)
  PROVE  IInv'
<1>1. /\ query' = qs /\ pc' = "idle" /\ page' = 0 /\ total' = 0 /\ returned' = <<>>
      /\ since' = {} /\ UNCHANGED <<endpoint, rows, parent>>
      /\ start' = Base'
  BY DEF Begin, Base
<1>2. TypeOK'
  <2>1. Len(returned') = 0 /\ returned' \in Seq(Ids) /\ start' \subseteq Ids
    BY <1>1 DEF Base
  <2>2. query'.limit \in Nat
    BY <1>1, LimitIs DEF IInv, TypeOK
  <2>3. page' * query'.limit = 0
    BY <1>1, <2>2
  <2>4. 0 \in 0..Cardinality(Ids)
    BY IdsAssumption, FS_CardinalityType
  <2> QED
    BY <1>1, <2>1, <2>3, <2>4 DEF IInv, TypeOK
<1>3. Passed' = 0
  <2>1. query'.limit \in Nat \ {0}
    BY <1>1, LimitIs DEF IInv, TypeOK
  <2>2. Passed' = Offset(page' + 1, query'.limit)
    BY <1>1 DEF Passed
  <2> QED
    BY <1>1, <2>1, <2>2, Offsets
<1>4. ReturnedIds' = {} /\ ReturnedOnce' /\ Len(returned') = 0
  BY <1>1 DEF ReturnedIds, ReturnedOnce
<1>5. PageInv'
  BY <1>1, <1>3, <1>4 DEF PageInv
<1>6. StampsApart'
  BY <1>1 DEF IInv, StampsApart
<1>7. CountInv' /\ SinceInv'
  BY <1>1, <1>4 DEF CountInv, Counted, SinceInv
<1>8. StillToCome'
  <2>1. \A i : Ahead(i, 0)'
    BY NobodyAhead DEF Ahead
  <2> QED
    BY <1>1, <1>3, <2>1 DEF StillToCome
<1>9. LeftBehind'
  BY <1>1, <1>4 DEF LeftBehind
<1> QED
  BY <1>2, <1>5, <1>6, <1>7, <1>8, <1>9 DEF IInv

(* Asking for a page moves no row. *)
LEMMA AskKeeps ==
  ASSUME IInv, Ask
  PROVE  IInv'
<1>1. /\ pc = "idle" /\ page' = page + 1 /\ pc' \in {"require", "count"}
      /\ UNCHANGED <<endpoint, rows, parent, query, total, returned, start, since>>
  BY DEF Ask
<1>2. page \in Nat /\ query.limit \in Nat \ {0}
  BY LimitIs DEF IInv, TypeOK
<1>3. /\ Passed = page * query.limit /\ Passed' = Passed
      /\ Len(returned) <= page * query.limit
      /\ (page + 1) * query.limit = page * query.limit + query.limit
      /\ page * query.limit \in Nat
  <2>1. Passed = Offset(page + 1, query.limit) /\ Passed' = Offset(page + 1, query.limit)
    BY <1>1 DEF Passed
  <2>2. /\ Offset(page + 1, query.limit) = page * query.limit
        /\ Offset(page + 1, query.limit) \in Nat
    BY <1>2, Offsets
  <2>3. (page + 1) * query.limit = page * query.limit + query.limit
    BY <1>2
  <2> QED
    BY <2>1, <2>2, <2>3 DEF IInv, TypeOK
<1>4. TypeOK'
  <2>1. Len(returned') <= page' * query'.limit
    BY <1>1, <1>2, <1>3 DEF IInv, TypeOK
  <2> QED
    BY <1>1, <1>2, <2>1 DEF IInv, TypeOK
<1>5. PageInv'
  BY <1>1, <1>2, <1>3 DEF PageInv, IInv
<1>6. SameList
  BY <1>1 DEF SameList
<1>7. CountInv'
  BY <1>1 DEF CountInv, Counted
<1>8. SinceInv' /\ ReturnedIds' = ReturnedIds /\ (ReturnedOnce' <=> ReturnedOnce)
  BY <1>1, <1>6, ListStays DEF IInv, SinceInv, ReturnedIds, ReturnedOnce
<1>9. StillToCome'
  BY <1>1, <1>3, <1>6, <1>8, ListStays DEF IInv, StillToCome, OnlyGrows
<1>10. LeftBehind'
  BY <1>1, <1>3, <1>6, <1>8, ListStays DEF IInv, LeftBehind, OnlyShrinks
<1> QED
  BY <1>4, <1>5, <1>6, <1>7, <1>8, <1>9, <1>10, ListStays DEF IInv

(* Neither does the load of the parent; a 404 ends the walk. *)
LEMMA RequireKeeps ==
  ASSUME IInv, Require
  PROVE  IInv'
<1>1. /\ pc = "require" /\ pc' = IF parent THEN "count" ELSE "ended"
      /\ UNCHANGED <<endpoint, rows, parent, query, page, total, returned, start, since>>
  BY DEF Require
<1>2. SameList /\ Passed' = Passed
  BY <1>1 DEF SameList, Passed
<1>3. TypeOK' /\ PageInv' /\ CountInv'
  BY <1>1, <1>2 DEF IInv, TypeOK, PageInv, CountInv, Counted
<1>4. SinceInv' /\ ReturnedIds' = ReturnedIds /\ (ReturnedOnce' <=> ReturnedOnce)
  BY <1>1, <1>2, ListStays DEF IInv, SinceInv, ReturnedIds, ReturnedOnce
<1>5. StillToCome'
  BY <1>1, <1>2, <1>4, ListStays DEF IInv, StillToCome, OnlyGrows
<1>6. LeftBehind'
  BY <1>1, <1>2, <1>4, ListStays DEF IInv, LeftBehind, OnlyShrinks
<1> QED
  BY <1>2, <1>3, <1>4, <1>5, <1>6, ListStays DEF IInv

(* COUNT starts the window between the two statements. *)
LEMMA CountKeeps ==
  ASSUME IInv, Count
  PROVE  IInv'
<1>1. /\ pc = "count" /\ pc' = "select" /\ total' = Cardinality(Base)
      /\ since' = since \ {"between"}
      /\ UNCHANGED <<endpoint, rows, parent, query, page, returned, start>>
  BY DEF Count, CountBase
<1>2. SameList /\ Passed' = Passed
  BY <1>1 DEF SameList, Passed
<1>3. TypeOK' /\ PageInv'
  BY <1>1, <1>2, BaseFinite DEF IInv, TypeOK, PageInv
<1>4. CountInv'
  BY <1>1, <1>2, ListStays DEF CountInv
<1>5. SinceInv' /\ ReturnedIds' = ReturnedIds /\ (ReturnedOnce' <=> ReturnedOnce)
  BY <1>1, <1>2, ListStays DEF IInv, SinceInv, ReturnedIds, ReturnedOnce
<1>6. (OnlyGrows' => OnlyGrows) /\ (OnlyShrinks' => OnlyShrinks)
  <2>1. since' \subseteq {"enter", "between"} => since \subseteq {"enter", "between"}
    BY <1>1
  <2>2. since' \subseteq {"leave", "between"} => since \subseteq {"leave", "between"}
    BY <1>1
  <2>3. since' = {} => since = {}
    BY <1>1 DEF IInv, SinceInv
  <2> QED
    BY <1>1, <1>2, <2>1, <2>2, <2>3, ListStays DEF OnlyGrows, OnlyShrinks
<1>7. StillToCome'
  BY <1>1, <1>2, <1>5, <1>6, ListStays DEF IInv, StillToCome
<1>8. LeftBehind'
  BY <1>1, <1>2, <1>5, <1>6, ListStays DEF IInv, LeftBehind
<1> QED
  BY <1>2, <1>3, <1>4, <1>5, <1>7, <1>8, ListStays DEF IInv

-----------------------------------------------------------------------------
(* A page holds the rows after those of the pages before it, up to its limit. *)
LEMMA SliceIs ==
  ASSUME NEW order \in Orders(Base), NEW p \in Nat, p >= 1, NEW limit \in Nat \ {0}
  PROVE  LET items == Slice(order, p, limit)
             n == Cardinality(Base)
             before == Offset(p, limit)
         IN /\ items \in Seq(Base)
            /\ Len(items) = IF n <= before THEN 0 ELSE IF before + limit <= n THEN limit ELSE n - before
            /\ \A a \in 1..Len(items) : before + a \in 1..n /\ items[a] = order[before + a]
            /\ \A k \in 1..n : (before < k /\ k <= before + limit) =>
                                 \E a \in 1..Len(items) : items[a] = order[k]
<1> DEFINE items == Slice(order, p, limit)
           n == Cardinality(Base)
           before == Offset(p, limit)
           last == IF before + limit <= n THEN before + limit ELSE n
<1>1. n \in Nat /\ before \in Nat
  BY BaseFinite, Offsets
<1>2. order \in Seq(Base) /\ Len(order) = n
  BY OrderOfBase
<1>3. items = SubSeq(order, before + 1, last)
  BY <1>2 DEF Slice
<1>4. order \in [1..n -> Base]
  BY <1>2
<1> HIDE DEF items, n, before
<1>5. /\ before + 1 \in Int /\ last \in Int /\ last <= n
      /\ \A k \in (before + 1)..last : order[k] \in Base
  BY <1>1, <1>4
<1> DEFINE first == before + 1
<1>6. /\ first \in Int /\ last \in Int
      /\ \A k \in first..last : order[k] \in Base
  BY <1>5
<1> HIDE DEF first, last
<1>7. /\ SubSeq(order, first, last) \in Seq(Base)
      /\ Len(SubSeq(order, first, last)) = IF first <= last THEN last - first + 1 ELSE 0
      /\ \A k \in 1..(last - first + 1) : SubSeq(order, first, last)[k] = order[first + k - 1]
  BY <1>6, SubSeqProperties
<1>8. items = SubSeq(order, first, last)
  BY <1>3 DEF first
<1>9. items \in Seq(Base) /\ Len(items) = IF first <= last THEN last - first + 1 ELSE 0
  BY <1>7, <1>8
<1>10. Len(items) = IF n <= before THEN 0 ELSE IF before + limit <= n THEN limit ELSE n - before
  BY <1>1, <1>9 DEF first, last
<1>11. ASSUME NEW a \in 1..Len(items)
       PROVE  before + a \in 1..n /\ items[a] = order[before + a]
  <2>1. a \in 1..(last - first + 1) /\ first + a - 1 = before + a /\ before + a \in 1..n
    BY <1>1, <1>9, <1>11 DEF first, last
  <2> QED
    BY <1>7, <1>8, <2>1
<1>12. ASSUME NEW k \in 1..n, before < k, k <= before + limit
       PROVE  \E a \in 1..Len(items) : items[a] = order[k]
  <2>1. k - before \in 1..Len(items) /\ before + (k - before) = k
    BY <1>1, <1>10, <1>12
  <2> QED
    BY <1>11, <2>1
<1> QED
  BY <1>9, <1>10, <1>11, <1>12 DEF items, n, before

(* The page: the rows returned had exactly the rows of earlier pages ahead. *)
LEMMA SelectKeeps ==
  ASSUME IInv, Select
  PROVE  IInv'
<1> DEFINE n == Cardinality(Base)
           limit == query.limit
<1>1. PICK order \in Orders(Base) :
        LET items == Slice(order, page, query.limit)
        IN /\ returned' = returned \o items
           /\ pc' = IF items = <<>> THEN "ended" ELSE "idle"
  BY DEF Select
<1> DEFINE items == Slice(order, page, query.limit)
<1>2. /\ pc = "select" /\ returned' = returned \o items
      /\ pc' = IF items = <<>> THEN "ended" ELSE "idle"
      /\ UNCHANGED <<endpoint, rows, parent, query, page, total, start, since>>
  BY <1>1 DEF Select
<1>3. /\ n \in Nat /\ limit \in Nat \ {0} /\ page \in Nat /\ page >= 1
      /\ Passed \in Nat /\ Passed = Offset(page, limit)
      /\ Offset(page + 1, limit) = Passed + limit
      /\ Offset(page + 1, limit) = page * limit
  <2>1. n \in Nat
    BY BaseFinite
  <2>2. limit \in Nat \ {0}
    BY LimitIs DEF IInv, TypeOK
  <2>3. page \in Nat /\ page >= 1
    BY <1>2 DEF IInv, TypeOK, PageInv
  <2>4. Passed = Offset(page, limit)
    BY <1>2 DEF Passed
  <2> HIDE DEF n, limit
  <2> QED
    BY <2>1, <2>2, <2>3, <2>4, Offsets
<1>4. /\ items \in Seq(Base)
      /\ Len(items) = IF n <= Passed THEN 0 ELSE IF Passed + limit <= n THEN limit ELSE n - Passed
      /\ \A a \in 1..Len(items) : Passed + a \in 1..n /\ items[a] = order[Passed + a]
      /\ \A k \in 1..n : (Passed < k /\ k <= Passed + limit) =>
                           \E a \in 1..Len(items) : items[a] = order[k]
  <2>1. /\ items \in Seq(Base)
        /\ Len(items) = IF n <= Offset(page, limit) THEN 0
                        ELSE IF Offset(page, limit) + limit <= n THEN limit ELSE n - Offset(page, limit)
        /\ \A a \in 1..Len(items) : /\ Offset(page, limit) + a \in 1..n
                                    /\ items[a] = order[Offset(page, limit) + a]
        /\ \A k \in 1..n : (Offset(page, limit) < k /\ k <= Offset(page, limit) + limit) =>
                             \E a \in 1..Len(items) : items[a] = order[k]
    <3>1. limit \in Nat \ {0} /\ page \in Nat /\ page >= 1
      BY <1>3
    <3> QED
      BY <3>1, SliceIs
  <2> HIDE DEF items, n, limit
  <2> QED
    BY <1>3, <2>1
<1>5. \A i \in Base : \E k \in 1..n : order[k] = i
  BY OrderOfBase
<1>6. \A j, k \in 1..n : order[j] = order[k] => j = k
  BY OrderOfBase DEF Injection, IsInjective
<1>7. Strict => \A k \in 1..n, m \in Nat : Ahead(order[k], m) <=> m < k
  BY InPlace DEF IInv
<1>8. SameList
  BY <1>2 DEF SameList
<1> HIDE DEF n, limit, items
<1>9. Base \subseteq Ids /\ items \in Seq(Ids) /\ returned \in Seq(Ids)
  BY <1>4 DEF Base, IInv, TypeOK
<1>10. /\ returned' \in Seq(Ids) /\ Len(returned') = Len(returned) + Len(items)
       /\ \A j \in 1..Len(returned') : returned'[j] = IF j <= Len(returned) THEN returned[j]
                                                     ELSE items[j - Len(returned)]
  BY <1>2, <1>9, ConcatProperties
<1>11. /\ Len(items) \in Nat /\ Len(items) <= limit /\ (items = <<>> <=> n <= Passed)
       /\ Len(returned) \in Nat /\ Len(returned) <= Passed
  <2>1. Len(items) = 0 <=> items = <<>>
    BY <1>4
  <2> QED
    BY <1>2, <1>3, <1>4, <1>9, <2>1 DEF IInv, PageInv
<1>12. TypeOK' /\ PageInv'
  <2>1. Len(returned') <= Passed + limit /\ query'.limit = limit /\ page' = page
    BY <1>2, <1>3, <1>10, <1>11 DEF limit
  <2>2. Len(returned') <= page' * query'.limit
    BY <1>2, <1>3, <2>1
  <2>3. pc' \in {"idle", "ended"} /\ (pc' = "idle" => Passed' = Passed + limit)
    BY <1>2, <1>3 DEF Passed, limit
  <2> QED
    BY <1>2, <1>10, <2>1, <2>2, <2>3 DEF IInv, TypeOK, PageInv
<1>13. ReturnedIds' = ReturnedIds \cup {items[a] : a \in 1..Len(items)}
  <2>1. DOMAIN returned = 1..Len(returned) /\ DOMAIN returned' = 1..Len(returned')
    BY <1>9, <1>10
  <2>2. ASSUME NEW j \in 1..Len(returned')
        PROVE  returned'[j] \in ReturnedIds \cup {items[a] : a \in 1..Len(items)}
    <3>1. CASE j <= Len(returned)
      BY <1>10, <1>11, <2>1, <3>1 DEF ReturnedIds
    <3>2. CASE ~(j <= Len(returned))
      <4>1. j - Len(returned) \in 1..Len(items) /\ returned'[j] = items[j - Len(returned)]
        BY <1>10, <1>11, <3>2
      <4> QED
        BY <4>1
    <3> QED
      BY <3>1, <3>2
  <2>3. ASSUME NEW i \in ReturnedIds
        PROVE  \E j \in 1..Len(returned') : returned'[j] = i
    <3>1. PICK j \in 1..Len(returned) : returned[j] = i
      BY <2>1 DEF ReturnedIds
    <3>2. j \in 1..Len(returned') /\ returned'[j] = i
      BY <1>10, <1>11, <3>1
    <3> QED
      BY <3>2
  <2>4. ASSUME NEW a \in 1..Len(items)
        PROVE  \E j \in 1..Len(returned') : returned'[j] = items[a]
    <3>1. Len(returned) + a \in 1..Len(returned') /\ (Len(returned) + a) - Len(returned) = a
          /\ ~(Len(returned) + a <= Len(returned))
      BY <1>10, <1>11
    <3>2. returned'[Len(returned) + a] = items[a]
      BY <1>10, <3>1
    <3> QED
      BY <3>1, <3>2
  <2>5. ReturnedIds' = {returned'[j] : j \in 1..Len(returned')}
    BY <2>1 DEF ReturnedIds
  <2> QED
    BY <2>2, <2>3, <2>4, <2>5
<1>14. CountInv'
  <2>1. Counted' => since = {} /\ pc' = "idle"
    BY <1>2 DEF Counted
  <2>2. since = {} => total = Cardinality(Base)
    BY <1>2 DEF IInv, CountInv, Counted
  <2> QED
    BY <1>2, <1>8, <2>1, <2>2, ListStays DEF CountInv
<1>15. SinceInv'
  <2>1. \A a \in 1..Len(items) : items[a] \in Base
    BY <1>4
  <2> QED
    BY <1>2, <1>8, <1>13, <2>1, ListStays DEF IInv, SinceInv
<1>16. StillToCome'
  <2> SUFFICES ASSUME OnlyGrows'
               PROVE  /\ pc' # "ended" => \A i \in start' \ ReturnedIds' : Ahead(i, Passed)'
                      /\ pc' = "ended" => start' \subseteq ReturnedIds'
    BY DEF StillToCome
  <2>1. OnlyGrows
    BY <1>2, <1>8, ListStays DEF OnlyGrows
  <2>2. ASSUME NEW i \in start' \ ReturnedIds'
        PROVE  \E k \in 1..n : order[k] = i /\ Passed + limit < k
    <3>1. i \in start /\ i \notin ReturnedIds /\ \A a \in 1..Len(items) : items[a] # i
      BY <1>2, <1>13
    <3>2. Ahead(i, Passed)
      BY <1>2, <2>1, <3>1 DEF IInv, StillToCome
    <3>3. i \in Base
      BY <2>1, <3>1 DEF IInv, SinceInv, OnlyGrows
    <3>4. PICK k \in 1..n : order[k] = i
      BY <1>5, <3>3
    <3>5. Passed < k
      BY <1>3, <1>7, <2>1, <3>2, <3>4 DEF OnlyGrows
    <3>6. ~(k <= Passed + limit)
      BY <1>4, <3>1, <3>4, <3>5
    <3> QED
      BY <1>3, <3>4, <3>6
  <2>3. ASSUME pc' # "ended", NEW i \in start' \ ReturnedIds' PROVE Ahead(i, Passed)'
    <3>1. PICK k \in 1..n : order[k] = i /\ Passed + limit < k
      BY <2>2
    <3>2. Ahead(i, Passed + limit)
      BY <1>3, <1>7, <2>1, <3>1 DEF OnlyGrows
    <3>3. Passed' = Passed + limit
      BY <1>2, <1>3, <2>3 DEF Passed, limit
    <3> QED
      BY <1>8, <3>2, <3>3, ListStays DEF Ahead, SameList, Base, Before
  <2>4. ASSUME pc' = "ended" PROVE start' \subseteq ReturnedIds'
    <3>1. n <= Passed
      BY <1>2, <1>11, <2>4
    <3> QED
      BY <1>3, <2>2, <3>1
  <2> QED
    BY <2>3, <2>4
<1>17. LeftBehind'
  <2> SUFFICES ASSUME OnlyShrinks'
               PROVE  /\ ReturnedOnce'
                      /\ pc' # "ended" => \A i \in (ReturnedIds \cap Base)' : ~Ahead(i, Passed)'
    BY DEF LeftBehind
  <2>1. OnlyShrinks /\ Strict
    BY <1>2, <1>8, ListStays, ByStampIsStrict DEF OnlyShrinks, IInv
  <2>2. ReturnedOnce /\ \A i \in ReturnedIds \cap Base : ~Ahead(i, Passed)
    BY <1>2, <2>1 DEF IInv, LeftBehind
  <2>3. ASSUME NEW i \in ReturnedIds, NEW k \in 1..n, order[k] = i
        PROVE  k <= Passed
    <3>1. i \in Base
      BY <2>3, OrderOfBase DEF n, Injection
    <3>2. ~(Passed < k)
      BY <1>3, <1>7, <2>1, <2>2, <2>3, <3>1
    <3> QED
      BY <1>3, <3>2
  <2>4. ReturnedOnce'
    <3> SUFFICES ASSUME NEW j \in 1..Len(returned'), NEW k \in 1..Len(returned'), j < k
                 PROVE  returned'[j] # returned'[k]
      BY <1>10 DEF ReturnedOnce
    <3>1. DOMAIN returned = 1..Len(returned)
      BY <1>9
    <3>2. CASE k <= Len(returned)
      BY <1>10, <1>11, <2>2, <3>1, <3>2 DEF ReturnedOnce
    <3>3. CASE j <= Len(returned) /\ ~(k <= Len(returned))
      <4> DEFINE a == k - Len(returned)
      <4>1. a \in 1..Len(items) /\ returned'[k] = items[a]
        BY <1>10, <1>11, <3>3
      <4>2. returned'[j] \in ReturnedIds
        BY <1>10, <1>11, <3>1, <3>3 DEF ReturnedIds
      <4> HIDE DEF a
      <4>3. Passed + a \in 1..n /\ items[a] = order[Passed + a] /\ ~(Passed + a <= Passed)
        BY <1>3, <1>4, <4>1
      <4> QED
        BY <2>3, <4>1, <4>2, <4>3
    <3>4. CASE ~(j <= Len(returned))
      <4> DEFINE a == j - Len(returned)
                 b == k - Len(returned)
      <4>1. /\ a \in 1..Len(items) /\ returned'[j] = items[a]
            /\ b \in 1..Len(items) /\ returned'[k] = items[b] /\ a # b
        BY <1>10, <1>11, <3>4
      <4> HIDE DEF a, b
      <4>2. Passed + a \in 1..n /\ items[a] = order[Passed + a]
        BY <1>4, <4>1
      <4>3. Passed + b \in 1..n /\ items[b] = order[Passed + b]
        BY <1>4, <4>1
      <4>4. Passed + a # Passed + b
        BY <1>3, <4>1
      <4> QED
        BY <1>6, <4>1, <4>2, <4>3, <4>4
    <3> QED
      BY <1>11, <3>2, <3>3, <3>4
  <2>5. ASSUME pc' # "ended", NEW i \in (ReturnedIds \cap Base)'
        PROVE  ~Ahead(i, Passed)'
    <3>1. i \in Base
      BY <1>8, ListStays
    <3>2. PICK k \in 1..n : order[k] = i
      BY <1>5, <3>1
    <3>3. k <= Passed + limit
      <4>1. CASE i \in ReturnedIds
        BY <1>3, <2>3, <3>2, <4>1
      <4>2. CASE i \notin ReturnedIds
        <5>1. PICK a \in 1..Len(items) : items[a] = i
          BY <1>13, <4>2
        <5>2. k = Passed + a
          BY <1>4, <1>6, <3>2, <5>1
        <5> QED
          BY <1>3, <1>11, <5>2
      <4> QED
        BY <4>1, <4>2
    <3>4. ~Ahead(i, Passed + limit)
      BY <1>3, <1>7, <2>1, <3>2, <3>3
    <3>5. Passed' = Passed + limit
      BY <1>2, <1>3, <2>5 DEF Passed, limit
    <3> QED
      BY <1>8, <3>4, <3>5, ListStays DEF Ahead, SameList, Base, Before
  <2> QED
    BY <2>4, <2>5
<1> QED
  BY <1>8, <1>12, <1>14, <1>15, <1>16, <1>17, ListStays DEF IInv

-----------------------------------------------------------------------------
(* The steps of others. *)
LEMMA CommitKeeps ==
  ASSUME IInv, NEW i \in Ids, NEW new \in Rows(endpoint), Insert(i, new) \/ Edit(i, new)
  PROVE  IInv'
<1>1. /\ rows' = [rows EXCEPT ![i] = new] /\ since' = since \cup Effect(i, new)
      /\ UNCHANGED <<endpoint, parent, query, pc, page, total, returned, start>>
  BY DEF Insert, Edit, Commit, client
<1>2. TypeOK
  BY DEF IInv
<1>3. /\ "between" \in Effect(i, new) <=>
           ("enter" \in Effect(i, new) \/ "leave" \in Effect(i, new))
      /\ "leave" \notin Effect(i, new) => Base \subseteq Base'
      /\ "enter" \notin Effect(i, new) => Base' \subseteq Base
      /\ "move" \notin Effect(i, new) =>
           \A j, k \in Base \cap Base' : Before(j, k)' <=> Before(j, k)
      /\ endpoint \in ByCreatedAt => "move" \notin Effect(i, new)
  BY <1>2, CommitMoves
<1>4. Effect(i, new) \subseteq {"enter", "leave", "move", "between"}
  BY DEF Effect
<1>5. /\ Passed' = Passed /\ ReturnedIds' = ReturnedIds
      /\ ReturnedOnce' <=> ReturnedOnce
  BY <1>1 DEF Passed, ReturnedIds, ReturnedOnce
<1>6. TypeOK' /\ PageInv'
  BY <1>1, <1>2, <1>4, <1>5 DEF TypeOK, IInv, PageInv
<1>7. StampsApart'
  <2> SUFFICES ASSUME endpoint \in ByCreatedAt, NEW j \in Ids, NEW k \in Ids, j # k,
                      rows'[j] # None, rows'[k] # None
               PROVE  rows'[j].created # rows'[k].created
    BY <1>1 DEF StampsApart
  <2>1. rows'[i] = new /\ \A l \in Ids : l # i => rows'[l] = rows[l]
    BY <1>1, <1>2 DEF TypeOK
  <2>2. \A l \in Ids : (l # i /\ rows[l] # None) => rows[l].created # new.created
    <3>1. CASE Insert(i, new)
      BY <3>1 DEF Insert
    <3>2. CASE Edit(i, new)
      <4>1. endpoint \in {"products", "stores"}
        BY <3>2 DEF Edit, ByCreatedAt
      <4>2. rows[i] # None /\ new.created = rows[i].created
        BY <3>2, <4>1 DEF Edit
      <4> QED
        BY <4>2 DEF IInv, StampsApart
    <3> QED
      BY <3>1, <3>2
  <2>3. CASE j = i \/ k = i
    BY <2>1, <2>2, <2>3
  <2>4. CASE j # i /\ k # i
    BY <2>1, <2>4 DEF IInv, StampsApart
  <2> QED
    BY <2>3, <2>4
<1>8. CountInv'
  <2>1. Counted' => Counted /\ "between" \notin Effect(i, new)
    BY <1>1, <1>3 DEF Counted
  <2>2. "between" \notin Effect(i, new) => Base' = Base
    BY <1>3
  <2> QED
    BY <1>1, <2>1, <2>2 DEF IInv, CountInv
<1>9. SinceInv'
  BY <1>1, <1>3, <1>5 DEF IInv, SinceInv
<1>10. StillToCome'
  <2> SUFFICES ASSUME OnlyGrows'
               PROVE  /\ pc # "ended" => \A j \in start \ ReturnedIds : Ahead(j, Passed)'
                      /\ pc = "ended" /\ parent /\ page >= 1 => start \subseteq ReturnedIds
    BY <1>1, <1>5 DEF StillToCome
  <2>1. since \cup Effect(i, new) \subseteq {"enter", "between"}
    BY <1>1 DEF OnlyGrows
  <2>2. Base \subseteq Base' /\ \A j, k \in Base : Before(j, k)' <=> Before(j, k)
    BY <1>3, <2>1
  <2>3. OnlyGrows
    BY <2>1, <2>2 DEF OnlyGrows, Strict
  <2>4. ASSUME pc # "ended", NEW j \in start \ ReturnedIds
        PROVE  Ahead(j, Passed)'
    <3>1. j \in Base /\ Ahead(j, Passed) /\ Passed \in Nat
      BY <1>2, <2>1, <2>3, <2>4, PassedIs DEF IInv, SinceInv, StillToCome
    <3>2. \A n \in Nat : Ahead(j, n) => Ahead(j, n)'
      BY <2>2, <3>1, AheadStays
    <3> QED
      BY <1>5, <3>1, <3>2 DEF Ahead
  <2> QED
    BY <2>3, <2>4 DEF IInv, StillToCome
<1>11. LeftBehind'
  <2> SUFFICES ASSUME OnlyShrinks'
               PROVE  /\ ReturnedOnce
                      /\ pc # "ended" => \A j \in ReturnedIds \cap Base' : ~Ahead(j, Passed)'
    BY <1>1, <1>5 DEF LeftBehind
  <2>1. "enter" \notin Effect(i, new) /\ "move" \notin Effect(i, new)
    BY <1>1, <1>3 DEF OnlyShrinks
  <2>2. Base' \subseteq Base /\ \A j, k \in Base' : Before(j, k)' <=> Before(j, k)
    BY <1>3, <2>1
  <2>3. OnlyShrinks
    <3>1. CASE endpoint \in ByCreatedAt /\ since' \subseteq {"leave", "between"}
      BY <1>1, <3>1 DEF OnlyShrinks
    <3>2. CASE since' = {} /\ Strict'
      <4>1. since = {} /\ Base' = Base
        BY <1>1, <1>3, <3>2
      <4> QED
        BY <2>2, <3>2, <4>1 DEF OnlyShrinks, Strict
    <3> QED
      BY <1>1, <3>1, <3>2 DEF OnlyShrinks
  <2>4. ASSUME pc # "ended", NEW j \in ReturnedIds \cap Base'
        PROVE  ~Ahead(j, Passed)'
    <3>1. j \in Base /\ Passed \in Nat /\ ~Ahead(j, Passed)
      BY <1>2, <2>2, <2>3, <2>4, PassedIs DEF IInv, LeftBehind
    <3>2. \A n \in Nat : Ahead(j, n)' => Ahead(j, n)
      BY <2>2, <2>4, NoMoreAhead
    <3> QED
      BY <1>5, <3>1, <3>2 DEF Ahead
  <2> QED
    BY <2>3, <2>4 DEF IInv, LeftBehind
<1> QED
  BY <1>6, <1>7, <1>8, <1>9, <1>10, <1>11 DEF IInv

(* A retired parent and idle steps. *)
LEMMA OthersKeep ==
  ASSUME IInv, RetireParent \/ UNCHANGED vars
  PROVE  IInv'
<1>1. /\ parent' \in BOOLEAN /\ (parent' => parent)
      /\ UNCHANGED <<endpoint, rows, query, pc, page, total, returned, start, since>>
  <2>1. parent \in BOOLEAN
    BY DEF IInv, TypeOK
  <2>2. CASE RetireParent
    BY <2>2 DEF RetireParent, client
  <2>3. CASE UNCHANGED vars
    BY <2>1, <2>3 DEF vars, client
  <2> QED
    BY <2>2, <2>3
<1>2. SameList /\ Passed' = Passed /\ ReturnedIds' = ReturnedIds /\ (ReturnedOnce' <=> ReturnedOnce)
  BY <1>1 DEF SameList, Passed, ReturnedIds, ReturnedOnce
<1>3. TypeOK' /\ PageInv'
  BY <1>1, <1>2 DEF IInv, TypeOK, PageInv
<1>4. CountInv' /\ SinceInv'
  BY <1>1, <1>2, ListStays DEF IInv, CountInv, Counted, SinceInv
<1>5. StillToCome'
  BY <1>1, <1>2, ListStays DEF IInv, StillToCome, OnlyGrows
<1>6. LeftBehind'
  BY <1>1, <1>2, ListStays DEF IInv, LeftBehind, OnlyShrinks
<1> QED
  BY <1>2, <1>3, <1>4, <1>5, <1>6, ListStays DEF IInv

(* Every step of a walk, and every write and removal meanwhile, keeps IInv. *)
THEOREM IInvInductive == IInv /\ [Next]_vars => IInv'
<1> SUFFICES ASSUME IInv, [Next]_vars PROVE IInv'
  OBVIOUS
<1>1. ASSUME NEW qs \in Queries(endpoint), Begin(qs) PROVE IInv'
  BY <1>1, BeginKeeps
<1>2. CASE Ask
  BY <1>2, AskKeeps
<1>3. CASE Require
  BY <1>3, RequireKeeps
<1>4. CASE Count
  BY <1>4, CountKeeps
<1>5. CASE Select
  BY <1>5, SelectKeeps
<1>6. ASSUME NEW i \in Ids, NEW new \in Rows(endpoint), Insert(i, new) \/ Edit(i, new)
      PROVE  IInv'
  BY <1>6, CommitKeeps
<1>7. CASE RetireParent \/ UNCHANGED vars
  BY <1>7, OthersKeep
<1> QED
  BY <1>1, <1>2, <1>3, <1>4, <1>5, <1>6, <1>7 DEF Next

(* IInv holds always. *)
LEMMA InvariantHolds == Spec => []IInv
<1> QED
  BY InitInv, IInvInductive, PTL DEF Spec

-----------------------------------------------------------------------------
(* Pages are no longer than their limit, and every value is of its kind. *)
THEOREM TypeCorrect == Spec => []TypeOK
<1>1. IInv => TypeOK
  BY DEF IInv
<1> QED
  BY <1>1, InvariantHolds, PTL

(* A walk over rows that nobody touches, in an order without ties, returns every
   row once, however many rows and pages there are. *)
THEOREM StrictWalksAreExact == Spec => []StrictWalkExact
<1>1. IInv => StrictWalkExact
  <2> SUFFICES ASSUME IInv, QuietWalkEnds, Strict
               PROVE  ReturnedOnce /\ ReturnedIds = start
    BY DEF StrictWalkExact
  <2>1. /\ pc = "idle" /\ since = {} /\ page >= 1 /\ page >= TotalPages(total, query.limit)
        /\ total = Cardinality(Base)
    BY DEF QuietWalkEnds, IInv, CountInv, Counted
  <2>2. ReturnedOnce /\ ReturnedIds \subseteq start /\ start \subseteq Base
    BY <2>1 DEF IInv, LeftBehind, OnlyShrinks, SinceInv
  <2> DEFINE limit == query.limit
  <2>3. /\ Passed = page * limit /\ Passed \in Nat /\ limit \in Nat \ {0}
        /\ page \in Nat /\ total \in Nat
    <3>1. limit \in Nat \ {0} /\ page \in Nat
      BY LimitIs DEF IInv, TypeOK
    <3>2. Passed = Offset(page + 1, limit)
      BY <2>1 DEF Passed
    <3>3. total \in Nat
      BY <2>1, BaseFinite
    <3> HIDE DEF limit
    <3> QED
      BY <3>1, <3>2, <3>3, Offsets
  <2>4. total <= Passed
    <3>1. page >= TotalPages(total, limit)
      BY <2>1
    <3> HIDE DEF limit
    <3>2. CASE total = 0
      BY <2>3, <3>2
    <3>3. CASE total # 0
      <4>1. page >= (total + limit - 1) \div limit
        BY <3>1, <3>3 DEF TotalPages
      <4>2. total <= page * limit
        BY <2>3, <4>1
      <4> QED
        BY <2>3, <4>2
    <3> QED
      BY <3>2, <3>3
  <2>5. ASSUME NEW i \in start \ ReturnedIds PROVE FALSE
    <3>1. Ahead(i, Passed)
      BY <2>1, <2>5 DEF IInv, StillToCome, OnlyGrows
    <3>2. i \in Base
      BY <2>2, <2>5
    <3>3. Passed < Cardinality(Base)
      BY <2>3, <3>1, <3>2, AheadBounded DEF IInv
    <3> QED
      BY <2>1, <2>3, <2>4, <3>3
  <2> QED
    BY <2>2, <2>5
<1> QED
  BY <1>1, InvariantHolds, PTL

(* However many rows come in during a walk, it misses none that it set out for. *)
THEOREM WalksLoseNothing == Spec => []WalkLosesNothing
<1>1. IInv => WalkLosesNothing
  BY DEF IInv, StillToCome, OnlyGrows, WalkLosesNothing
<1> QED
  BY <1>1, InvariantHolds, PTL

(* However many rows are soft-deleted during a walk, it repeats none. *)
THEOREM RemovalsRepeatNothing == Spec => []RemovalsNeverRepeat
<1>1. IInv => RemovalsNeverRepeat
  BY DEF IInv, LeftBehind, OnlyShrinks, RemovalsNeverRepeat
<1> QED
  BY <1>1, InvariantHolds, PTL

(* A page and the COUNT before it agree, for every list, filter, page and limit. *)
THEOREM PagesFill == Spec => PageFills
<1>1. ASSUME IInv, [Next]_vars, pc = "select", pc' # "select", "between" \notin since
      PROVE  LET left == total - Offset(page, query.limit)
                 room == IF left < query.limit THEN left ELSE query.limit
             IN Len(returned') - Len(returned) = IF room < 0 THEN 0 ELSE room
  <2> DEFINE n == Cardinality(Base)
             limit == query.limit
             before == Offset(page, limit)
  <2>1. Select
    BY <1>1 DEF Next, Begin, Ask, Require, Count, Insert, Edit, Commit, RetireParent, vars, client
  <2>2. PICK order \in Orders(Base) : returned' = returned \o Slice(order, page, limit)
    BY <2>1 DEF Select
  <2> DEFINE items == Slice(order, page, limit)
  <2>3. /\ page \in Nat /\ page >= 1 /\ limit \in Nat \ {0} /\ total = n /\ n \in Nat
        /\ returned \in Seq(Ids)
    BY <1>1, BaseFinite, LimitIs DEF IInv, TypeOK, PageInv, CountInv, Counted
  <2>4. items \in Seq(Base)
        /\ Len(items) = IF n <= before THEN 0 ELSE IF before + limit <= n THEN limit ELSE n - before
    <3> HIDE DEF limit
    <3> QED
      BY <2>3, SliceIs
  <2>5. before \in Nat
    <3> HIDE DEF limit
    <3> QED
      BY <2>3, Offsets
  <2>6. returned' = returned \o items
    BY <2>2
  <2> HIDE DEF items, n, before
  <2>7. items \in Seq(Ids)
    BY <2>4 DEF Base
  <2>8. Len(returned') = Len(returned) + Len(items)
    BY <2>3, <2>6, <2>7, ConcatProperties
  <2>9. Len(returned') - Len(returned) = Len(items)
    BY <2>3, <2>7, <2>8
  <2> HIDE DEF limit
  <2>10. LET left == total - before
             room == IF left < limit THEN left ELSE limit
         IN Len(returned') - Len(returned) = IF room < 0 THEN 0 ELSE room
    BY <2>3, <2>4, <2>5, <2>9
  <2> QED
    BY <2>10 DEF before, limit
<1>2. IInv /\ [Next]_vars =>
        [(pc = "select" /\ pc' # "select" /\ "between" \notin since) =>
           LET left == total - Offset(page, query.limit)
               room == IF left < query.limit THEN left ELSE query.limit
           IN Len(returned') - Len(returned) = IF room < 0 THEN 0 ELSE room]_vars
  BY <1>1
<1> QED
  BY <1>2, InvariantHolds, PTL DEF Spec, PageFills
=============================================================================
