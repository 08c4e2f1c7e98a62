-------------------------- MODULE StorefrontProofs --------------------------
(***************************************************************************)
(* Proofs about the reads of stock, for any stores, products, payloads and *)
(* quantities: guests learn nothing of stores that are not public, a batch *)
(* answer lists what was asked for, once and in order, and the two ways of *)
(* looking at a pair agree.                                                *)
(***************************************************************************)
EXTENDS Storefront, TLAPS, WellFoundedInduction

-----------------------------------------------------------------------------
(* Induction over a list is by a least counterexample. *)
LEMMA LeastMember ==
  ASSUME NEW T \in SUBSET Nat, T # {}
  PROVE  \E m \in T : \A k \in T : m <= k
<1> DEFINE Less == {ss \in Nat \X Nat : ss[1] < ss[2]}
<1>1. IsWellFoundedOn(Less, Nat)
  BY NatLessThanWellFounded, Zenon DEF OpToRel
<1> HIDE DEF Less
<1>2. PICK m \in T : \A k \in T : <<k, m>> \notin Less
  BY <1>1, WFMin
<1>3. \A k \in T : ~(k < m)
  BY <1>2 DEF Less
<1> QED
  BY <1>3

(* Place k of a payload names a product for the first time. *)
IsFirst(ids, k) == \A j \in 1..(k - 1) : ids[j] # ids[k]

(* One turn of the loop over `seen` and `unique_ids`. *)
Turn(ids, found, k) == IF IsFirst(ids, k) THEN Append(found, ids[k]) ELSE found

(* found lists the products of the first n places once each, in order. *)
Lists(ids, n, found) ==
  /\ \A a \in DOMAIN found : \E j \in 1..n : IsFirst(ids, j) /\ ids[j] = found[a]
  /\ \A j \in 1..n : \E a \in DOMAIN found : found[a] = ids[j]
  /\ \A a, b \in DOMAIN found : a < b =>
       \A i, j \in 1..n : (/\ IsFirst(ids, i) /\ ids[i] = found[a]
                           /\ IsFirst(ids, j) /\ ids[j] = found[b]) => i < j

(* Two listed products come in the order of their first places. *)
LEMMA ListsInOrder ==
  ASSUME NEW ids, NEW n, NEW found, Lists(ids, n, found),
         NEW a \in DOMAIN found, NEW b \in DOMAIN found, a < b,
         NEW i \in 1..n, IsFirst(ids, i), ids[i] = found[a],
         NEW j \in 1..n, IsFirst(ids, j), ids[j] = found[b]
  PROVE  i < j
  BY DEF Lists

(* A turn takes the next place into account. *)
LEMMA TurnLists ==
  ASSUME NEW S, NEW ids \in Seq(S), NEW n \in Nat, n + 1 <= Len(ids),
         NEW found \in Seq(S), Lists(ids, n, found)
  PROVE  /\ Turn(ids, found, n + 1) \in Seq(S)
         /\ Lists(ids, n + 1, Turn(ids, found, n + 1))
<1> DEFINE p == ids[n + 1]
           more == Append(found, p)
<1>1. n + 1 \in 1..Len(ids) /\ p \in S /\ 1..(n + 1) = (1..n) \cup {n + 1}
  OBVIOUS
<1>2. CASE IsFirst(ids, n + 1)
  <2>1. /\ more \in Seq(S) /\ Len(found) \in Nat
        /\ DOMAIN found = 1..Len(found) /\ DOMAIN more = 1..(Len(found) + 1)
        /\ more[Len(found) + 1] = p
        /\ \A a \in 1..Len(found) : more[a] = found[a]
    BY <1>1
  <2>2. \A a \in DOMAIN found : found[a] # p
    <3> SUFFICES ASSUME NEW a \in DOMAIN found, found[a] = p PROVE FALSE
      OBVIOUS
    <3>1. PICK j \in 1..n : ids[j] = p
      BY DEF Lists
    <3> QED
      BY <1>2, <3>1 DEF IsFirst
  <2>3. \A a \in DOMAIN more : \E j \in 1..(n + 1) : IsFirst(ids, j) /\ ids[j] = more[a]
    <3> SUFFICES ASSUME NEW a \in DOMAIN more
        PROVE \E j \in 1..(n + 1) : IsFirst(ids, j) /\ ids[j] = more[a]
      OBVIOUS
    <3>1. CASE a = Len(found) + 1
      BY <1>1, <1>2, <2>1, <3>1
    <3>2. CASE a # Len(found) + 1
      <4>1. a \in DOMAIN found /\ more[a] = found[a]
        BY <2>1, <3>2
      <4> QED
        BY <1>1, <4>1 DEF Lists
    <3> QED
      BY <3>1, <3>2
  <2>4. \A j \in 1..(n + 1) : \E a \in DOMAIN more : more[a] = ids[j]
    <3> SUFFICES ASSUME NEW j \in 1..(n + 1) PROVE \E a \in DOMAIN more : more[a] = ids[j]
      OBVIOUS
    <3>1. CASE j = n + 1
      BY <2>1, <3>1
    <3>2. CASE j # n + 1
      <4>1. PICK a \in DOMAIN found : found[a] = ids[j]
        BY <1>1, <3>2 DEF Lists
      <4> QED
        BY <2>1, <4>1
    <3> QED
      BY <3>1, <3>2
  <2>5. ASSUME NEW a \in DOMAIN more, NEW b \in DOMAIN more, a < b,
               NEW i \in 1..(n + 1), NEW j \in 1..(n + 1),
               IsFirst(ids, i), ids[i] = more[a], IsFirst(ids, j), ids[j] = more[b]
        PROVE  i < j
    <3>1. a \in DOMAIN found /\ ids[i] = found[a] /\ i \in 1..n
      BY <1>1, <2>1, <2>2, <2>5
    <3>2. CASE b = Len(found) + 1
      <4>1. ids[j] = p
        BY <2>1, <2>5, <3>2
      <4>2. j \notin 1..n
        BY <1>2, <4>1 DEF IsFirst
      <4> QED
        BY <1>1, <3>1, <4>2
    <3>3. CASE b # Len(found) + 1
      <4>1. b \in DOMAIN found /\ ids[j] = found[b] /\ j \in 1..n
        BY <1>1, <2>1, <2>2, <2>5, <3>3
      <4> QED
        BY <2>5, <3>1, <4>1 DEF Lists
    <3> QED
      BY <3>2, <3>3
  <2> HIDE DEF more
  <2>6. Lists(ids, n + 1, more)
    BY <2>3, <2>4, <2>5 DEF Lists
  <2> QED
    BY <1>2, <2>1, <2>6 DEF Turn, more
<1>3. CASE ~IsFirst(ids, n + 1)
  <2>1. PICK i \in 1..n : ids[i] = p
    BY <1>3 DEF IsFirst
  <2>2. \E a \in DOMAIN found : found[a] = p
    BY <2>1 DEF Lists
  <2> QED
    BY <1>1, <1>3, <2>2 DEF Lists, Turn
<1> QED
  BY <1>2, <1>3

(* The loop returns a list of the places it has seen, whatever their number. *)
LEMMA UniqueIdsLists ==
  ASSUME NEW S, NEW ids \in Seq(S)
  PROVE  UniqueIds(ids) \in Seq(S) /\ Lists(ids, Len(ids), UniqueIds(ids))
<1> DEFINE Loop(g, n) == [k \in 0..n |-> IF k = 0 THEN <<>>
                                         ELSE IF \E j \in 1..(k - 1) : ids[j] = ids[k] THEN g[k - 1]
                                         ELSE Append(g[k - 1], ids[k])]
           next == CHOOSE g : g = Loop(g, Len(ids))
<1>1. UniqueIds(ids) = next[Len(ids)]
  BY DEF UniqueIds
<1>2. ASSUME NEW g, NEW n \in Nat
      PROVE  /\ Loop(g, n)[0] = <<>>
             /\ \A k \in 1..n : Loop(g, n)[k] = Turn(ids, g[k - 1], k)
  <2>1. 0 \in 0..n /\ \A k \in 1..n : k \in 0..n /\ k # 0
    OBVIOUS
  <2> QED
    BY <2>1 DEF Turn, IsFirst
<1>3. \A n \in Nat : \E g : g = Loop(g, n)
  <2> DEFINE T == {n \in Nat : ~ \E g : g = Loop(g, n)}
  <2> SUFFICES ASSUME T # {} PROVE FALSE
    OBVIOUS
  <2>1. PICK n \in T : \A m \in T : n <= m
    <3>1. T \in SUBSET Nat
      OBVIOUS
    <3> HIDE DEF T
    <3> QED
      BY <3>1, LeastMember
  <2>2. n # 0
    <3> DEFINE h == [k \in 0..0 |-> <<>>]
    <3>1. \A k \in 0..0 : h[k] = Loop(h, 0)[k]
      OBVIOUS
    <3>2. h = [k \in 0..0 |-> h[k]] /\ Loop(h, 0) = [k \in 0..0 |-> Loop(h, 0)[k]]
      OBVIOUS
    <3>3. h = Loop(h, 0)
      <4> HIDE DEF h, Loop
      <4> QED
        BY <3>1, <3>2
    <3> HIDE DEF h, Loop
    <3> QED
      BY <2>1, <3>3
  <2>3. n \in Nat /\ n - 1 \in Nat
    BY <2>1, <2>2
  <2>4. PICK g : g = Loop(g, n - 1)
    <3>1. n - 1 \notin T
      <4> HIDE DEF T
      <4> QED
        BY <2>1, <2>3
    <3> HIDE DEF Loop
    <3> QED
      BY <2>3, <3>1
  <2> DEFINE h == [k \in 0..n |-> IF k = n THEN Turn(ids, g[n - 1], n) ELSE g[k]]
  <2>5. \A k \in 0..n : h[k] = Loop(h, n)[k]
    <3> SUFFICES ASSUME NEW k \in 0..n PROVE h[k] = Loop(h, n)[k]
      OBVIOUS
    <3>1. CASE k = 0
      <4>1. h[0] = g[0] /\ g[0] = <<>>
        BY <1>2, <2>2, <2>3, <2>4
      <4> HIDE DEF h, Loop
      <4> QED
        BY <1>2, <2>3, <3>1, <4>1
    <3>2. CASE k # 0
      <4>1. k \in 1..n /\ k - 1 \in 0..n /\ k - 1 # n
        BY <2>3, <3>2
      <4>2. h[k - 1] = g[k - 1]
        BY <4>1
      <4>3. h[k] = Turn(ids, g[k - 1], k)
        <5>1. CASE k = n
          BY <5>1
        <5>2. CASE k # n
          <6>1. k \in 1..(n - 1) /\ h[k] = g[k]
            BY <2>3, <4>1, <5>2
          <6> HIDE DEF h, Loop
          <6> QED
            BY <1>2, <2>3, <2>4, <6>1
        <5> QED
          BY <5>1, <5>2
      <4> HIDE DEF h, Loop
      <4> QED
        BY <1>2, <2>3, <4>1, <4>2, <4>3
    <3> QED
      BY <3>1, <3>2
  <2>6. DOMAIN h = 0..n /\ DOMAIN Loop(h, n) = 0..n
    OBVIOUS
  <2>7. h = Loop(h, n)
    <3>1. h = [k \in 0..n |-> h[k]] /\ Loop(h, n) = [k \in 0..n |-> Loop(h, n)[k]]
      OBVIOUS
    <3> HIDE DEF h, Loop
    <3> QED
      BY <2>5, <3>1
  <2> QED
    BY <2>1, <2>7
<1>4. Len(ids) \in Nat
  OBVIOUS
<1>5. next = Loop(next, Len(ids))
  <2> HIDE DEF Loop
  <2> QED
    BY <1>3, <1>4
<1> HIDE DEF next, Loop
<1>6. /\ next[0] = <<>>
      /\ \A k \in 1..Len(ids) : next[k] = Turn(ids, next[k - 1], k)
  BY <1>2, <1>4, <1>5
<1>7. \A n \in 0..Len(ids) : next[n] \in Seq(S) /\ Lists(ids, n, next[n])
  <2> DEFINE T == {n \in 0..Len(ids) : ~(next[n] \in Seq(S) /\ Lists(ids, n, next[n]))}
  <2> SUFFICES ASSUME T # {} PROVE FALSE
    OBVIOUS
  <2>1. PICK n \in T : \A m \in T : n <= m
    <3>1. T \in SUBSET Nat
      BY <1>4
    <3> HIDE DEF T
    <3> QED
      BY <3>1, LeastMember
  <2>2. Lists(ids, 0, <<>>)
    BY DEF Lists
  <2>3. n # 0
    <3>1. next[0] \in Seq(S) /\ Lists(ids, 0, next[0])
      BY <1>6, <2>2
    <3> QED
      BY <2>1, <3>1
  <2>4. n \in 1..Len(ids) /\ n - 1 \in Nat /\ n - 1 \in 0..Len(ids) /\ (n - 1) + 1 = n
    BY <1>4, <2>1, <2>3
  <2>5. next[n - 1] \in Seq(S) /\ Lists(ids, n - 1, next[n - 1])
    BY <2>1, <2>4
  <2>6. next[n] \in Seq(S) /\ Lists(ids, n, next[n])
    <3> HIDE DEF T
    <3>1. (n - 1) + 1 <= Len(ids)
      BY <1>4, <2>4
    <3>2. /\ Turn(ids, next[n - 1], (n - 1) + 1) \in Seq(S)
          /\ Lists(ids, (n - 1) + 1, Turn(ids, next[n - 1], (n - 1) + 1))
      BY <2>4, <2>5, <3>1, TurnLists
    <3> QED
      BY <1>6, <2>4, <3>2
  <2> QED
    BY <2>1, <2>6
<1>8. Len(ids) \in 0..Len(ids)
  BY <1>4
<1> QED
  BY <1>1, <1>7, <1>8

-----------------------------------------------------------------------------
(* The answer to request r covers what it asked for. *)
Covers(r) ==
  LET ids == UniqueIds(call[r].ids)
      entries == reply[r].entries
  IN DOMAIN entries = 1..Len(ids) /\ \A k \in 1..Len(ids) : entries[k].id = ids[k]

(* A request is answered once; a store that no guest could see when the request
   came is there, and no guest will see it. *)
Answering(r) ==
  /\ pc[r] # "idle" => call[r] \in Calls /\ reply[r] = None
  /\ closed[r] /\ Guest(call[r]) =>
       /\ pc[r] = "require" => stores[call[r].store] # None /\ ~Public(call[r].store)
       /\ pc[r] # "select"
  /\ reply[r] # None =>
       /\ call[r] \in Calls
       /\ Guest(call[r]) => reply[r] = NotFound \/ (reply[r].status = 200 /\ ~closed[r])
       /\ reply[r].status = 200 => Covers(r)

IInv == TypeOK /\ \A r \in Requests : Answering(r)

(* One request moves: what the others know of their stores stays true. *)
LEMMA OthersStay ==
  ASSUME IInv, NEW r \in Requests, stores' = stores, Answering(r)',
         \A q \in Requests \ {r} : /\ pc'[q] = pc[q] /\ call'[q] = call[q]
                                   /\ reply'[q] = reply[q] /\ closed'[q] = closed[q]
  PROVE  \A q \in Requests : Answering(q)'
<1> SUFFICES ASSUME NEW q \in Requests \ {r} PROVE Answering(q)'
  OBVIOUS
<1>1. Answering(q)
  BY DEF IInv
<1> QED
  BY <1>1 DEF Answering, Guest, Public, Active, Covers

(* An entry is of its kind, and a guest's holds no more than a bucket. *)
LEMMA EntryType ==
  ASSUME TypeOK, NEW c \in Calls, NEW p \in Products
  PROVE  /\ Entry(c, p) \in Entries
         /\ Entry(c, p).id = p
         /\ Guest(c) => DOMAIN Entry(c, p) = {"id", "bucket"}
<1>1. c.store \in Stores /\ <<c.store, p>> \in Stores \X Products
  BY DEF Calls
<1>2. inventory[<<c.store, p>>] \in StockRows \cup {None}
  BY <1>1 DEF TypeOK
<1>3. CASE Guest(c)
  <2>1. Entry(c, p) = GuestEntry(c.store, p)
    BY <1>3 DEF Entry
  <2>2. \A q, t : Coarsen(q, t) \in {"in_stock", "low_stock", "out_of_stock"}
    BY DEF Coarsen
  <2> QED
    BY <2>1, <2>2 DEF GuestEntry, Entries
<1>4. CASE ~Guest(c)
  <2>1. Entry(c, p) = StaffEntry(c.store, p)
    BY <1>4 DEF Entry
  <2> QED
    BY <1>2, <1>4, <2>1 DEF StaffEntry, Entries, StockRows
<1> QED
  BY <1>3, <1>4

(* What is asked for is a list of products, and so is the list without repetitions. *)
LEMMA AskedType ==
  ASSUME NEW c \in Calls
  PROVE  c.ids \in Seq(Products) /\ UniqueIds(c.ids) \in Seq(Products)
<1>1. c.ids \in Seq(Products)
  <2>1. c.ids \in Asks \/ \E p \in Products : c.ids = <<p>>
    BY DEF Calls
  <2>2. \A p \in Products : <<p>> \in Seq(Products)
    OBVIOUS
  <2> QED
    BY <2>1, <2>2, AsksAssumption
<1> QED
  BY <1>1, UniqueIdsLists

(* The entries of a select are of their kind, one for each product asked for. *)
LEMMA EntriesType ==
  ASSUME TypeOK, NEW c \in Calls, NEW ids \in Seq(Products)
  PROVE  /\ [k \in 1..Len(ids) |-> Entry(c, ids[k])] \in Seq(Entries)
         /\ \A k \in 1..Len(ids) :
              /\ Entry(c, ids[k]).id = ids[k]
              /\ Guest(c) => DOMAIN Entry(c, ids[k]) = {"id", "bucket"}
<1>1. Len(ids) \in Nat /\ \A k \in 1..Len(ids) : ids[k] \in Products
  OBVIOUS
<1>2. \A k \in 1..Len(ids) : Entry(c, ids[k]) \in Entries
  BY <1>1, EntryType
<1>3. [k \in 1..Len(ids) |-> Entry(c, ids[k])] \in Seq(Entries)
  BY <1>1, <1>2
<1> QED
  BY <1>1, <1>3, EntryType

(* Require refuses a guest whose store was or has been closed, and lets the others on. *)
LEMMA RequireKeeps ==
  ASSUME IInv, NEW r \in Requests, Require(r)
  PROVE  IInv'
<1> USE DEF IInv
<1>1. /\ pc[r] = "require" /\ call[r] \in Calls /\ Answering(r)
      /\ UNCHANGED <<stores, inventory, call, closed>>
  BY DEF Require, Goto, Respond, Answering
<1>2. CASE Goto(r, "select")
  <2>1. Guest(call[r]) => Public(call[r].store)
    BY <1>2 DEF Require, Goto, Respond, TypeOK
  <2>2. pc' = [pc EXCEPT ![r] = "select"] /\ reply' = reply
    BY <1>2 DEF Goto
  <2>3. Answering(r)'
    BY <1>1, <2>1, <2>2 DEF Answering, Guest, TypeOK
  <2>4. TypeOK'
    BY <1>1, <2>2 DEF TypeOK, Guest
  <2> QED
    BY <1>1, <2>2, <2>3, <2>4, OthersStay DEF TypeOK
<1>3. CASE Respond(r, NotFound)
  <2>1. pc' = [pc EXCEPT ![r] = "idle"] /\ reply' = [reply EXCEPT ![r] = NotFound]
    BY <1>3 DEF Respond
  <2>2. NotFound \in Replies /\ NotFound.status = 404 /\ NotFound.entries = <<>>
    BY DEF NotFound, Replies
  <2>3. Answering(r)'
    BY <1>1, <2>1, <2>2 DEF Answering, Guest, TypeOK
  <2>4. TypeOK'
    <3>1. /\ pc' \in [Requests -> {"idle", "require", "select"}]
          /\ reply' \in [Requests -> Replies \cup {None}]
      BY <2>1, <2>2 DEF TypeOK
    <3>2. ASSUME NEW q \in Requests, reply'[q] # None, Guest(call[q])
          PROVE  \A k \in DOMAIN reply'[q].entries : DOMAIN reply'[q].entries[k] = {"id", "bucket"}
      BY <2>1, <2>2, <3>2 DEF TypeOK
    <3> QED
      BY <1>1, <3>1, <3>2 DEF TypeOK, Guest
  <2> QED
    BY <1>1, <2>1, <2>3, <2>4, OthersStay DEF TypeOK
<1> QED
  BY <1>2, <1>3 DEF Require

(* Select answers a guest with what the store's stock comes to. *)
LEMMA SelectKeeps ==
  ASSUME IInv, NEW r \in Requests, Select(r)
  PROVE  IInv'
<1> DEFINE c == call[r]
           ids == UniqueIds(c.ids)
           entries == [k \in 1..Len(ids) |-> Entry(c, ids[k])]
           found == [status |-> 200, entries |-> entries]
<1> USE DEF IInv
<1>1. /\ pc[r] = "select" /\ c \in Calls /\ Answering(r)
      /\ UNCHANGED <<stores, inventory, call, closed>>
      /\ pc' = [pc EXCEPT ![r] = "idle"]
  BY DEF Select, Respond, Answering
<1>2. \/ reply' = [reply EXCEPT ![r] = NotFound] /\ c.op = "staff_single"
      \/ reply' = [reply EXCEPT ![r] = found]
  BY DEF Select, Respond
<1>3. ids \in Seq(Products)
  BY <1>1, AskedType
<1>4. /\ entries \in Seq(Entries)
      /\ DOMAIN entries = 1..Len(ids)
      /\ \A k \in 1..Len(ids) : entries[k].id = ids[k]
      /\ Guest(c) => \A k \in DOMAIN entries : DOMAIN entries[k] = {"id", "bucket"}
  <2>1. TypeOK /\ c \in Calls /\ ids \in Seq(Products)
    BY <1>1, <1>3
  <2> HIDE DEF c, ids, IInv
  <2> QED
    BY <2>1, EntriesType
<1> HIDE DEF entries
<1>5. found \in Replies /\ found.status = 200 /\ found.entries = entries
  BY <1>4 DEF Replies
<1>6. NotFound \in Replies /\ NotFound.status = 404 /\ NotFound.entries = <<>>
  BY DEF NotFound, Replies
<1> HIDE DEF found
<1>7. Guest(c) => ~closed[r]
  BY <1>1 DEF Answering
<1>8. Answering(r)'
  <2>1. pc'[r] = "idle" /\ call'[r] = c /\ closed'[r] = closed[r]
    BY <1>1 DEF TypeOK
  <2>2. CASE reply'[r] = NotFound
    BY <1>1, <1>6, <2>1, <2>2 DEF Answering, Guest
  <2>3. CASE reply'[r] = found
    <3>1. Covers(r)'
      BY <1>4, <1>5, <2>1, <2>3 DEF Covers
    <3> QED
      BY <1>1, <1>5, <1>7, <2>1, <2>3, <3>1 DEF Answering, Guest
  <2> QED
    BY <1>2, <2>2, <2>3 DEF TypeOK
<1>9. TypeOK'
  <2>1. /\ pc' \in [Requests -> {"idle", "require", "select"}]
        /\ reply' \in [Requests -> Replies \cup {None}]
    BY <1>1, <1>2, <1>5, <1>6 DEF TypeOK
  <2>2. ASSUME NEW q \in Requests, reply'[q] # None, Guest(call[q])
        PROVE  \A k \in DOMAIN reply'[q].entries : DOMAIN reply'[q].entries[k] = {"id", "bucket"}
    <3>1. CASE q # r
      BY <1>2, <2>2, <3>1 DEF TypeOK
    <3>2. CASE q = r
      <4>1. reply'[r] = NotFound \/ reply'[r] = found
        BY <1>2 DEF TypeOK
      <4>2. reply'[r].entries = <<>> \/ reply'[r].entries = entries
        BY <1>5, <1>6, <4>1
      <4> QED
        BY <1>4, <2>2, <3>2, <4>2
    <3> QED
      BY <3>1, <3>2
  <2> QED
    BY <1>1, <2>1, <2>2 DEF TypeOK, Guest
<1>10. \A q \in Requests \ {r} : /\ pc'[q] = pc[q] /\ call'[q] = call[q]
                                /\ reply'[q] = reply[q] /\ closed'[q] = closed[q]
  BY <1>1, <1>2 DEF TypeOK
<1> QED
  BY <1>1, <1>8, <1>9, <1>10, OthersStay

(* A request that comes is noted with what guests can see of its store. *)
LEMMA ReceiveKeeps ==
  ASSUME IInv, NEW r \in Requests, NEW c \in Calls, Receive(r, c)
  PROVE  IInv'
<1> USE DEF IInv
<1>1. /\ call' = [call EXCEPT ![r] = c] /\ reply' = [reply EXCEPT ![r] = None]
      /\ pc' = [pc EXCEPT ![r] = IF c.op = "staff_single" THEN "select" ELSE "require"]
      /\ closed' = [closed EXCEPT ![r] = stores[c.store] # None /\
                      (stores[c.store].is_active => stores[c.store].kind # "ONLINE")]
      /\ UNCHANGED <<stores, inventory>>
  BY DEF Receive
<1>2. Answering(r)'
  <2>1. call'[r] = c /\ reply'[r] = None /\ (Guest(c) => pc'[r] = "require") /\ pc'[r] # "idle"
    BY <1>1 DEF TypeOK, Guest
  <2>2. closed'[r] => stores[c.store] # None /\ ~Public(c.store)
    BY <1>1 DEF TypeOK, Public, Active
  <2> QED
    BY <1>1, <2>1, <2>2 DEF Answering, Guest, Public, Active
<1>3. TypeOK'
  <2>1. closed' \in [Requests -> BOOLEAN]
    <3>1. (stores[c.store] # None /\
             (stores[c.store].is_active => stores[c.store].kind # "ONLINE")) \in BOOLEAN
      OBVIOUS
    <3> QED
      BY <1>1, <3>1 DEF TypeOK
  <2>2. /\ pc' \in [Requests -> {"idle", "require", "select"}]
        /\ call' \in [Requests -> Calls \cup {None}]
        /\ reply' \in [Requests -> Replies \cup {None}]
    BY <1>1 DEF TypeOK
  <2>3. ASSUME NEW q \in Requests, reply'[q] # None, Guest(call'[q])
        PROVE  \A k \in DOMAIN reply'[q].entries : DOMAIN reply'[q].entries[k] = {"id", "bucket"}
    <3>1. q # r /\ reply'[q] = reply[q] /\ call'[q] = call[q]
      BY <1>1, <2>3 DEF TypeOK
    <3> QED
      BY <2>3, <3>1 DEF TypeOK
  <2> QED
    BY <1>1, <2>1, <2>2, <2>3 DEF TypeOK, Guest
<1>4. \A q \in Requests \ {r} : /\ pc'[q] = pc[q] /\ call'[q] = call[q]
                               /\ reply'[q] = reply[q] /\ closed'[q] = closed[q]
  BY <1>1 DEF TypeOK
<1> QED
  BY <1>1, <1>2, <1>3, <1>4, OthersStay

(* No commit of a writer lets a guest see a store that no guest could see: there
   is no way back to is_active, and none from another kind. *)
LEMMA WritersKeep ==
  ASSUME IInv, UNCHANGED <<pc, call, reply, closed>>,
         stores' \in [Stores -> StoreRows \cup {None}],
         inventory' \in [Stores \X Products -> StockRows \cup {None}],
         \A s \in Stores : stores[s] # None => /\ stores'[s] # None
                                               /\ Public(s)' => Public(s)
  PROVE  IInv'
<1>1. TypeOK'
  BY DEF IInv, TypeOK, Guest
<1>2. ASSUME NEW r \in Requests PROVE Answering(r)'
  <2>1. Answering(r) /\ (call[r] \in Calls => call[r].store \in Stores)
    BY DEF IInv, Calls
  <2>2. Covers(r)' = Covers(r)
    BY DEF Covers
  <2> QED
    BY <2>1, <2>2 DEF Answering, Guest, Public, Active
<1> QED
  BY <1>1, <1>2 DEF IInv

(* Every read and every write keeps the invariant: one step per action of Next. *)
THEOREM IInvInductive == IInv /\ [Next]_vars => IInv'
<1> SUFFICES ASSUME IInv, [Next]_vars PROVE IInv'
  OBVIOUS
<1>1. ASSUME NEW r \in Requests, NEW c \in Calls, Receive(r, c) PROVE IInv'
  BY <1>1, ReceiveKeeps
<1>2. ASSUME NEW r \in Requests, Require(r) \/ Select(r) PROVE IInv'
  BY <1>2, RequireKeeps, SelectKeeps
<1>3. ASSUME NEW s \in Stores, NEW row \in StoreRows, CreateStore(s, row) PROVE IInv'
  <2>1. stores' = [stores EXCEPT ![s] = row] /\ stores[s] = None
        /\ UNCHANGED <<inventory, pc, call, reply, closed>>
    BY <1>3 DEF CreateStore
  <2>2. /\ stores' \in [Stores -> StoreRows \cup {None}]
        /\ \A t \in Stores : stores[t] # None => stores'[t] = stores[t]
    BY <2>1 DEF IInv, TypeOK
  <2> QED
    BY <2>1, <2>2, WritersKeep DEF IInv, TypeOK, Public, Active
<1>4. ASSUME NEW s \in Stores, RetireStore(s) PROVE IInv'
  <2> DEFINE retired == [stores[s] EXCEPT !.is_active = FALSE]
  <2>1. stores' = [stores EXCEPT ![s] = retired] /\ stores[s] # None
        /\ UNCHANGED <<inventory, pc, call, reply, closed>>
    BY <1>4 DEF RetireStore, Active
  <2>2. stores[s] \in StoreRows
    BY <2>1 DEF IInv, TypeOK
  <2>3. retired \in StoreRows /\ retired.is_active = FALSE
    BY <2>2 DEF StoreRows
  <2>4. retired # None
    BY <2>3, NoneAssumption
  <2> HIDE DEF retired
  <2>5. /\ stores' \in [Stores -> StoreRows \cup {None}]
        /\ \A t \in Stores : stores'[t] = IF t = s THEN retired ELSE stores[t]
    BY <2>1, <2>3 DEF IInv, TypeOK
  <2>6. \A t \in Stores : stores[t] # None => stores'[t] # None /\ (Public(t)' => Public(t))
    BY <2>3, <2>4, <2>5 DEF Public, Active
  <2> QED
    BY <2>1, <2>5, <2>6, WritersKeep DEF IInv, TypeOK
<1>5. ASSUME NEW s \in Stores, NEW p \in Products, NEW row \in StockRows, WriteStock(s, p, row)
      PROVE  IInv'
  <2>1. inventory' = [inventory EXCEPT ![<<s, p>>] = row]
        /\ UNCHANGED <<stores, pc, call, reply, closed>>
    BY <1>5 DEF WriteStock
  <2>2. inventory' \in [Stores \X Products -> StockRows \cup {None}]
    BY <2>1 DEF IInv, TypeOK
  <2> QED
    BY <2>1, <2>2, WritersKeep DEF IInv, TypeOK, Public, Active
<1>6. CASE UNCHANGED vars
  BY <1>6, WritersKeep DEF vars, IInv, TypeOK, Public, Active
<1> QED
  BY <1>1, <1>2, <1>3, <1>4, <1>5, <1>6 DEF Next

(* The service starts without requests and answers. *)
LEMMA InitInv == Init => IInv
  BY DEF Init, IInv, TypeOK, Answering, Guest

(* IInv is an invariant of the reads. *)
LEMMA InvariantHolds == Spec => []IInv
<1> QED
  BY InitInv, IInvInductive, PTL DEF Spec

-----------------------------------------------------------------------------
(* A guest's answer never holds a quantity or a threshold, whatever was asked for
   and whatever changed between its two statements. *)
THEOREM TypeCorrect == Spec => []TypeOK
<1>1. IInv => TypeOK
  BY DEF IInv
<1> QED
  BY <1>1, InvariantHolds, PTL

(* A guest learns nothing of a store that was not public when the request came. *)
THEOREM GuestsSeePublicStores == Spec => []OnlyPublicStores
<1>1. IInv => OnlyPublicStores
  BY DEF IInv, Answering, OnlyPublicStores
<1> QED
  BY <1>1, InvariantHolds, PTL

(* A guest and staff who look at a pair at the same time are told the same. *)
THEOREM GuestsAndStaffAgree == Spec => []GuestsSeeWhatStaffSees
<1>1. IInv => GuestsSeeWhatStaffSees
  <2> SUFFICES ASSUME IInv, NEW s \in Stores, NEW p \in Products
      PROVE  LET guest == GuestEntry(s, p).bucket
                 staff == StaffEntry(s, p)
             IN /\ guest = "out_of_stock" <=> ~NonZero(staff.quantity)
                /\ guest = "low_stock" <=> /\ staff.present
                                           /\ NonZero(staff.quantity)
                                           /\ LowStock(staff.quantity, staff.threshold)
    BY DEF GuestsSeeWhatStaffSees
  <2>1. inventory[<<s, p>>] \in StockRows \cup {None}
    BY DEF IInv, TypeOK
  <2>2. CASE inventory[<<s, p>>] = None
    BY <2>2 DEF GuestEntry, StaffEntry, Coarsen, NonZero, LowStock
  <2>3. CASE inventory[<<s, p>>] # None
    <3> DEFINE row == inventory[<<s, p>>]
    <3>1. row.quantity \in Nat /\ row.quantity # None
      <4>1. row.quantity \in Quantities
        BY <2>1, <2>3 DEF StockRows
      <4>2. row.quantity \in Nat
        BY <4>1, QuantitiesAssumption, Zenon
      <4> HIDE DEF row
      <4> QED
        BY <4>2, NoneAssumption
    <3>2. row.threshold = None \/ row.threshold \in Nat
      BY <2>1, <2>3, ThresholdsAssumption DEF StockRows
    <3>3. /\ GuestEntry(s, p).bucket = Coarsen(row.quantity, row.threshold)
          /\ StaffEntry(s, p).quantity = row.quantity
          /\ StaffEntry(s, p).threshold = row.threshold
          /\ StaffEntry(s, p).present = TRUE
      BY <2>3 DEF GuestEntry, StaffEntry
    <3> HIDE DEF row
    <3> QED
      BY <3>1, <3>2, <3>3 DEF Coarsen, NonZero, LowStock
  <2> QED
    BY <2>2, <2>3
<1> QED
  BY <1>1, InvariantHolds, PTL

(* A batch answer, of any length, names every product asked for once, in the order
   of the client. *)
THEOREM BatchesAnswerInOrder == Spec => []AnswersInOrder
<1>1. IInv => AnswersInOrder
  <2> SUFFICES ASSUME IInv, NEW r \in Requests, reply[r] # None, reply[r].status = 200
      PROVE  LET asked == call[r].ids
                 answered == reply[r].entries
                 First(p) == CHOOSE j \in DOMAIN asked :
                               asked[j] = p /\ \A k \in 1..(j - 1) : asked[k] # p
             IN /\ {answered[k].id : k \in DOMAIN answered} = {asked[j] : j \in DOMAIN asked}
                /\ \A j, k \in DOMAIN answered : j < k => First(answered[j].id) < First(answered[k].id)
    BY DEF AnswersInOrder
  <2> DEFINE asked == call[r].ids
             answered == reply[r].entries
             ids == UniqueIds(asked)
             Is(p, j) == asked[j] = p /\ \A k \in 1..(j - 1) : asked[k] # p
             First(p) == CHOOSE j \in DOMAIN asked : Is(p, j)
  <2>1. call[r] \in Calls /\ Covers(r)
    BY DEF IInv, Answering
  <2>2. asked \in Seq(Products) /\ ids \in Seq(Products) /\ Lists(asked, Len(asked), ids)
    BY <2>1, AskedType, UniqueIdsLists
  <2>3. /\ DOMAIN answered = DOMAIN ids
        /\ \A k \in DOMAIN ids : answered[k].id = ids[k]
    BY <2>1, <2>2 DEF Covers
  <2> HIDE DEF asked, answered, ids
  <2>4. DOMAIN asked = 1..Len(asked) /\ Len(asked) \in Nat
    BY <2>2
  <2> HIDE DEF Is, First
  <2>5. {answered[k].id : k \in DOMAIN answered} = {asked[j] : j \in DOMAIN asked}
    <3>1. ASSUME NEW k \in DOMAIN answered
          PROVE  \E j \in DOMAIN asked : asked[j] = answered[k].id
      <4>1. k \in DOMAIN ids /\ answered[k].id = ids[k]
        BY <2>3, <3>1
      <4>2. PICK j \in 1..Len(asked) : asked[j] = ids[k]
        BY <2>2, <4>1 DEF Lists
      <4> QED
        BY <2>4, <4>1, <4>2
    <3>2. ASSUME NEW j \in DOMAIN asked
          PROVE  \E k \in DOMAIN answered : answered[k].id = asked[j]
      <4>1. PICK a \in DOMAIN ids : ids[a] = asked[j]
        BY <2>2, <2>4, <3>2 DEF Lists
      <4> QED
        BY <2>3, <4>1
    <3> QED
      BY <3>1, <3>2
  <2>6. ASSUME NEW k \in DOMAIN answered
        PROVE  /\ First(answered[k].id) \in 1..Len(asked)
               /\ IsFirst(asked, First(answered[k].id))
               /\ asked[First(answered[k].id)] = ids[k]
    <3> USE DEF Is, First
    <3> DEFINE p == answered[k].id
    <3>1. p = ids[k]
      BY <2>3, <2>6
    <3>2. \E j \in DOMAIN asked : Is(p, j)
      BY <2>2, <2>3, <2>4, <2>6, <3>1 DEF Lists, IsFirst
    <3>3. First(p) \in DOMAIN asked /\ Is(p, First(p))
      <4> HIDE DEF Is, p
      <4> QED
        BY <3>2
    <3> HIDE DEF First, p
    <3> QED
      BY <2>4, <3>1, <3>3 DEF IsFirst, p
  <2>7. ASSUME NEW j \in DOMAIN answered, NEW k \in DOMAIN answered, j < k
        PROVE  First(answered[j].id) < First(answered[k].id)
    <3> DEFINE i == First(answered[j].id)
               l == First(answered[k].id)
    <3>1. /\ i \in 1..Len(asked) /\ IsFirst(asked, i) /\ asked[i] = ids[j]
          /\ l \in 1..Len(asked) /\ IsFirst(asked, l) /\ asked[l] = ids[k]
      BY <2>6
    <3>2. j \in DOMAIN ids /\ k \in DOMAIN ids
      BY <2>3
    <3> HIDE DEF i, l, First
    <3>3. i < l
      BY <2>2, <2>7, <3>1, <3>2, ListsInOrder
    <3> QED
      BY <3>3 DEF i, l
  <2> QED
    BY <2>5, <2>7 DEF asked, answered, First, Is
<1> QED
  BY <1>1, InvariantHolds, PTL
=============================================================================
