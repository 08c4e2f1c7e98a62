-------------------------- MODULE InventoryProofs --------------------------
(***************************************************************************)
(* Proofs about Inventory, for any stores, products, requests, payloads    *)
(* and bounds: the tables keep their types, the audit log explains the     *)
(* snapshot, every step maps to a step of the audit ledger, PUT sets the   *)
(* quantity it was given or adds it to a recorded one, and a threshold     *)
(* changes only to the one that the committing PUT carries.                *)
(*                                                                         *)
(* None of it is inductive as it stands.  IInv adds the discipline of the  *)
(* row lock (LockInv), what a session knows at each await (SessionInv) and *)
(* that stamps grow along the log (AuditInv); IntentInv, later on, adds    *)
(* how an object is related to the payload.                                *)
(***************************************************************************)
EXTENDS Inventory, TLAPS

(* The quantities pair p has been recorded at; it starts from nothing. *)
Recorded(p) == {0} \cup {movements[p][k].quantity_after : k \in DOMAIN movements[p]}

Holder(r) == lock[PairOf(r)] = r

(* A row is held only by a request between its statement and its commit. *)
LockInv ==
  \A p \in Pairs : \A r \in Requests : lock[p] = r =>
    call[r] # None /\ PairOf(r) = p /\ pc[r] \in {"log", "commit"}

(* What request r has in hand at each await. *)
Loaded(r) ==
  /\ call[r] = None <=> pc[r] = "idle"
  /\ pc[r] \in {"idle", "require_store", "require_product", "read"} => obj[r] = None
  /\ pc[r] = "apply" /\ obj[r] # None =>
       obj[r].quantity \in Recorded(PairOf(r)) /\ inventory[PairOf(r)] # None

Pending(r) ==
  /\ pc[r] = "insert" => obj[r] # None /\ obj[r].quantity = delta[r]
  /\ pc[r] = "update" =>
       /\ obj[r] # None
       /\ inventory[PairOf(r)] # None
       /\ "quantity" \in dirty[r] <=> delta[r] # 0
       /\ obj[r].quantity - delta[r] \in Recorded(PairOf(r))

Flushed(r) ==
  /\ pc[r] = "log" => Holder(r) /\ delta[r] # 0
  /\ pc[r] = "commit" /\ delta[r] # 0 => Holder(r) /\ stamp[r] # None
  /\ stamp[r] # None =>
       /\ pc[r] = "commit"
       /\ delta[r] # 0
       /\ \A k \in DOMAIN movements[PairOf(r)] : movements[PairOf(r)][k].at < stamp[r]
  /\ pc[r] \in {"log", "commit"} /\ Holder(r) =>
       /\ obj[r] # None
       /\ obj[r].quantity <= MaxInt
       /\ obj[r].quantity - delta[r] \in Recorded(PairOf(r))
       /\ inventory[PairOf(r)] = None => obj[r].quantity = delta[r]
       /\ inventory[PairOf(r)] # None => ("quantity" \in dirty[r] <=> delta[r] # 0)

SessionInv == \A r \in Requests : Loaded(r) /\ Pending(r) /\ Flushed(r)

(* The log of a pair ends at the row's quantity and its stamps grow. *)
Audited(p) ==
  /\ movements[p] = <<>> => QuantityOf(p) = 0
  /\ movements[p] # <<>> => movements[p][Len(movements[p])].quantity_after = QuantityOf(p)
  /\ \A j, k \in DOMAIN movements[p] : j < k => movements[p][j].at < movements[p][k].at

AuditInv == \A p \in Pairs : Audited(p)

IInv == TypeOK /\ LockInv /\ SessionInv /\ AuditInv

-----------------------------------------------------------------------------
(* Request r alone moves: the rest of the sessions and their locks stay. *)
Frame(r) ==
  \A q \in Requests \ {r} :
    /\ pc'[q] = pc[q] /\ call'[q] = call[q] /\ obj'[q] = obj[q]
    /\ dirty'[q] = dirty[q] /\ delta'[q] = delta[q] /\ stamp'[q] = stamp[q]
    /\ call[q] # None => (lock'[PairOf(q)] = q <=> lock[PairOf(q)] = q)

(* What the other sessions have in hand does not depend on a step that leaves
   them, the tables and their locks alone. *)
LEMMA OthersKeep ==
  ASSUME TypeOK, SessionInv, NEW r \in Requests, Frame(r), UNCHANGED <<inventory, movements>>
  PROVE  \A q \in Requests \ {r} : Loaded(q)' /\ Pending(q)' /\ Flushed(q)'
<1> SUFFICES ASSUME NEW q \in Requests \ {r} PROVE Loaded(q)' /\ Pending(q)' /\ Flushed(q)'
  OBVIOUS
<1>1. /\ pc'[q] = pc[q] /\ call'[q] = call[q] /\ obj'[q] = obj[q]
      /\ dirty'[q] = dirty[q] /\ delta'[q] = delta[q] /\ stamp'[q] = stamp[q]
      /\ inventory' = inventory /\ movements' = movements
      /\ call[q] # None => (lock'[PairOf(q)] = q <=> lock[PairOf(q)] = q)
  BY DEF Frame
<1>2. Loaded(q) /\ Pending(q) /\ Flushed(q)
  BY DEF SessionInv
<1>3. Loaded(q)'
  BY <1>1, <1>2 DEF Loaded, Recorded, PairOf
<1>4. Pending(q)'
  BY <1>1, <1>2 DEF Pending, Recorded, PairOf
<1>5. call[q] # None \/ (pc[q] = "idle" /\ stamp[q] = None)
  BY <1>2 DEF Loaded, Flushed
<1>6. Flushed(q)'
  BY <1>1, <1>2, <1>5 DEF Flushed, Holder, Recorded, PairOf
<1> QED
  BY <1>3, <1>4, <1>6

(* Every error path and every response ends a request the same way. *)
LEMMA ReplyKeeps ==
  ASSUME IInv, NEW r \in Requests, Reply(r)
  PROVE  IInv'
<1> USE NoneAssumption DEF IInv
<1>1. TypeOK'
  BY DEF TypeOK, Reply, Steps
<1>2. LockInv'
  BY DEF TypeOK, Reply, LockInv, PairOf
<1>3. Frame(r)
  <2> SUFFICES ASSUME NEW q \in Requests \ {r}, call[q] # None
      PROVE lock'[PairOf(q)] = q <=> lock[PairOf(q)] = q
    BY DEF Frame, Reply, TypeOK
  <2>1. PairOf(q) \in Pairs
    BY DEF TypeOK, PairOf, Calls
  <2> QED
    BY <2>1 DEF Reply, TypeOK
<1>4. Loaded(r)' /\ Pending(r)' /\ Flushed(r)'
  BY DEF TypeOK, Reply, Loaded, Pending, Flushed
<1>5. SessionInv'
  BY <1>3, <1>4, OthersKeep DEF SessionInv, Reply
<1>6. AuditInv'
  BY DEF AuditInv, Audited, QuantityOf, Reply
<1> QED
  BY <1>1, <1>2, <1>5, <1>6

(* A step of r's own before its statement: nothing in the database moves. *)
LEMMA LocalStep ==
  ASSUME IInv, NEW r \in Requests, pc[r] \notin {"log", "commit"}, UNCHANGED database,
         \A q \in Requests \ {r} :
           /\ pc'[q] = pc[q] /\ call'[q] = call[q] /\ obj'[q] = obj[q]
           /\ dirty'[q] = dirty[q] /\ delta'[q] = delta[q] /\ stamp'[q] = stamp[q],
         TypeOK', Loaded(r)', Pending(r)', Flushed(r)'
  PROVE  IInv'
<1> USE DEF IInv
<1>1. Frame(r)
  BY DEF Frame, database
<1>2. SessionInv'
  BY <1>1, OthersKeep DEF SessionInv, database
<1>3. LockInv'
  <2> SUFFICES ASSUME NEW p \in Pairs, NEW q \in Requests, lock'[p] = q
      PROVE (call[q] # None /\ PairOf(q) = p /\ pc[q] \in {"log", "commit"})'
    BY DEF LockInv
  <2>1. call[q] # None /\ PairOf(q) = p /\ pc[q] \in {"log", "commit"}
    BY DEF LockInv, database
  <2>2. q # r
    BY <2>1
  <2> QED
    BY <2>1, <2>2 DEF PairOf
<1>4. AuditInv'
  BY DEF AuditInv, Audited, QuantityOf, database
<1> QED
  BY <1>2, <1>3, <1>4

(* The state a server starts in, untouched pairs and pairs opened by
   create_product, satisfies the invariant. *)
LEMMA InitInv == Init => IInv
<1> SUFFICES ASSUME Init PROVE IInv
  OBVIOUS
<1> USE NoneAssumption, ConstantsAssumption, NoneIsNoRecord
<1>1. TypeOK
  <2>1. Opening \subseteq StoredRows \cup {None}
    <3> SUFFICES ASSUME NEW x \in Opening, x # None PROVE x \in StoredRows
      OBVIOUS
    <3> DEFINE full == {n \in Quantities : 0 < n /\ n <= MaxInt}
    <3>1. \E q \in full, t \in Thresholds \cup {None} : x = [quantity |-> q, reorder_threshold |-> t]
      <4> HIDE DEF full
      <4>1. x \in {[quantity |-> q, reorder_threshold |-> t] : q \in full, t \in Thresholds \cup {None}}
        BY DEF Opening, full
      <4> QED
        BY <4>1
    <3>2. PICK q \in full, t \in Thresholds \cup {None} : x = [quantity |-> q, reorder_threshold |-> t]
      BY <3>1
    <3>3. q \in Nat /\ q <= MaxInt
      OBVIOUS
    <3> QED
      BY <3>2, <3>3 DEF StoredRows, Rows
  <2>2. inventory \in [Pairs -> StoredRows \cup {None}]
    BY <2>1 DEF Init
  <2>3. movements \in [Pairs -> Seq(Movements)]
    <3> SUFFICES ASSUME NEW p \in Pairs PROVE movements[p] \in Seq(Movements)
      BY DEF Init
    <3>1. CASE inventory[p] = None
      BY <3>1 DEF Init
    <3>2. CASE inventory[p] # None
      <4>1. inventory[p].quantity \in 0..MaxInt
        BY <3>2, <2>2 DEF StoredRows, Rows
      <4>2. [delta |-> inventory[p].quantity, quantity_after |-> inventory[p].quantity,
             at |-> 1] \in Movements
        BY <4>1 DEF Movements, Times
      <4> QED
        BY <3>2, <4>2 DEF Init
    <3> QED
      BY <3>1, <3>2
  <2> QED
    BY <2>2, <2>3 DEF TypeOK, Init, Steps
<1>2. LockInv
  BY DEF LockInv, Init
<1>3. SessionInv
  BY DEF SessionInv, Loaded, Pending, Flushed, Init
<1>4. AuditInv
  <2> SUFFICES ASSUME NEW p \in Pairs PROVE Audited(p)
    BY DEF AuditInv
  <2>1. CASE inventory[p] = None
    BY <2>1 DEF Init, Audited, QuantityOf
  <2>2. CASE inventory[p] # None
    BY <2>2 DEF Init, Audited, QuantityOf
  <2> QED
    BY <2>1, <2>2
<1> QED
  BY <1>1, <1>2, <1>3, <1>4 DEF IInv

(* A request that arrives has no object, no row and no stamp yet. *)
LEMMA ReceiveKeeps ==
  ASSUME IInv, NEW r \in Requests, NEW c \in Calls, Receive(r, c)
  PROVE  IInv'
<1> USE NoneAssumption, NoneIsNoRecord DEF Receive, Goto, database
<1>1. TypeOK'
  <2>1. c.op = "move" => c.amount \in Int
    BY ConstantsAssumption DEF Calls
  <2>2. delta' \in [Requests -> Int]
    BY <2>1 DEF IInv, TypeOK
  <2> QED
    BY <2>2 DEF IInv, TypeOK, Steps
<1>2. Loaded(r)' /\ Pending(r)' /\ Flushed(r)'
  BY DEF IInv, TypeOK, SessionInv, Loaded, Pending, Flushed
<1> QED
  BY <1>1, <1>2, LocalStep DEF IInv, TypeOK

(* _require_store and _require_product only read. *)
LEMMA RequireKeeps ==
  ASSUME IInv, NEW r \in Requests, RequireStore(r) \/ RequireProduct(r)
  PROVE  IInv'
<1>1. CASE Reply(r)
  BY <1>1, ReplyKeeps
<1>2. CASE ~Reply(r)
  <2> USE NoneAssumption, <1>2 DEF RequireStore, RequireProduct, Goto, database, session
  <2>1. TypeOK'
    BY DEF IInv, TypeOK, Steps
  <2>2. Loaded(r)' /\ Pending(r)' /\ Flushed(r)'
    BY DEF IInv, TypeOK, SessionInv, Loaded, Pending, Flushed
  <2> QED
    BY <2>1, <2>2, LocalStep DEF IInv, TypeOK
<1> QED
  BY <1>1, <1>2

(* Assigning a PUT's threshold leaves a row a row, with its quantity. *)
LEMMA WithThresholdType ==
  ASSUME NEW row \in Rows, NEW t \in Thresholds \cup {None}
  PROVE  /\ WithThreshold(row, t) \in Rows
         /\ WithThreshold(row, t).quantity = row.quantity
         /\ Changed(row, WithThreshold(row, t)) \in SUBSET {"reorder_threshold"}
  BY DEF WithThreshold, Rows, Changed, Columns

(* The quantity a row has now is one it was recorded at. *)
LEMMA CurrentIsRecorded ==
  ASSUME TypeOK, AuditInv, NEW p \in Pairs
  PROVE  QuantityOf(p) \in Recorded(p)
<1>1. movements[p] \in Seq(Movements)
  BY DEF TypeOK
<1>2. CASE movements[p] = <<>>
  BY <1>2 DEF AuditInv, Audited, Recorded
<1>3. CASE movements[p] # <<>>
  <2>1. Len(movements[p]) \in DOMAIN movements[p]
    BY <1>1, <1>3
  <2> QED
    BY <1>3, <2>1 DEF AuditInv, Audited, Recorded
<1> QED
  BY <1>2, <1>3

(* set_absolute_quantity's load: the delta it derives leads from a quantity that
   was committed to the one asked for. *)
LEMMA ReadCurrentKeeps ==
  ASSUME IInv, NEW r \in Requests, ReadCurrent(r)
  PROVE  IInv'
<1> DEFINE p == PairOf(r)
           row == inventory[p]
           current == QuantityOf(p)
           new == WithThreshold(row, call[r].threshold)
<1> USE NoneAssumption, NoneIsNoRecord
<1>1. /\ pc[r] = "read" /\ obj[r] = None /\ stamp[r] = None
      /\ call[r] \in Calls /\ p \in Pairs
      /\ row \in StoredRows \cup {None}
      /\ current \in Nat /\ current \in Recorded(p)
  <2>1. pc[r] = "read" /\ call[r] # None /\ obj[r] = None /\ stamp[r] = None
    BY DEF ReadCurrent, IInv, SessionInv, Loaded, Flushed
  <2>2. call[r] \in Calls /\ p \in Pairs
    BY <2>1 DEF IInv, TypeOK, PairOf, Calls
  <2>3. row \in StoredRows \cup {None} /\ current \in Nat
    BY <2>2 DEF IInv, TypeOK, QuantityOf, StoredRows, Rows
  <2> QED
    BY <2>1, <2>2, <2>3, CurrentIsRecorded DEF IInv
<1>2. call[r].amount \in Int /\ call[r].threshold \in Thresholds \cup {None}
  <2>1. call[r].amount \in Quantities \cup Deltas
    BY <1>1 DEF Calls
  <2>2. call[r].threshold \in Thresholds \cup {None}
    BY <1>1 DEF Calls
  <2>3. Quantities \subseteq Int /\ Deltas \subseteq Int
    BY ConstantsAssumption
  <2> QED
    BY <2>1, <2>2, <2>3
<1>3. delta' = [delta EXCEPT ![r] = call[r].amount - current]
      /\ delta'[r] = call[r].amount - current /\ delta' \in [Requests -> Int]
  BY <1>1, <1>2 DEF ReadCurrent, QuantityOf, IInv, TypeOK
<1>4. UNCHANGED <<database, call, stamp>>
  BY DEF ReadCurrent
<1>5. PairOf(r)' = p
  BY <1>4 DEF PairOf
<1>6. CASE call[r].amount # current
  <2>1. pc' = [pc EXCEPT ![r] = "apply"] /\ obj' = [obj EXCEPT ![r] = row] /\ dirty' = dirty
    BY <1>6 DEF ReadCurrent, QuantityOf, Goto
  <2>2. TypeOK'
    BY <1>1, <1>3, <1>4, <2>1 DEF IInv, TypeOK, Steps, StoredRows, database
  <2>3. Loaded(r)' /\ Pending(r)' /\ Flushed(r)'
    BY <1>1, <1>3, <1>4, <1>5, <2>1
    DEF IInv, TypeOK, Loaded, Pending, Flushed, Recorded, QuantityOf, database
  <2> QED
    BY <1>1, <1>3, <1>4, <2>1, <2>2, <2>3, LocalStep DEF IInv, TypeOK
<1>7. CASE call[r].amount = current /\ row = None
  <2>1. /\ pc' = [pc EXCEPT ![r] = "insert"] /\ dirty' = dirty
        /\ obj' = [obj EXCEPT ![r] = [quantity |-> 0, reorder_threshold |-> call[r].threshold]]
    BY <1>7 DEF ReadCurrent, QuantityOf, Goto
  <2>2. TypeOK'
    BY <1>1, <1>2, <1>3, <1>4, <2>1 DEF IInv, TypeOK, Steps, Rows, database
  <2>3. delta'[r] = 0
    BY <1>1, <1>3, <1>7
  <2>4. Loaded(r)' /\ Pending(r)' /\ Flushed(r)'
    BY <1>1, <1>2, <1>4, <2>1, <2>3 DEF IInv, TypeOK, Rows, Loaded, Pending, Flushed
  <2> QED
    BY <1>1, <1>3, <1>4, <2>1, <2>2, <2>4, LocalStep DEF IInv, TypeOK
<1>8. CASE call[r].amount = current /\ row # None
  <2>1. /\ pc' = [pc EXCEPT ![r] = "update"] \/ pc' = [pc EXCEPT ![r] = "commit"]
        /\ obj' = [obj EXCEPT ![r] = new]
        /\ dirty' = [dirty EXCEPT ![r] = Changed(row, new)]
    BY <1>8 DEF ReadCurrent, QuantityOf, Goto
  <2>2. /\ new \in Rows /\ new.quantity = current
        /\ Changed(row, new) \in SUBSET {"reorder_threshold"}
    BY <1>1, <1>2, <1>8, WithThresholdType DEF StoredRows, QuantityOf
  <2>3. TypeOK'
    BY <1>1, <1>3, <1>4, <2>1, <2>2 DEF IInv, TypeOK, Steps, Columns, database
  <2>4. lock[p] # r
    BY <1>1 DEF IInv, LockInv
  <2>5. delta'[r] = 0
    BY <1>3, <1>8, <1>1
  <2>6. Loaded(r)' /\ Pending(r)' /\ Flushed(r)'
    <3>1. Loaded(r)'
      BY <1>1, <1>4, <2>1 DEF IInv, TypeOK, Loaded
    <3>2. Pending(r)'
      BY <1>1, <1>4, <1>5, <1>8, <2>1, <2>2, <2>5
      DEF IInv, TypeOK, Pending, Recorded, database
    <3>3. Flushed(r)'
      BY <1>1, <1>4, <1>5, <2>1, <2>4, <2>5 DEF IInv, TypeOK, Flushed, Holder, database
    <3> QED
      BY <3>1, <3>2, <3>3
  <2> QED
    BY <1>1, <1>3, <1>4, <2>1, <2>3, <2>6, LocalStep DEF IInv, TypeOK
<1> QED
  BY <1>6, <1>7, <1>8

(* apply_movement: what it assigns to the object is a recorded quantity plus the
   delta, and not negative. *)
LEMMA ApplyMovementKeeps ==
  ASSUME IInv, NEW r \in Requests, ApplyMovement(r)
  PROVE  IInv'
<1> DEFINE p == PairOf(r)
           row == LoadedRow(r)
           moved == [row EXCEPT !.quantity = @ + delta[r]]
           new == WithThreshold(moved, call[r].threshold)
<1> USE NoneAssumption, NoneIsNoRecord DEF LoadedRow
<1>1. /\ pc[r] = "apply" /\ stamp[r] = None /\ delta[r] \in Int
      /\ call[r] \in Calls /\ p \in Pairs
      /\ row \in Rows \cup {None}
  <2>1. pc[r] = "apply" /\ call[r] # None /\ stamp[r] = None
    BY DEF ApplyMovement, IInv, SessionInv, Loaded, Flushed
  <2>2. call[r] \in Calls /\ p \in Pairs /\ delta[r] \in Int
    BY <2>1 DEF IInv, TypeOK, PairOf, Calls
  <2>3. row \in Rows \cup {None}
    BY <2>2 DEF IInv, TypeOK, StoredRows
  <2> QED
    BY <2>1, <2>2, <2>3
<1>2. call[r].threshold \in Thresholds \cup {None}
  BY <1>1 DEF Calls
<1>3. CASE Reply(r)
  BY <1>3, ReplyKeeps
<1>4. CASE /\ row = None
           /\ delta[r] > 0
           /\ pc' = [pc EXCEPT ![r] = "insert"]
           /\ obj' = [obj EXCEPT ![r] = [quantity |-> delta[r],
                                         reorder_threshold |-> call[r].threshold]]
           /\ UNCHANGED <<database, call, dirty, delta, stamp>>
  <2>1. TypeOK'
    BY <1>1, <1>2, <1>4 DEF IInv, TypeOK, Steps, Rows, database
  <2>2. Loaded(r)' /\ Pending(r)' /\ Flushed(r)'
    BY <1>1, <1>2, <1>4 DEF IInv, TypeOK, Rows, Loaded, Pending, Flushed
  <2> QED
    BY <1>1, <1>4, <2>1, <2>2, LocalStep DEF IInv, TypeOK
<1>5. CASE /\ row # None
           /\ delta[r] # 0
           /\ row.quantity + delta[r] >= 0
           /\ pc' = [pc EXCEPT ![r] = "update"]
           /\ obj' = [obj EXCEPT ![r] = new]
           /\ dirty' = [dirty EXCEPT ![r] = Changed(row, new)]
           /\ UNCHANGED <<database, call, delta, stamp>>
  <2>1. moved \in Rows /\ moved.quantity = row.quantity + delta[r]
    BY <1>1, <1>5 DEF Rows
  <2>2. new \in Rows /\ new.quantity = row.quantity + delta[r]
    BY <1>2, <2>1, WithThresholdType
  <2>3. Changed(row, new) \in SUBSET Columns /\ "quantity" \in Changed(row, new)
    BY <1>1, <1>5, <2>2 DEF Changed, Columns, Rows
  <2>4. TypeOK'
    BY <1>5, <2>2, <2>3 DEF IInv, TypeOK, Steps, database
  <2>5. row.quantity \in Recorded(p)
    <3>1. CASE obj[r] # None
      BY <1>1, <3>1 DEF IInv, SessionInv, Loaded
    <3>2. CASE obj[r] = None
      BY <1>1, <1>5, <3>2, CurrentIsRecorded DEF IInv, QuantityOf
    <3> QED
      BY <3>1, <3>2
  <2>6. inventory[p] # None
    <3>1. CASE obj[r] # None
      BY <1>1, <3>1 DEF IInv, SessionInv, Loaded
    <3>2. CASE obj[r] = None
      BY <1>5, <3>2
    <3> QED
      BY <3>1, <3>2
  <2>7. new.quantity - delta[r] = row.quantity
    BY <1>1, <1>5, <2>2 DEF Rows
  <2>8. Loaded(r)'
    BY <1>1, <1>5 DEF IInv, TypeOK, SessionInv, Loaded
  <2>9. Pending(r)'
    <3>1. obj'[r] = new /\ dirty'[r] = Changed(row, new) /\ pc'[r] = "update"
      BY <1>5 DEF IInv, TypeOK
    <3> QED
      BY <1>5, <2>2, <2>3, <2>5, <2>6, <2>7, <3>1 DEF Pending, Recorded, PairOf, database
  <2>10. Flushed(r)'
    BY <1>1, <1>5 DEF IInv, TypeOK, Flushed
  <2> QED
    BY <1>1, <1>5, <2>4, <2>8, <2>9, <2>10, LocalStep DEF IInv, TypeOK
<1> QED
  BY <1>1, <1>3, <1>4, <1>5 DEF ApplyMovement, Insufficient, Goto, Rows

(* A statement that runs takes the row; only its own request can have it. *)
LEMMA HoldRowKeeps ==
  ASSUME IInv, NEW r \in Requests, HoldRow(r), lock[PairOf(r)] = None,
         pc[r] \in {"insert", "update"}, obj[r].quantity <= MaxInt,
         pc[r] = "insert" => inventory[PairOf(r)] = None
  PROVE  IInv'
<1> DEFINE p == PairOf(r)
<1> USE NoneAssumption DEF IInv
<1>1. call[r] # None /\ p \in Pairs /\ obj[r] # None /\ delta[r] \in Int
  BY DEF TypeOK, SessionInv, Loaded, Pending, PairOf, Calls
<1>2. /\ lock' = [lock EXCEPT ![p] = r]
      /\ pc' = [pc EXCEPT ![r] = IF delta[r] # 0 THEN "log" ELSE "commit"]
      /\ UNCHANGED <<inventory, movements, active, session>>
  BY DEF HoldRow, Goto
<1>3. TypeOK'
  BY <1>1, <1>2 DEF TypeOK, Steps, session
<1>4. lock'[p] = r /\ \A q \in Pairs \ {p} : lock'[q] = lock[q]
  BY <1>1, <1>2 DEF TypeOK
<1>5. LockInv'
  BY <1>1, <1>2, <1>4 DEF LockInv, TypeOK, PairOf, session
<1>6. Frame(r)
  <2> SUFFICES ASSUME NEW q \in Requests \ {r}, call[q] # None
      PROVE lock'[PairOf(q)] = q <=> lock[PairOf(q)] = q
    BY <1>2 DEF Frame, TypeOK, session
  <2>1. PairOf(q) \in Pairs
    BY DEF TypeOK, PairOf, Calls
  <2> QED
    BY <1>4, <2>1
<1>7. Loaded(r)' /\ Pending(r)' /\ Flushed(r)'
  <2>1. PairOf(r)' = p /\ Holder(r)'
    BY <1>2, <1>4 DEF PairOf, Holder, session
  <2>2. Recorded(p)' = Recorded(p) /\ 0 \in Recorded(p)
    BY <1>2, <2>1 DEF Recorded
  <2>3. pc'[r] = (IF delta[r] # 0 THEN "log" ELSE "commit")
    BY <1>2 DEF TypeOK
  <2>4. Pending(r) /\ Loaded(r) /\ Flushed(r)
    BY DEF SessionInv
  <2>5. stamp[r] = None
    BY <2>4 DEF Flushed
  <2>6. obj[r].quantity - delta[r] \in Recorded(p)
    BY <1>1, <2>2, <2>4 DEF Pending
  <2>7. Loaded(r)' /\ Pending(r)'
    BY <1>1, <1>2, <2>3 DEF Loaded, Pending, session
  <2>8. Flushed(r)'
    BY <1>1, <1>2, <2>1, <2>2, <2>3, <2>4, <2>5, <2>6 DEF Flushed, Pending, session
  <2> QED
    BY <2>7, <2>8
<1>8. SessionInv'
  BY <1>2, <1>6, <1>7, OthersKeep DEF SessionInv
<1>9. AuditInv'
  BY <1>2 DEF AuditInv, Audited, QuantityOf
<1> QED
  BY <1>3, <1>5, <1>8, <1>9

(* An INSERT or UPDATE of the row, granted or refused. *)
LEMMA WriteKeeps ==
  ASSUME IInv, NEW r \in Requests, Write(r)
  PROVE  IInv'
<1>1. CASE Reply(r)
  BY <1>1, ReplyKeeps
<1>2. CASE InsertRow(r) /\ HoldRow(r) /\ inventory[PairOf(r)] = None
  BY <1>2, HoldRowKeeps DEF InsertRow
<1>3. CASE UpdateRow(r)
  BY <1>3, HoldRowKeeps DEF UpdateRow
<1> QED
  BY <1>1, <1>2, <1>3 DEF Write, InsertRow

(* The movement's stamp is the latest of its pair, because its request holds the row. *)
LEMMA LogMovementKeeps ==
  ASSUME IInv, NEW r \in Requests, LogMovement(r)
  PROVE  IInv'
<1> DEFINE p == PairOf(r)
<1> USE NoneAssumption DEF IInv
<1>1. /\ pc[r] = "log" /\ call[r] # None /\ p \in Pairs
      /\ Holder(r) /\ delta[r] # 0
  BY DEF LogMovement, TypeOK, SessionInv, Loaded, Flushed, PairOf, Calls
<1>2. PICK t \in Times : /\ \A s \in Stamps(p) : s < t
                        /\ stamp' = [stamp EXCEPT ![r] = t]
  BY DEF LogMovement
<1>3. pc' = [pc EXCEPT ![r] = "commit"] /\ UNCHANGED <<database, call, obj, dirty, delta>>
  BY DEF LogMovement, Goto
<1>4. TypeOK'
  BY <1>2, <1>3 DEF TypeOK, Steps, database
<1>5. LockInv'
  BY <1>3 DEF LockInv, TypeOK, PairOf, database
<1>6. Frame(r)
  BY <1>2, <1>3 DEF Frame, TypeOK, database
<1>7. Loaded(r)' /\ Pending(r)'
  BY <1>1, <1>3 DEF TypeOK, Loaded, Pending
<1>8. Flushed(r)'
  <2>1. stamp'[r] = t /\ t # None /\ pc'[r] = "commit"
    BY <1>2, <1>3 DEF TypeOK, Times
  <2>2. \A k \in DOMAIN movements[p] : movements[p][k].at < t
    BY <1>2 DEF Stamps
  <2>3. Flushed(r)
    BY DEF SessionInv
  <2>4. /\ PairOf(r)' = p /\ Holder(r)' /\ delta' = delta /\ obj' = obj /\ dirty' = dirty
        /\ inventory' = inventory /\ movements' = movements /\ Recorded(p)' = Recorded(p)
    BY <1>1, <1>3 DEF PairOf, Holder, Recorded, database
  <2> QED
    BY <1>1, <2>1, <2>2, <2>3, <2>4 DEF Flushed
<1>9. SessionInv'
  BY <1>3, <1>6, <1>7, <1>8, OthersKeep DEF SessionInv, database
<1>10. AuditInv'
  BY <1>3 DEF AuditInv, Audited, QuantityOf, database
<1> QED
  BY <1>4, <1>5, <1>9, <1>10

-----------------------------------------------------------------------------
(* What a commit writes, for a request that holds its row. *)
LEMMA WrittenRow ==
  ASSUME IInv, NEW r \in Requests, pc[r] = "commit", Holder(r)
  PROVE  /\ Written(r) \in StoredRows
         /\ delta[r] # 0 => Written(r).quantity = obj[r].quantity
         /\ delta[r] = 0 => Written(r).quantity = QuantityOf(PairOf(r))
<1> USE NoneAssumption, NoneIsNoRecord DEF IInv
<1>1. /\ call[r] # None /\ PairOf(r) \in Pairs /\ delta[r] \in Int
      /\ obj[r] \in StoredRows
      /\ inventory[PairOf(r)] \in StoredRows \cup {None}
  BY DEF TypeOK, SessionInv, Loaded, Flushed, PairOf, Calls, StoredRows
<1>2. CASE inventory[PairOf(r)] = None
  <2>1. obj[r].quantity = delta[r] /\ Written(r) = obj[r]
    BY <1>2 DEF SessionInv, Flushed, Written
  <2> QED
    BY <1>1, <1>2, <2>1 DEF QuantityOf
<1>3. CASE inventory[PairOf(r)] # None
  <2>1. "quantity" \in dirty[r] <=> delta[r] # 0
    BY <1>3 DEF SessionInv, Flushed
  <2> QED
    BY <1>1, <1>3, <2>1 DEF QuantityOf, Written, StoredRows, Rows, Columns
<1> QED
  BY <1>2, <1>3

(* The movement a commit appends. *)
Logged(r) == [delta |-> delta[r], quantity_after |-> obj[r].quantity, at |-> stamp[r]]

(* A commit does nothing, or writes the row alone and keeps its quantity, or
   writes the quantity and appends the movement that explains it. *)
LEMMA CommitCases ==
  ASSUME IInv, NEW r \in Requests, Commit(r)
  PROVE  LET p == PairOf(r) IN
         /\ call[r] # None /\ p \in Pairs /\ pc[r] = "commit"
         /\ \/ /\ lock[p] # r /\ stamp[r] = None
               /\ UNCHANGED <<inventory, movements, lock>>
            \/ /\ lock[p] = r /\ stamp[r] = None /\ delta[r] = 0
               /\ inventory' = [inventory EXCEPT ![p] = Written(r)]
               /\ lock' = [lock EXCEPT ![p] = None]
               /\ movements' = movements
            \/ /\ lock[p] = r /\ stamp[r] # None /\ delta[r] # 0
               /\ inventory' = [inventory EXCEPT ![p] = Written(r)]
               /\ lock' = [lock EXCEPT ![p] = None]
               /\ movements' = [movements EXCEPT ![p] = Append(@, Logged(r))]
               /\ Logged(r) \in Movements
<1> DEFINE p == PairOf(r)
<1> USE NoneAssumption DEF IInv
<1>1. pc[r] = "commit" /\ call[r] # None /\ p \in Pairs /\ delta[r] \in Int
  BY DEF Commit, TypeOK, SessionInv, Loaded, PairOf, Calls
<1>2. /\ delta[r] # 0 => Holder(r) /\ stamp[r] # None
      /\ stamp[r] # None => delta[r] # 0
  BY <1>1 DEF SessionInv, Flushed
<1>3. CASE stamp[r] = None
  BY <1>1, <1>2, <1>3 DEF Commit, Holder
<1>4. CASE stamp[r] # None
  <2>1. obj[r] \in Rows /\ obj[r].quantity <= MaxInt /\ stamp[r] \in Times
    BY <1>1, <1>2, <1>4 DEF TypeOK, SessionInv, Flushed
  <2>2. Logged(r) \in Movements
    BY <1>1, <2>1, ConstantsAssumption DEF Logged, Movements, Rows
  <2> QED
    BY <1>1, <1>2, <1>4, <2>2 DEF Commit, Holder, Logged
<1> QED
  BY <1>3, <1>4

(* The commit replaces the row and appends the movement that explains it. *)
LEMMA CommitKeeps ==
  ASSUME IInv, NEW r \in Requests, Commit(r)
  PROVE  IInv'
<1> DEFINE p == PairOf(r)
<1> USE NoneAssumption, NoneIsNoRecord DEF IInv
<1>1. /\ pc' = [pc EXCEPT ![r] = "refresh"]
      /\ stamp' = [stamp EXCEPT ![r] = None]
      /\ UNCHANGED <<active, call, obj, dirty, delta>>
  BY DEF Commit, Goto
<1>2. call[r] # None /\ p \in Pairs /\ pc[r] = "commit"
  BY CommitCases
<1> DEFINE Nothing == lock[p] # r /\ stamp[r] = None /\ UNCHANGED <<inventory, movements, lock>>
           Row == /\ lock[p] = r
                  /\ inventory' = [inventory EXCEPT ![p] = Written(r)]
                  /\ lock' = [lock EXCEPT ![p] = None]
           RowOnly == Row /\ stamp[r] = None /\ delta[r] = 0 /\ movements' = movements
           RowAndMovement ==
             /\ Row /\ stamp[r] # None /\ delta[r] # 0
             /\ movements' = [movements EXCEPT ![p] = Append(@, Logged(r))]
             /\ Logged(r) \in Movements
<1>a. Nothing \/ RowOnly \/ RowAndMovement
  BY CommitCases
<1>b. Row => Written(r) \in StoredRows
  BY <1>2, WrittenRow DEF Holder
<1>c. /\ inventory \in [Pairs -> StoredRows \cup {None}]
      /\ movements \in [Pairs -> Seq(Movements)]
      /\ lock \in [Pairs -> Requests \cup {None}]
  BY DEF TypeOK
<1>d. None \notin StoredRows
  BY DEF StoredRows
<1>3. /\ lock' \in [Pairs -> Requests \cup {None}]
      /\ lock'[p] # r
      /\ \A q \in Pairs : lock'[q] = lock[q] \/ (lock[q] = r /\ lock'[q] = None)
  <2>1. CASE Nothing
    BY <1>c, <2>1
  <2>2. CASE Row
    BY <1>2, <1>c, <2>2
  <2> QED
    BY <1>a, <2>1, <2>2
<1>4. /\ inventory' \in [Pairs -> StoredRows \cup {None}]
      /\ \A q \in Pairs : lock[q] # r => inventory'[q] = inventory[q]
      /\ \A q \in Pairs : inventory[q] # None => inventory'[q] # None
  <2>1. CASE Nothing
    BY <1>c, <2>1
  <2>2. CASE Row
    BY <1>2, <1>b, <1>c, <1>d, <2>2
  <2> QED
    BY <1>a, <2>1, <2>2
<1>5. /\ movements' \in [Pairs -> Seq(Movements)]
      /\ \A q \in Pairs : lock[q] # r => movements'[q] = movements[q]
      /\ \A q \in Pairs : Recorded(q) \subseteq
           {0} \cup {movements'[q][k].quantity_after : k \in DOMAIN movements'[q]}
  <2>1. CASE movements' = movements
    BY <1>c, <2>1 DEF Recorded
  <2>2. CASE RowAndMovement
    <3>1. /\ movements' \in [Pairs -> Seq(Movements)]
          /\ \A q \in Pairs \ {p} : movements'[q] = movements[q]
          /\ movements'[p] = Append(movements[p], Logged(r))
      BY <1>2, <1>c, <2>2
    <3>2. \A k \in DOMAIN movements[p] : k \in DOMAIN movements'[p]
                                         /\ movements'[p][k] = movements[p][k]
      BY <1>2, <1>c, <2>2, <3>1
    <3> QED
      BY <2>2, <3>1, <3>2 DEF Recorded
  <2> QED
    BY <1>a, <2>1, <2>2
<1> HIDE DEF Nothing, RowOnly, RowAndMovement, Row
<1>6. TypeOK'
  BY <1>1, <1>3, <1>4, <1>5 DEF TypeOK, Steps
<1>7. LockInv'
  <2> SUFFICES ASSUME NEW q \in Pairs, NEW s \in Requests, lock'[q] = s
      PROVE (call[s] # None /\ PairOf(s) = q /\ pc[s] \in {"log", "commit"})'
    BY DEF LockInv
  <2>1. lock[q] = s
    BY <1>3
  <2>2. call[s] # None /\ PairOf(s) = q /\ pc[s] \in {"log", "commit"}
    BY <2>1 DEF LockInv
  <2>3. s # r
    BY <1>3, <2>2
  <2> QED
    BY <1>1, <2>2, <2>3 DEF TypeOK, PairOf
<1>8. ASSUME NEW q \in Requests \ {r}
      PROVE  Loaded(q)' /\ Pending(q)' /\ Flushed(q)'
  <2>1. /\ pc'[q] = pc[q] /\ call'[q] = call[q] /\ obj'[q] = obj[q]
        /\ dirty'[q] = dirty[q] /\ delta'[q] = delta[q] /\ stamp'[q] = stamp[q]
    BY <1>1 DEF TypeOK
  <2>2. Loaded(q) /\ Pending(q) /\ Flushed(q)
    BY DEF SessionInv
  <2>3. CASE call[q] = None
    BY <2>1, <2>2, <2>3 DEF Loaded, Pending, Flushed
  <2>4. CASE call[q] # None
    <3>1. PairOf(q) \in Pairs /\ PairOf(q)' = PairOf(q)
      BY <2>1, <2>4 DEF TypeOK, PairOf, Calls
    <3>2. Recorded(PairOf(q)) \subseteq Recorded(PairOf(q))'
      <4>1. Recorded(PairOf(q))' =
              {0} \cup {movements'[PairOf(q)][k].quantity_after : k \in DOMAIN movements'[PairOf(q)]}
        BY <3>1 DEF Recorded
      <4> QED
        BY <1>5, <3>1, <4>1
    <3>3. inventory[PairOf(q)] # None => inventory'[PairOf(q)] # None
      BY <1>4, <3>1
    <3>4. Loaded(q)' /\ Pending(q)'
      BY <2>1, <2>2, <3>1, <3>2, <3>3 DEF Loaded, Pending
    <3>5. Holder(q)' => Holder(q) /\ lock[PairOf(q)] # r
      BY <1>3, <3>1 DEF Holder
    <3>6. Holder(q) => Holder(q)'
      BY <1>3, <3>1 DEF Holder
    <3>7. Holder(q) => /\ inventory'[PairOf(q)] = inventory[PairOf(q)]
                       /\ movements'[PairOf(q)] = movements[PairOf(q)]
      BY <1>4, <1>5, <3>1 DEF Holder
    <3>8. Flushed(q)'
      BY <2>1, <2>2, <3>1, <3>2, <3>5, <3>6, <3>7 DEF Flushed
    <3> QED
      BY <3>4, <3>8
  <2> QED
    BY <2>3, <2>4
<1>9. Loaded(r)' /\ Pending(r)' /\ Flushed(r)'
  BY <1>1, <1>2 DEF TypeOK, Loaded, Pending, Flushed
<1>10. SessionInv'
  BY <1>8, <1>9 DEF SessionInv
<1>11. AuditInv'
  <2> SUFFICES ASSUME NEW q \in Pairs PROVE Audited(q)'
    BY DEF AuditInv
  <2>1. Audited(q) /\ movements[q] \in Seq(Movements)
    BY DEF AuditInv, TypeOK
  <2>2. CASE movements'[q] = movements[q] /\ QuantityOf(q)' = QuantityOf(q)
    BY <2>1, <2>2 DEF Audited
  <2>3. CASE q = p /\ RowAndMovement
    <3> USE <2>3 DEF RowAndMovement, Row
    <3>1. QuantityOf(q)' = obj[r].quantity
      <4>1. inventory'[q] = Written(r) /\ Written(r) # None
        BY <1>2, <1>b, <1>c, <1>d
      <4> QED
        BY <1>2, <4>1, WrittenRow DEF Holder, QuantityOf
    <3>2. movements'[p] = Append(movements[p], Logged(r))
      BY <1>2, <2>3 DEF TypeOK
    <3>3. \A k \in DOMAIN movements[p] : movements[p][k].at < Logged(r).at
      BY <2>3 DEF SessionInv, Flushed, Logged
    <3>4. Logged(r).quantity_after = obj[r].quantity
      BY DEF Logged
    <3>5. movements'[q] # <<>> /\ Len(movements'[q]) = Len(movements[q]) + 1
          /\ movements'[q][Len(movements'[q])] = Logged(r)
          /\ \A k \in DOMAIN movements[q] : movements'[q][k] = movements[q][k]
          /\ DOMAIN movements'[q] = DOMAIN movements[q] \cup {Len(movements[q]) + 1}
          /\ DOMAIN movements[q] = 1..Len(movements[q]) /\ Len(movements[q]) \in Nat
      BY <2>1, <2>3, <3>2
    <3>6. \A j, k \in DOMAIN movements'[q] : j < k => movements'[q][j].at < movements'[q][k].at
      BY <2>1, <2>3, <3>3, <3>5 DEF Audited
    <3> QED
      BY <2>3, <3>1, <3>4, <3>5, <3>6 DEF Audited
  <2> QED
    <3>1. CASE q # p
      BY <1>2, <1>a, <1>c, <2>2, <3>1 DEF QuantityOf, Nothing, RowOnly, RowAndMovement, Row
    <3>2. CASE Nothing
      BY <2>2, <3>2 DEF QuantityOf, Nothing
    <3>3. CASE q = p /\ RowOnly
      <4>1. Written(r).quantity = QuantityOf(p)
        BY <1>2, <3>3, WrittenRow DEF Holder, RowOnly, Row
      <4>2. inventory'[p] = Written(r) /\ Written(r) # None /\ movements' = movements
        BY <1>2, <1>b, <1>c, <1>d, <3>3 DEF RowOnly, Row
      <4> QED
        BY <2>2, <3>3, <4>1, <4>2 DEF QuantityOf
    <3> QED
      BY <1>a, <2>3, <3>1, <3>2, <3>3
<1> QED
  BY <1>6, <1>7, <1>10, <1>11

(* Every step of every request, and of the rest of the API, keeps the invariant:
   one step per action of Next. *)
THEOREM IInvInductive == IInv /\ [Next]_vars => IInv'
<1> SUFFICES ASSUME IInv, [Next]_vars PROVE IInv'
  OBVIOUS
<1>1. ASSUME NEW r \in Requests, NEW c \in Calls, Receive(r, c) PROVE IInv'
  BY <1>1, ReceiveKeeps
<1>2. ASSUME NEW r \in Requests, Run(r) PROVE IInv'
  BY <1>2, RequireKeeps, ReadCurrentKeeps, ApplyMovementKeeps, LogMovementKeeps, CommitKeeps,
     ReplyKeeps DEF Run, Overflow, Refresh
<1>3. ASSUME NEW r \in Requests, Write(r) PROVE IInv'
  BY <1>3, WriteKeeps
<1>4. ASSUME NEW r \in Requests, Fail(r) PROVE IInv'
  BY <1>4, ReplyKeeps DEF Fail
<1>5. ASSUME NEW x \in Stores \cup Products, Retire(x) PROVE IInv'
  <2> USE <1>5 DEF IInv, Retire, session
  <2>1. TypeOK'
    BY DEF TypeOK
  <2>2. LockInv' /\ AuditInv'
    BY DEF LockInv, PairOf, AuditInv, Audited, QuantityOf
  <2>3. SessionInv'
    BY DEF SessionInv, Loaded, Pending, Flushed, Holder, Recorded, PairOf
  <2> QED
    BY <2>1, <2>2, <2>3
<1>6. CASE UNCHANGED vars
  <2> USE <1>6 DEF IInv, vars
  <2>1. TypeOK' /\ LockInv' /\ AuditInv'
    BY DEF TypeOK, LockInv, PairOf, AuditInv, Audited, QuantityOf
  <2>2. SessionInv'
    BY DEF SessionInv, Loaded, Pending, Flushed, Holder, Recorded, PairOf
  <2> QED
    BY <2>1, <2>2
<1> QED
  BY <1>1, <1>2, <1>3, <1>4, <1>5, <1>6 DEF Next, Idle

-----------------------------------------------------------------------------
(* IInv is an invariant of the two write endpoints. *)
LEMMA InvariantHolds == Spec => []IInv
<1>1. Init => IInv
  BY InitInv
<1>2. IInv /\ [Next]_vars => IInv'
  BY IInvInductive
<1> QED
  BY <1>1, <1>2, PTL DEF Spec

(* The tables never hold a negative or an overflowing quantity, whatever is
   ordered, sold or set, and whichever requests overlap or fail. *)
THEOREM TypeCorrect == Spec => []TypeOK
<1>1. IInv => TypeOK
  BY DEF IInv
<1> QED
  BY <1>1, InvariantHolds, PTL

(* At every moment the newest movement of a pair recorded exactly the quantity
   its row has: row and movement commit together, and in the order of their
   created_at. *)
THEOREM AuditExplainsSnapshot == Spec => []SnapshotMatchesAudit
<1>1. IInv => SnapshotMatchesAudit
  <2> SUFFICES ASSUME IInv, NEW p \in Pairs, movements[p] # <<>>
      PROVE \E k \in DOMAIN movements[p] :
              /\ movements[p][k].quantity_after = QuantityOf(p)
              /\ \A j \in DOMAIN movements[p] \ {k} : movements[p][j].at < movements[p][k].at
    BY DEF SnapshotMatchesAudit, IInv, AuditInv, Audited
  <2>1. movements[p] \in Seq(Movements) /\ Audited(p)
    BY DEF IInv, TypeOK, AuditInv
  <2>2. /\ Len(movements[p]) \in DOMAIN movements[p]
        /\ \A j \in DOMAIN movements[p] \ {Len(movements[p])} : j < Len(movements[p])
    BY <2>1
  <2> WITNESS Len(movements[p]) \in DOMAIN movements[p]
  <2> QED
    BY <2>1, <2>2 DEF Audited
<1> QED
  BY <1>1, InvariantHolds, PTL

(* The initial pairs are initial items of the abstract ledger. *)
LEMMA LedgerInit == Init => Ledger!Init
<1> SUFFICES ASSUME Init, NEW p \in Pairs
    PROVE \/ LedgerStock[p] = 0 /\ LedgerLog[p] = <<>>
          \/ LedgerStock[p] \in 1..MaxInt /\ Ledger!Opened(p, LedgerStock[p])
  BY DEF Ledger!Init, LedgerStock, LedgerLog
<1>1. inventory[p] \in Opening
  BY DEF Init
<1>2. CASE inventory[p] = None
  BY <1>2 DEF Init, LedgerStock, LedgerLog, QuantityOf
<1>3. CASE inventory[p] # None
  <2>1. inventory[p].quantity \in 1..MaxInt
    <3>1. PICK q \in Quantities, t \in Thresholds \cup {None} :
            0 < q /\ q <= MaxInt /\ inventory[p] = [quantity |-> q, reorder_threshold |-> t]
      BY <1>1, <1>3 DEF Opening
    <3> QED
      BY <3>1, ConstantsAssumption
  <2>2. LedgerStock[p] = inventory[p].quantity
    BY <1>3 DEF LedgerStock, QuantityOf
  <2>3. LedgerLog[p] = <<[delta |-> LedgerStock[p], quantity_after |-> LedgerStock[p]]>>
    BY <1>3, <2>2 DEF LedgerLog, Init
  <2> QED
    BY <2>1, <2>2, <2>3 DEF Ledger!Opened
<1> QED
  BY <1>2, <1>3

(* A step that leaves rows' quantities and the log alone stutters. *)
LEMMA LedgerStutter ==
  ASSUME movements' = movements, \A p \in Pairs : QuantityOf(p)' = QuantityOf(p)
  PROVE  UNCHANGED Ledger!vars
  BY DEF Ledger!vars, LedgerStock, LedgerLog

(* A commit is one move of the ledger, which starts where the object's quantity
   stood before the delta, or a stutter. *)
LEMMA CommitMoves ==
  ASSUME IInv, NEW r \in Requests, Commit(r)
  PROVE  \/ UNCHANGED Ledger!vars
         \/ /\ lock[PairOf(r)] = r /\ delta[r] # 0 /\ delta[r] \in Int
            /\ obj[r].quantity \in 0..MaxInt
            /\ Ledger!Move(PairOf(r), obj[r].quantity - delta[r], obj[r].quantity)
<1> DEFINE p == PairOf(r)
           entry == [delta |-> delta[r], quantity_after |-> obj[r].quantity]
<1> USE NoneAssumption, NoneIsNoRecord
<1>1. call[r] # None /\ p \in Pairs /\ pc[r] = "commit"
  BY CommitCases
<1>2. CASE UNCHANGED <<inventory, movements, lock>>
  BY <1>2, LedgerStutter DEF QuantityOf
<1>3. CASE /\ lock[p] = r /\ delta[r] = 0 /\ movements' = movements
           /\ inventory' = [inventory EXCEPT ![p] = Written(r)]
  <2>1. Written(r).quantity = QuantityOf(p) /\ Written(r) # None
    BY <1>1, <1>3, WrittenRow DEF Holder, StoredRows
  <2>2. \A q \in Pairs : QuantityOf(q)' = QuantityOf(q)
    BY <1>1, <1>3, <2>1 DEF QuantityOf, IInv, TypeOK
  <2> QED
    BY <1>3, <2>2, LedgerStutter
<1>4. CASE /\ lock[p] = r /\ delta[r] # 0
           /\ inventory' = [inventory EXCEPT ![p] = Written(r)]
           /\ movements' = [movements EXCEPT ![p] = Append(@, Logged(r))]
           /\ Logged(r) \in Movements
  <2>1. Written(r).quantity = obj[r].quantity /\ Written(r) \in StoredRows
    BY <1>1, <1>4, WrittenRow DEF Holder
  <2>2. LedgerStock' = [LedgerStock EXCEPT ![p] = obj[r].quantity]
    BY <1>1, <1>4, <2>1 DEF LedgerStock, QuantityOf, IInv, TypeOK, StoredRows
  <2>3. LedgerLog' = [LedgerLog EXCEPT ![p] = Append(@, entry)]
    <3>1. movements \in [Pairs -> Seq(Movements)] /\ movements' \in [Pairs -> Seq(Movements)]
      BY <1>1, <1>4 DEF IInv, TypeOK
    <3>2. \A q \in Pairs \ {p} : movements'[q] = movements[q]
      BY <1>4, <3>1
    <3>3. movements'[p] = Append(movements[p], Logged(r))
      BY <1>1, <1>4, <3>1
    <3>4. LedgerLog'[p] = Append(LedgerLog[p], entry)
      BY <1>1, <3>1, <3>3 DEF LedgerLog, Logged
    <3> QED
      BY <1>1, <3>2, <3>4 DEF LedgerLog
  <2>4. delta[r] \in Int /\ obj[r].quantity \in 0..MaxInt
    BY <1>4 DEF Logged, Movements
  <2>5. Ledger!Move(p, obj[r].quantity - delta[r], obj[r].quantity)
    <3> DEFINE n == obj[r].quantity
               base == n - delta[r]
    <3>1. n # base /\ n - base = delta[r]
      BY <1>4, <2>4
    <3>2. entry = [delta |-> n - base, quantity_after |-> n]
      BY <3>1
    <3>3. LedgerLog' = [LedgerLog EXCEPT ![p] =
                          Append(@, [delta |-> n - base, quantity_after |-> n])]
      BY <2>3, <3>2
    <3> HIDE DEF entry
    <3> QED
      BY <2>2, <3>1, <3>3 DEF Ledger!Move
  <2> QED
    BY <1>4, <2>4, <2>5
<1> QED
  BY <1>2, <1>3, <1>4, CommitCases

(* That move starts from a recorded quantity. *)
LEMMA LedgerCommit ==
  ASSUME IInv, NEW r \in Requests, Commit(r)
  PROVE  [Ledger!AuditNext]_(Ledger!vars)
<1>1. CASE UNCHANGED Ledger!vars
  BY <1>1
<1>2. CASE /\ lock[PairOf(r)] = r /\ delta[r] # 0
           /\ obj[r].quantity \in 0..MaxInt
           /\ Ledger!Move(PairOf(r), obj[r].quantity - delta[r], obj[r].quantity)
  <2>1. call[r] # None /\ PairOf(r) \in Pairs /\ pc[r] = "commit"
    BY CommitCases
  <2>2. obj[r].quantity - delta[r] \in Recorded(PairOf(r))
    BY <1>2, <2>1 DEF IInv, SessionInv, Flushed, Holder
  <2>3. Recorded(PairOf(r)) \subseteq Ledger!Recorded(PairOf(r))
    BY <2>1 DEF Recorded, Ledger!Recorded, LedgerLog
  <2> QED
    BY <1>2, <2>1, <2>2, <2>3 DEF Ledger!AuditNext
<1> QED
  BY <1>1, <1>2, CommitMoves

(* Every step is a move of the ledger or a stutter, for only Commit touches stock
   or log. *)
LEMMA LedgerStep == IInv /\ [Next]_vars => [Ledger!AuditNext]_(Ledger!vars)
<1> SUFFICES ASSUME IInv, [Next]_vars PROVE [Ledger!AuditNext]_(Ledger!vars)
  OBVIOUS
<1>1. ASSUME NEW r \in Requests, Commit(r) PROVE [Ledger!AuditNext]_(Ledger!vars)
  BY <1>1, LedgerCommit
<1>2. CASE UNCHANGED <<inventory, movements>>
  BY <1>2, LedgerStutter DEF QuantityOf
<1> QED
  BY <1>1, <1>2 DEF Next, Idle, vars, Receive, Run, Write, Fail, Retire, RequireStore,
     RequireProduct, ReadCurrent, ApplyMovement, Overflow, LogMovement, Refresh, InsertRow,
     UpdateRow, HoldRow, Reply, database, session

(* Requests that overlap still keep an audit ledger: stock and log change in
   one step, the log is never rewritten, and every movement starts from a
   quantity the pair really had, though perhaps no longer has. *)
THEOREM ImplementsAudit == Spec => RefinesAudit
<1> QED
  BY LedgerInit, LedgerStep, InvariantHolds, PTL DEF Spec, RefinesAudit, Ledger!AuditSpec

-----------------------------------------------------------------------------
(* What one request may write.  To IInv, which says what the object in a
   session may be, IntentInv adds how it is related to the payload. *)

(* The quantities that movements of pair p have recorded. *)
Past(p) == {movements[p][k].quantity_after : k \in DOMAIN movements[p]}

(* The UPDATE sets no threshold but the one its payload carries. *)
OwnThreshold(r) ==
  /\ pc[r] \in {"idle", "require_store", "require_product", "read", "apply"} => dirty[r] = {}
  /\ "reorder_threshold" \in dirty[r] =>
       call[r].threshold # None /\ obj[r].reorder_threshold = call[r].threshold

(* What a PUT aims at: the quantity given; beyond that, only what it adds to a
   row that appeared between its two loads. *)
Aimed(r) ==
  (call[r] # None /\ call[r].op = "set" /\ delta[r] # 0) =>
    LET amount == call[r].amount
    IN /\ pc[r] = "apply" => IF obj[r] = None THEN delta[r] = amount
                             ELSE obj[r].quantity + delta[r] = amount
       /\ pc[r] \in {"insert", "update", "log", "commit"} =>
            \/ obj[r].quantity = amount
            \/ delta[r] = amount /\ obj[r].quantity - amount \in Past(PairOf(r))

IntentInv == \A r \in Requests : OwnThreshold(r) /\ Aimed(r)

-----------------------------------------------------------------------------
(* The intent of the other requests depends on their own session and on the
   recorded quantities, which only grow. *)
LEMMA OthersAim ==
  ASSUME TypeOK, IntentInv, NEW r \in Requests, OwnThreshold(r)', Aimed(r)',
         \A p \in Pairs : Past(p) \subseteq Past(p)',
         \A q \in Requests \ {r} :
           /\ pc'[q] = pc[q] /\ call'[q] = call[q] /\ obj'[q] = obj[q]
           /\ dirty'[q] = dirty[q] /\ delta'[q] = delta[q]
  PROVE  IntentInv'
<1> SUFFICES ASSUME NEW q \in Requests \ {r} PROVE OwnThreshold(q)' /\ Aimed(q)'
  BY DEF IntentInv
<1>1. OwnThreshold(q) /\ Aimed(q)
  BY DEF IntentInv
<1>2. call[q] # None => PairOf(q) \in Pairs /\ PairOf(q)' = PairOf(q)
  BY DEF TypeOK, PairOf, Calls
<1>3. OwnThreshold(q)'
  BY <1>1 DEF OwnThreshold
<1>4. Aimed(q)'
  BY <1>1, <1>2 DEF Aimed
<1> QED
  BY <1>3, <1>4

(* A request that ends intends nothing. *)
LEMMA ReplyAims ==
  ASSUME TypeOK, IntentInv, NEW r \in Requests, Reply(r)
  PROVE  IntentInv'
<1>1. OwnThreshold(r)' /\ Aimed(r)'
  BY DEF TypeOK, Reply, OwnThreshold, Aimed
<1>2. \A p \in Pairs : Past(p) \subseteq Past(p)'
  BY DEF Reply, Past
<1> QED
  BY <1>1, <1>2, OthersAim DEF Reply, TypeOK

(* Up to the first load nothing is derived from the payload. *)
LEMMA EarlyAims ==
  ASSUME IInv, IntentInv, NEW r \in Requests,
         \/ \E c \in Calls : Receive(r, c)
         \/ RequireStore(r) \/ RequireProduct(r)
  PROVE  IntentInv'
<1> USE NoneAssumption, NoneIsNoRecord DEF IInv
<1>1. CASE Reply(r)
  BY <1>1, ReplyAims
<1>2. CASE ~Reply(r)
  <2> USE <1>2 DEF TypeOK, Receive, RequireStore, RequireProduct, Goto, database, session
  <2>1. pc[r] \in {"idle", "require_store", "require_product"} /\ dirty[r] = {} /\ obj[r] = None
    BY DEF IntentInv, OwnThreshold, SessionInv, Loaded
  <2>2. dirty' = dirty /\ obj' = obj /\ movements' = movements
    OBVIOUS
  <2>3. call'[r] # None /\ call'[r].op = "set" =>
          pc'[r] \in {"require_store", "require_product", "read"}
    OBVIOUS
  <2>4. OwnThreshold(r)' /\ Aimed(r)'
    BY <2>1, <2>2, <2>3 DEF OwnThreshold, Aimed
  <2> QED
    BY <2>2, <2>4, OthersAim DEF Past
<1> QED
  BY <1>1, <1>2

(* The columns a PUT's threshold changes, and to what. *)
LEMMA OwnChange ==
  ASSUME NEW row \in Rows, NEW moved \in Rows, NEW t,
         moved.reorder_threshold = row.reorder_threshold,
         "reorder_threshold" \in Changed(row, WithThreshold(moved, t))
  PROVE  t # None /\ WithThreshold(moved, t).reorder_threshold = t
  BY DEF Rows, Changed, WithThreshold

(* set_absolute_quantity derives a delta that leads from what it loaded to the
   quantity given. *)
LEMMA ReadCurrentAims ==
  ASSUME IInv, IntentInv, NEW r \in Requests, ReadCurrent(r)
  PROVE  IntentInv'
<1> DEFINE p == PairOf(r)
           row == inventory[p]
           current == QuantityOf(p)
           new == WithThreshold(row, call[r].threshold)
<1> USE NoneAssumption, NoneIsNoRecord
<1>1. /\ pc[r] = "read" /\ dirty[r] = {} /\ call[r] \in Calls /\ p \in Pairs
      /\ row \in StoredRows \cup {None} /\ current \in Nat
  <2>1. pc[r] = "read" /\ dirty[r] = {} /\ call[r] # None
    BY DEF ReadCurrent, IInv, SessionInv, Loaded, IntentInv, OwnThreshold
  <2>2. call[r] \in Calls /\ p \in Pairs
    BY <2>1 DEF IInv, TypeOK, PairOf, Calls
  <2> QED
    BY <2>1, <2>2 DEF IInv, TypeOK, QuantityOf, StoredRows, Rows
<1>2. call[r].amount \in Int
  <2>1. call[r].amount \in Quantities \cup Deltas
    BY <1>1 DEF Calls
  <2>2. Quantities \subseteq Int /\ Deltas \subseteq Int
    BY ConstantsAssumption
  <2> QED
    BY <2>1, <2>2
<1>3. delta'[r] = call[r].amount - current /\ UNCHANGED <<database, call, stamp>>
  BY <1>1 DEF ReadCurrent, QuantityOf, IInv, TypeOK
<1>4. OwnThreshold(r)' /\ Aimed(r)'
  <2>1. CASE call[r].amount # current
    <3>1. pc'[r] = "apply" /\ obj'[r] = row /\ dirty'[r] = {}
      BY <1>1, <2>1 DEF ReadCurrent, QuantityOf, Goto, IInv, TypeOK
    <3> QED
      BY <1>1, <1>2, <1>3, <3>1 DEF OwnThreshold, Aimed, QuantityOf, StoredRows, Rows
  <2>2. CASE call[r].amount = current /\ row = None
    <3>1. pc'[r] = "insert" /\ dirty'[r] = {} /\ delta'[r] = 0
      BY <1>1, <1>2, <1>3, <2>2 DEF ReadCurrent, QuantityOf, Goto, IInv, TypeOK
    <3> QED
      BY <3>1 DEF OwnThreshold, Aimed
  <2>3. CASE call[r].amount = current /\ row # None
    <3>1. /\ pc'[r] \in {"update", "commit"} /\ delta'[r] = 0
          /\ obj'[r] = new /\ dirty'[r] = Changed(row, new)
      BY <1>1, <1>2, <1>3, <2>3 DEF ReadCurrent, QuantityOf, Goto, IInv, TypeOK
    <3>2. "reorder_threshold" \in dirty'[r] =>
            call[r].threshold # None /\ new.reorder_threshold = call[r].threshold
      BY <1>1, <2>3, <3>1, OwnChange DEF StoredRows
    <3> QED
      BY <1>3, <3>1, <3>2 DEF OwnThreshold, Aimed
  <2> QED
    BY <2>1, <2>2, <2>3
<1>5. \A q \in Requests \ {r} :
        /\ pc'[q] = pc[q] /\ call'[q] = call[q] /\ obj'[q] = obj[q]
        /\ dirty'[q] = dirty[q] /\ delta'[q] = delta[q]
  BY DEF ReadCurrent, Goto, IInv, TypeOK
<1> QED
  BY <1>3, <1>4, <1>5, OthersAim DEF IInv, Past, database

(* apply_movement reaches the quantity given, or, when a row has appeared since
   the first load, adds to what that row was recorded at. *)
LEMMA ApplyMovementAims ==
  ASSUME IInv, IntentInv, NEW r \in Requests, ApplyMovement(r)
  PROVE  IntentInv'
<1> DEFINE p == PairOf(r)
           row == LoadedRow(r)
           moved == [row EXCEPT !.quantity = @ + delta[r]]
           new == WithThreshold(moved, call[r].threshold)
<1> USE NoneAssumption, NoneIsNoRecord
<1>1. /\ pc[r] = "apply" /\ delta[r] \in Int /\ call[r] \in Calls /\ p \in Pairs
      /\ row \in Rows \cup {None}
  <2>1. pc[r] = "apply" /\ call[r] # None
    BY DEF ApplyMovement, IInv, SessionInv, Loaded
  <2>2. call[r] \in Calls /\ p \in Pairs /\ delta[r] \in Int
    BY <2>1 DEF IInv, TypeOK, PairOf, Calls
  <2> QED
    BY <2>1, <2>2 DEF IInv, TypeOK, StoredRows, LoadedRow
<1>2. call[r].amount \in Int /\ call[r].threshold \in Thresholds \cup {None}
  <2>1. call[r].amount \in Quantities \cup Deltas /\ call[r].threshold \in Thresholds \cup {None}
    BY <1>1 DEF Calls
  <2>2. Quantities \subseteq Int /\ Deltas \subseteq Int
    BY ConstantsAssumption
  <2> QED
    BY <2>1, <2>2
<1>3. OwnThreshold(r) /\ Aimed(r)
  BY DEF IntentInv
<1>4. CASE Reply(r)
  BY <1>4, ReplyAims DEF IInv
<1>5. CASE ~Reply(r)
  <2>1. UNCHANGED <<database, call, delta, stamp>>
    BY <1>5 DEF ApplyMovement
  <2>2. OwnThreshold(r)' /\ Aimed(r)'
    <3>1. CASE row = None
      <4>1. /\ pc'[r] = "insert" /\ dirty'[r] = dirty[r] /\ obj[r] = None
            /\ obj'[r] = [quantity |-> delta[r], reorder_threshold |-> call[r].threshold]
        BY <1>5, <3>1 DEF ApplyMovement, LoadedRow, Goto, IInv, TypeOK
      <4>2. call[r].op = "set" /\ delta[r] # 0 => delta[r] = call[r].amount
        BY <1>1, <1>3, <4>1 DEF Aimed
      <4> QED
        BY <1>1, <1>3, <2>1, <4>1, <4>2 DEF OwnThreshold, Aimed
    <3>2. CASE row # None
      <4>1. /\ pc'[r] = "update" /\ obj'[r] = new /\ dirty'[r] = Changed(row, new)
        BY <1>5, <3>2 DEF ApplyMovement, Goto, IInv, TypeOK
      <4>2. row.quantity + delta[r] >= 0
        BY <1>1, <1>5, <3>2 DEF ApplyMovement, Insufficient, Rows
      <4>3. moved \in Rows /\ moved.quantity = row.quantity + delta[r]
            /\ moved.reorder_threshold = row.reorder_threshold
        BY <1>1, <3>2, <4>2 DEF Rows
      <4>4. new.quantity = row.quantity + delta[r]
        BY <1>2, <4>3, WithThresholdType
      <4>5. "reorder_threshold" \in dirty'[r] =>
            call[r].threshold # None /\ new.reorder_threshold = call[r].threshold
        <5>1. row \in Rows
          BY <1>1, <3>2
        <5> HIDE DEF moved, row
        <5> QED
          BY <4>1, <4>3, <5>1, OwnChange
      <4>6. call[r].op = "set" /\ delta[r] # 0 =>
              \/ new.quantity = call[r].amount
              \/ delta[r] = call[r].amount /\ new.quantity - call[r].amount \in Past(p)
        <5> SUFFICES ASSUME call[r].op = "set", delta[r] # 0, obj[r] = None
            PROVE  \/ new.quantity = call[r].amount
                   \/ delta[r] = call[r].amount /\ new.quantity - call[r].amount \in Past(p)
          BY <1>1, <1>3, <3>2, <4>4 DEF Aimed, LoadedRow
        <5>1. delta[r] = call[r].amount /\ row = inventory[p]
          BY <1>1, <1>3 DEF Aimed, LoadedRow
        <5>2. QuantityOf(p) = row.quantity /\ row.quantity \in Nat
          BY <1>1, <3>2, <5>1 DEF QuantityOf, Rows
        <5>3. QuantityOf(p) \in Recorded(p)
          BY <1>1, CurrentIsRecorded DEF IInv
        <5>4. QuantityOf(p) = 0 \/ QuantityOf(p) \in Past(p)
          BY <5>3 DEF Recorded, Past
        <5> QED
          BY <1>1, <4>4, <5>1, <5>2, <5>4
      <4> QED
        BY <2>1, <4>1, <4>5, <4>6 DEF OwnThreshold, Aimed, Past, PairOf, database
    <3> QED
      BY <3>1, <3>2
  <2>3. \A q \in Requests \ {r} :
          /\ pc'[q] = pc[q] /\ call'[q] = call[q] /\ obj'[q] = obj[q]
          /\ dirty'[q] = dirty[q] /\ delta'[q] = delta[q]
    BY <1>5, <2>1 DEF ApplyMovement, Goto, IInv, TypeOK
  <2> QED
    BY <2>1, <2>2, <2>3, OthersAim DEF IInv, Past, database
<1> QED
  BY <1>4, <1>5

(* From the flush to the commit the object and the payload stay as they are,
   and the log only grows. *)
LEMMA FlushedAims ==
  ASSUME IInv, IntentInv, NEW r \in Requests,
         Write(r) \/ LogMovement(r) \/ Commit(r)
  PROVE  IntentInv'
<1> USE NoneAssumption DEF IInv
<1>1. CASE Reply(r)
  BY <1>1, ReplyAims
<1>2. CASE ~Reply(r)
  <2>1. /\ UNCHANGED <<call, obj, dirty, delta>>
        /\ pc' = [pc EXCEPT ![r] = pc'[r]]
        /\ pc[r] \in {"insert", "update", "log", "commit"}
        /\ pc'[r] \in {"log", "commit", "refresh"}
    BY <1>2 DEF Write, InsertRow, UpdateRow, HoldRow, LogMovement, Commit, Goto, session,
       database, TypeOK
  <2>2. \A p \in Pairs : Past(p) \subseteq Past(p)'
    <3>1. CASE movements' = movements
      BY <3>1 DEF Past
    <3>2. CASE Commit(r)
      <4> DEFINE own == PairOf(r)
      <4>1. CASE /\ Logged(r) \in Movements
                 /\ movements' = [movements EXCEPT ![own] = Append(@, Logged(r))]
        <5> SUFFICES ASSUME NEW p \in Pairs PROVE Past(p) \subseteq Past(p)'
          OBVIOUS
        <5>1. movements[p] \in Seq(Movements)
          BY DEF TypeOK
        <5>2. movements'[p] \in {movements[p], Append(movements[p], Logged(r))}
          BY <4>1 DEF TypeOK
        <5> QED
          BY <4>1, <5>1, <5>2 DEF Past
      <4> QED
        BY <3>1, <3>2, <4>1, CommitCases
    <3> QED
      BY <1>2, <3>1, <3>2 DEF Write, InsertRow, UpdateRow, HoldRow, LogMovement, database
  <2>3. call[r] # None => PairOf(r) \in Pairs /\ PairOf(r)' = PairOf(r)
    BY <2>1 DEF TypeOK, PairOf, Calls
  <2>4. OwnThreshold(r)'
    BY <2>1 DEF IntentInv, OwnThreshold
  <2>5. Aimed(r)'
    BY <2>1, <2>2, <2>3 DEF IntentInv, Aimed
  <2> QED
    BY <2>1, <2>2, <2>4, <2>5, OthersAim DEF TypeOK
<1> QED
  BY <1>1, <1>2

(* No step of any request makes a session intend anything but its payload. *)
THEOREM IntentInductive == IInv /\ IntentInv /\ [Next]_vars => IntentInv'
<1> SUFFICES ASSUME IInv, IntentInv, [Next]_vars PROVE IntentInv'
  OBVIOUS
<1>1. ASSUME NEW r \in Requests, NEW c \in Calls, Receive(r, c) PROVE IntentInv'
  BY <1>1, EarlyAims
<1>2. ASSUME NEW r \in Requests, Run(r) PROVE IntentInv'
  BY <1>2, EarlyAims, ReadCurrentAims, ApplyMovementAims, FlushedAims, ReplyAims
  DEF Run, Overflow, Refresh, IInv
<1>3. ASSUME NEW r \in Requests, Write(r) PROVE IntentInv'
  BY <1>3, FlushedAims
<1>4. ASSUME NEW r \in Requests, Fail(r) PROVE IntentInv'
  BY <1>4, ReplyAims DEF Fail, IInv
<1>5. CASE UNCHANGED <<movements, pc, session>>
  BY <1>5 DEF IntentInv, OwnThreshold, Aimed, Past, PairOf, session
<1> QED
  BY <1>1, <1>2, <1>3, <1>4, <1>5 DEF Next, Idle, Retire, vars, session

(* IInv and IntentInv hold together in every state. *)
LEMMA IntentHolds == Spec => [](IInv /\ IntentInv)
<1>1. Init => IInv /\ IntentInv
  BY InitInv DEF Init, IntentInv, OwnThreshold, Aimed
<1>2. IInv /\ IntentInv /\ [Next]_vars => (IInv /\ IntentInv)'
  BY IInvInductive, IntentInductive
<1> QED
  BY <1>1, <1>2, PTL DEF Spec

-----------------------------------------------------------------------------
(* A commit is the only step that touches a row or ends a PUT's write. *)
LEMMA OnlyCommits ==
  ASSUME IInv, [Next]_vars
  PROVE  /\ inventory' = inventory \/ \E r \in Requests : Commit(r)
         /\ \A r \in Requests : pc[r] = "commit" /\ pc'[r] = "refresh" => Commit(r)
<1> USE DEF IInv
<1>1. CASE inventory' = inventory
  <2> SUFFICES ASSUME NEW r \in Requests, pc[r] = "commit", pc'[r] = "refresh"
      PROVE Commit(r)
    BY <1>1
  <2>1. pc \in [Requests -> Steps]
    BY DEF TypeOK
  <2>2. PICK q \in Requests : \/ \E c \in Calls : Receive(q, c)
                             \/ Run(q) \/ Write(q) \/ Fail(q)
    BY DEF Next, Idle, Retire, vars
  <2> QED
    BY <2>1, <2>2 DEF Receive, Run, Write, Fail, RequireStore, RequireProduct, ReadCurrent,
       ApplyMovement, Overflow, LogMovement, Refresh, InsertRow, UpdateRow, HoldRow, Reply,
       Goto, Commit
<1>2. CASE inventory' # inventory
  <2>1. PICK q \in Requests : Commit(q)
    BY <1>2 DEF Next, Idle, vars, Receive, Run, Write, Fail, Retire, RequireStore,
       RequireProduct, ReadCurrent, ApplyMovement, Overflow, LogMovement, Refresh, InsertRow,
       UpdateRow, HoldRow, Reply, database, session
  <2>2. pc' = [pc EXCEPT ![q] = "refresh"]
    BY <2>1 DEF Commit, Goto
  <2> QED
    BY <2>1, <2>2 DEF TypeOK
<1> QED
  BY <1>1, <1>2

(* However requests overlap, a PUT that changes the stock leaves the quantity it
   was given, or has added it to one that another request recorded. *)
THEOREM PutsSetOrAdd == Spec => PutSetsOrAdds
<1> DEFINE SetOrAdd(r) ==
      PutCommits(r) =>
        LET q == inventory'[PairOf(r)].quantity
        IN \/ q = call[r].amount
           \/ /\ delta[r] = call[r].amount
              /\ \E k \in DOMAIN movements[PairOf(r)] :
                   movements[PairOf(r)][k].quantity_after = q - call[r].amount
<1>1. IInv /\ IntentInv /\ [Next]_vars => \A r \in Requests : SetOrAdd(r)
  <2> SUFFICES ASSUME IInv, IntentInv, [Next]_vars, NEW r \in Requests, PutCommits(r)
      PROVE SetOrAdd(r)
    OBVIOUS
  <2> DEFINE p == PairOf(r)
  <2>1. Commit(r) /\ pc[r] = "commit" /\ call[r].op = "set" /\ delta[r] # 0
    BY OnlyCommits DEF PutCommits
  <2>2. call[r] # None /\ p \in Pairs
    BY <2>1, CommitCases
  <2>3. lock[p] = r /\ inventory' = [inventory EXCEPT ![p] = Written(r)]
    BY <2>1, CommitCases DEF IInv, SessionInv, Flushed, Holder
  <2>4. inventory'[p].quantity = obj[r].quantity
    BY <2>1, <2>2, <2>3, WrittenRow DEF Holder, IInv, TypeOK
  <2>5. \/ obj[r].quantity = call[r].amount
        \/ delta[r] = call[r].amount /\ obj[r].quantity - call[r].amount \in Past(p)
    BY <2>1, <2>2 DEF IntentInv, Aimed
  <2> QED
    BY <2>4, <2>5 DEF Past
<1> QED
  BY <1>1, IntentHolds, PTL DEF Spec, PutSetsOrAdds

(* The threshold of a row changes only to the one that the committing PUT
   carries: a request that carries none, a movement among them, never writes
   back the one it had loaded, null included. *)
THEOREM ThresholdsNeverFallBack == Spec => ThresholdsKept
<1> DEFINE Kept(p) ==
      (inventory[p] # None /\ inventory'[p].reorder_threshold # inventory[p].reorder_threshold)
        => \E r \in InFlight(p) : /\ pc[r] = "commit" /\ pc'[r] = "refresh"
                                  /\ call[r].op = "set" /\ call[r].threshold # None
                                  /\ inventory'[p].reorder_threshold = call[r].threshold
<1>1. IInv /\ IntentInv /\ [Next]_vars => \A p \in Pairs : Kept(p)
  <2> SUFFICES ASSUME IInv, IntentInv, [Next]_vars, NEW p \in Pairs, inventory[p] # None,
                      inventory'[p].reorder_threshold # inventory[p].reorder_threshold
      PROVE Kept(p)
    OBVIOUS
  <2>1. PICK r \in Requests : Commit(r)
    BY OnlyCommits
  <2>2. /\ call[r] # None /\ PairOf(r) \in Pairs /\ pc[r] = "commit"
        /\ inventory' \in {inventory, [inventory EXCEPT ![PairOf(r)] = Written(r)]}
    BY <2>1, CommitCases
  <2>3. p = PairOf(r) /\ inventory'[p] = Written(r)
    BY <2>2 DEF IInv, TypeOK
  <2>4. pc'[r] = "refresh"
    BY <2>1 DEF Commit, Goto, IInv, TypeOK
  <2>5. inventory'[p] = [c \in Columns |-> IF c \in dirty[r] THEN obj[r][c] ELSE inventory[p][c]]
    BY <2>3 DEF Written
  <2>6. /\ "reorder_threshold" \in dirty[r]
        /\ inventory'[p].reorder_threshold = obj[r].reorder_threshold
    BY <2>5 DEF Columns
  <2>7. call[r].threshold # None /\ obj[r].reorder_threshold = call[r].threshold
    BY <2>6 DEF IntentInv, OwnThreshold
  <2>8. call[r].op = "set"
    BY <2>2, <2>7 DEF IInv, TypeOK, Calls
  <2> QED
    BY <2>2, <2>3, <2>4, <2>6, <2>7, <2>8 DEF InFlight
<1> QED
  BY <1>1, IntentHolds, PTL DEF Spec, ThresholdsKept
=============================================================================
