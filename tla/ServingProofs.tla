--------------------------- MODULE ServingProofs ---------------------------
(***************************************************************************)
(* Proofs about requests that do not overlap, for any stores, products,    *)
(* requests, payloads, pool sizes and bounds: on a pair whose requests     *)
(* have always come one after the other, the ledger is strict, the deltas  *)
(* add up to the stock, and PUT is absolute, whatever happens elsewhere.   *)
(*                                                                         *)
(* Serving adds to Inventory only the history apart, so IInv and IntentInv *)
(* hold of it as they stand.  ApartInv says what such a pair's one request *)
(* knows: what it has loaded is what is committed.                         *)
(***************************************************************************)
EXTENDS Serving, InventoryProofs, WellFoundedInduction

(* The quantity before movement k of a log. *)
Before(m, k) == IF k = 1 THEN 0 ELSE m[k - 1].quantity_after

(* Every movement starts where the one before it ended. *)
Chained(p) ==
  \A k \in DOMAIN movements[p] :
    movements[p][k].delta = movements[p][k].quantity_after - Before(movements[p], k)

(* What the request holds is what is committed, and leads to what it was given. *)
Fresh(r) ==
  LET p == PairOf(r)
      set == call[r].op = "set"
      flushing == pc[r] \in {"insert", "update", "log", "commit"} /\ delta[r] # 0
  IN /\ pc[r] = "apply" => /\ obj[r] \in {None, inventory[p]}
                           /\ set => obj[r] = inventory[p]
     /\ pc[r] = "insert" => inventory[p] = None
     /\ flushing => /\ obj[r].quantity = QuantityOf(p) + delta[r]
                    /\ set => obj[r].quantity = call[r].amount

ApartInv ==
  \A p \in Pairs : apart[p] => /\ \A q, r \in InFlight(p) : q = r
                               /\ \A r \in InFlight(p) : Fresh(r)
                               /\ Chained(p)

-----------------------------------------------------------------------------
(* What a request that is alone on its pair does keeps it fresh: it loads what
   is committed, and nobody replaces that before it commits. *)
LEMMA OwnStepFresh ==
  ASSUME IInv, IntentInv, NEW r \in Requests, call[r] # None, Fresh(r),
         Run(r) \/ Write(r) \/ Fail(r), call'[r] # None
  PROVE  call'[r] = call[r] /\ Fresh(r)'
<1> DEFINE p == PairOf(r)
<1> USE NoneAssumption, NoneIsNoRecord
<1>1. /\ call[r] \in Calls /\ p \in Pairs /\ delta[r] \in Int /\ obj[r] \in Rows \cup {None}
      /\ inventory[p] \in StoredRows \cup {None}
  BY DEF IInv, TypeOK, PairOf, Calls
<1>2. ~Reply(r)
  BY DEF Reply, IInv, TypeOK
<1>3. CASE RequireStore(r) \/ RequireProduct(r)
  <2>1. obj[r] = None /\ UNCHANGED <<database, session>>
    BY <1>2, <1>3 DEF RequireStore, RequireProduct, IInv, SessionInv, Loaded
  <2>2. pc'[r] \in {"require_product", "read", "apply"} /\ (pc'[r] = "apply" => call[r].op # "set")
    BY <1>2, <1>3 DEF RequireStore, RequireProduct, Goto, IInv, TypeOK
  <2> QED
    BY <2>1, <2>2 DEF Fresh, session
<1>4. CASE ReadCurrent(r)
  <2>1. /\ UNCHANGED <<database, call>> /\ pc'[r] \in {"apply", "insert", "update", "commit"}
        /\ pc'[r] = "apply" => obj'[r] = inventory[p]
        /\ pc'[r] = "insert" => inventory[p] = None
        /\ pc'[r] # "apply" => delta'[r] = call[r].amount - QuantityOf(p)
        /\ pc'[r] # "apply" => call[r].amount = QuantityOf(p)
    BY <1>4 DEF ReadCurrent, QuantityOf, Goto, IInv, TypeOK
  <2>2. QuantityOf(p) \in Int
    BY <1>1 DEF QuantityOf, StoredRows, Rows
  <2>3. pc'[r] # "apply" => delta'[r] = 0
    BY <2>1, <2>2
  <2> QED
    BY <2>1, <2>3 DEF Fresh, PairOf, database
<1>5. CASE ApplyMovement(r)
  <2> DEFINE row == LoadedRow(r)
             moved == [row EXCEPT !.quantity = @ + delta[r]]
             new == WithThreshold(moved, call[r].threshold)
  <2>1. /\ UNCHANGED <<database, call, delta>> /\ pc[r] = "apply"
        /\ row = inventory[p]
        /\ call[r].op = "set" => obj[r] = inventory[p]
    BY <1>2, <1>5 DEF ApplyMovement, Fresh, LoadedRow
  <2>2. PairOf(r)' = p /\ QuantityOf(p)' = QuantityOf(p)
    BY <2>1 DEF PairOf, QuantityOf, database
  <2>3. CASE row = None
    <3>1. pc'[r] = "insert" /\ obj'[r].quantity = delta[r]
      BY <1>2, <1>5, <2>3 DEF ApplyMovement, Goto, IInv, TypeOK
    <3>2. call[r].op = "set" /\ delta[r] # 0 => delta[r] = call[r].amount
      BY <2>1, <2>3 DEF IntentInv, Aimed
    <3> QED
      BY <1>1, <2>1, <2>2, <2>3, <3>1, <3>2 DEF Fresh, QuantityOf, database
  <2>4. CASE row # None
    <3>1. pc'[r] = "update" /\ obj'[r] = new /\ row.quantity + delta[r] >= 0
      BY <1>1, <1>2, <1>5, <2>1, <2>4 DEF ApplyMovement, Insufficient, Goto, IInv, TypeOK,
         StoredRows, Rows
    <3>2. moved \in Rows /\ moved.quantity = row.quantity + delta[r]
      BY <1>1, <2>1, <2>4, <3>1 DEF StoredRows, Rows
    <3>3. call[r].threshold \in Thresholds \cup {None}
      BY <1>1 DEF Calls
    <3>4. obj'[r].quantity = row.quantity + delta[r]
      BY <3>1, <3>2, <3>3, WithThresholdType
    <3>5. call[r].op = "set" /\ delta[r] # 0 => row.quantity + delta[r] = call[r].amount
      BY <2>1, <2>4 DEF IntentInv, Aimed
    <3> QED
      BY <2>1, <2>2, <2>4, <3>1, <3>4, <3>5 DEF Fresh, QuantityOf
  <2> QED
    BY <2>3, <2>4
<1>6. CASE Write(r) \/ LogMovement(r)
  <2>1. /\ UNCHANGED <<inventory, call, obj, delta>>
        /\ pc[r] \in {"insert", "update", "log"} /\ pc'[r] \in {"log", "commit"}
    BY <1>2, <1>6 DEF Write, InsertRow, UpdateRow, HoldRow, LogMovement, Goto, session, database,
       IInv, TypeOK
  <2> QED
    BY <2>1 DEF Fresh, PairOf, QuantityOf
<1>7. CASE Commit(r)
  <2>1. call' = call /\ pc'[r] = "refresh"
    BY <1>7 DEF Commit, Goto, IInv, TypeOK
  <2> QED
    BY <2>1 DEF Fresh
<1> QED
  BY <1>2, <1>3, <1>4, <1>5, <1>6, <1>7 DEF Run, Overflow, Refresh, Fail, session

(* Nothing but a commit of one of its own requests touches a pair. *)
LEMMA OnlyOwnCommits ==
  ASSUME IInv, [Next]_vars, NEW p \in Pairs
  PROVE  \/ inventory'[p] = inventory[p] /\ movements'[p] = movements[p]
         \/ \E r \in InFlight(p) : Commit(r)
<1>1. CASE UNCHANGED <<inventory, movements>>
  BY <1>1
<1>2. ASSUME NEW r \in Requests, Commit(r)
      PROVE  \/ inventory'[p] = inventory[p] /\ movements'[p] = movements[p]
             \/ r \in InFlight(p)
  BY <1>2, CommitCases DEF InFlight, IInv, TypeOK
<1> QED
  BY <1>1, <1>2 DEF Next, Idle, vars, Receive, Run, Write, Fail, Retire, RequireStore,
     RequireProduct, ReadCurrent, ApplyMovement, Overflow, LogMovement, Refresh, InsertRow,
     UpdateRow, HoldRow, Reply, database, session

(* A request moves only its own session. *)
LEMMA OwnSession ==
  ASSUME IInv, [Next]_vars, NEW r \in Requests
  PROVE  \/ /\ pc'[r] = pc[r] /\ call'[r] = call[r] /\ obj'[r] = obj[r]
            /\ dirty'[r] = dirty[r] /\ delta'[r] = delta[r]
            /\ ~Commit(r)
         \/ Run(r) \/ Write(r) \/ Fail(r)
         \/ pc[r] = "idle" /\ pc'[r] = "require_store"
<1>1. TypeOK
  BY DEF IInv
<1>2. ASSUME NEW q \in Requests \ {r}, NEW c \in Calls, Receive(q, c)
      PROVE  UNCHANGED <<pc[r], call[r], obj[r], dirty[r], delta[r]>>
  BY <1>1, <1>2 DEF Receive, Goto, TypeOK
<1>3. ASSUME NEW q \in Requests \ {r}, Reply(q)
      PROVE  UNCHANGED <<pc[r], call[r], obj[r], dirty[r], delta[r]>>
  BY <1>1, <1>3 DEF Reply, TypeOK
<1>4. ASSUME NEW q \in Requests \ {r}, Run(q) \/ Write(q) \/ Fail(q)
      PROVE  UNCHANGED <<pc[r], call[r], obj[r], dirty[r], delta[r]>>
  BY <1>1, <1>3, <1>4 DEF TypeOK, Run, Write, Fail, RequireStore, RequireProduct, ReadCurrent,
     ApplyMovement, Overflow, LogMovement, Commit, Refresh, InsertRow, UpdateRow, HoldRow, Goto,
     session
<1>5. ASSUME NEW c \in Calls, Receive(r, c)
      PROVE  pc[r] = "idle" /\ pc'[r] = "require_store"
  BY <1>1, <1>5 DEF Receive, Goto, TypeOK
<1>6. Commit(r) => Run(r)
  BY DEF Run
<1>7. CASE UNCHANGED <<pc, session>>
  BY <1>6, <1>7 DEF session
<1>8. CASE \E q \in Requests : (\E c \in Calls : Receive(q, c)) \/ Run(q) \/ Write(q) \/ Fail(q)
  <2>1. PICK q \in Requests : (\E c \in Calls : Receive(q, c)) \/ Run(q) \/ Write(q) \/ Fail(q)
    BY <1>8
  <2>2. CASE q = r
    BY <1>5, <1>6, <2>1, <2>2
  <2>3. CASE q # r
    BY <1>2, <1>4, <1>6, <2>1, <2>3
  <2> QED
    BY <2>2, <2>3
<1> QED
  BY <1>7, <1>8 DEF Next, Idle, Retire, vars, session

(* The movement of a fresh request continues the chain. *)
LEMMA ChainGrows ==
  ASSUME IInv, NEW r \in Requests, Commit(r), Fresh(r), Chained(PairOf(r))
  PROVE  Chained(PairOf(r))'
<1> DEFINE p == PairOf(r)
           m == movements[p]
<1>1. /\ call[r] # None /\ p \in Pairs /\ pc[r] = "commit" /\ PairOf(r)' = p
      /\ m \in Seq(Movements) /\ Audited(p)
  BY CommitCases DEF IInv, TypeOK, AuditInv, Commit, PairOf
<1>2. CASE movements' = movements
  BY <1>1, <1>2 DEF Chained
<1>3. CASE delta[r] # 0 /\ Logged(r) \in Movements
           /\ movements' = [movements EXCEPT ![p] = Append(@, Logged(r))]
  <2>1. movements'[p] = Append(m, Logged(r))
    BY <1>1, <1>3 DEF IInv, TypeOK
  <2>2. /\ DOMAIN Append(m, Logged(r)) = 1..(Len(m) + 1) /\ DOMAIN m = 1..Len(m) /\ Len(m) \in Nat
        /\ Append(m, Logged(r))[Len(m) + 1] = Logged(r)
        /\ \A k \in 1..Len(m) : Append(m, Logged(r))[k] = m[k]
    BY <1>1, <1>3
  <2>3. Logged(r).delta = delta[r] /\ Logged(r).quantity_after = QuantityOf(p) + delta[r]
    BY <1>1, <1>3 DEF Fresh, Logged
  <2>4. Before(Append(m, Logged(r)), Len(m) + 1) = QuantityOf(p)
    BY <1>1, <2>2 DEF Before, Audited
  <2>5. QuantityOf(p) \in Int /\ delta[r] \in Int
    BY <1>1 DEF IInv, TypeOK, QuantityOf, StoredRows, Rows
  <2>6. Append(m, Logged(r))[Len(m) + 1].delta =
          Append(m, Logged(r))[Len(m) + 1].quantity_after
            - Before(Append(m, Logged(r)), Len(m) + 1)
    BY <2>2, <2>3, <2>4, <2>5
  <2>7. \A k \in 1..Len(m) : Before(Append(m, Logged(r)), k) = Before(m, k)
    BY <2>2 DEF Before
  <2>8. \A k \in DOMAIN Append(m, Logged(r)) :
          Append(m, Logged(r))[k].delta =
            Append(m, Logged(r))[k].quantity_after - Before(Append(m, Logged(r)), k)
    BY <2>2, <2>6, <2>7 DEF Chained
  <2> QED
    BY <1>1, <2>1, <2>8 DEF Chained
<1> QED
  BY <1>2, <1>3, CommitCases

-----------------------------------------------------------------------------
(* A step keeps what it finds on the pairs whose requests stay apart. *)
THEOREM ApartInductive == IInv /\ IntentInv /\ ApartInv /\ [SNext]_svars => ApartInv'
<1> SUFFICES ASSUME IInv, IntentInv, ApartInv, [SNext]_svars, NEW p \in Pairs, apart'[p]
    PROVE /\ \A q, r \in InFlight(p)' : q = r
          /\ \A r \in InFlight(p)' : Fresh(r)'
          /\ Chained(p)'
  BY DEF ApartInv
<1>1. CASE UNCHANGED svars
  <2>1. UNCHANGED vars /\ apart[p]
    BY <1>1 DEF svars
  <2>2. InFlight(p)' = InFlight(p) /\ (Chained(p) => Chained(p)')
    BY <2>1 DEF vars, InFlight, PairOf, Chained
  <2>3. ASSUME NEW r \in InFlight(p), Fresh(r) PROVE Fresh(r)'
    BY <2>1, <2>3 DEF vars, Fresh, PairOf, QuantityOf
  <2> QED
    BY <2>1, <2>2, <2>3 DEF ApartInv
<1>2. CASE SNext
  <2>1. Next /\ apart[p] /\ \A q, r \in InFlight(p)' : q = r
    BY <1>2 DEF SNext, Around
  <2>2. \A q, r \in InFlight(p) : q = r
    BY <2>1 DEF ApartInv
  <2>3. Chained(p) /\ \A r \in InFlight(p) : Fresh(r)
    BY <2>1 DEF ApartInv
  <2>4. ASSUME NEW r \in InFlight(p)' PROVE Fresh(r)'
    <3>1. r \in Requests /\ call'[r] # None /\ PairOf(r)' = p
      BY DEF InFlight
    <3>2. CASE pc[r] = "idle" /\ pc'[r] = "require_store"
      BY <3>2 DEF Fresh
    <3>3. CASE Run(r) \/ Write(r) \/ Fail(r)
      <4>1. call[r] # None
        BY <3>1, <3>3, NoneAssumption DEF Run, Write, Fail, RequireStore, RequireProduct, ReadCurrent, ApplyMovement,
           Overflow, LogMovement, Commit, Refresh, InsertRow, UpdateRow, IInv, SessionInv, Loaded
      <4>2. call'[r] = call[r] => r \in InFlight(p)
        BY <3>1, <4>1 DEF InFlight, PairOf
      <4>3. call'[r] = call[r]
        BY <3>1, <3>3, <4>1 DEF Run, Write, Fail, RequireStore, RequireProduct, ReadCurrent,
           ApplyMovement, Overflow, LogMovement, Commit, Refresh, InsertRow, UpdateRow, HoldRow,
           Reply, Goto, database, session, IInv, TypeOK
      <4> QED
        BY <2>3, <3>1, <3>3, <4>1, <4>2, <4>3, OwnStepFresh
    <3>4. CASE /\ pc'[r] = pc[r] /\ call'[r] = call[r] /\ obj'[r] = obj[r]
               /\ dirty'[r] = dirty[r] /\ delta'[r] = delta[r]
               /\ ~Commit(r)
      <4>1. r \in InFlight(p) /\ PairOf(r) = p
        BY <3>1, <3>4 DEF InFlight, PairOf
      <4>2. inventory'[p] = inventory[p]
        BY <2>1, <2>2, <3>4, <4>1, OnlyOwnCommits
      <4> QED
        BY <2>3, <3>1, <3>4, <4>1, <4>2 DEF Fresh, QuantityOf
    <3> QED
      BY <2>1, <3>1, <3>2, <3>3, <3>4, OwnSession
  <2>5. Chained(p)'
    <3>1. CASE movements'[p] = movements[p]
      BY <2>3, <3>1 DEF Chained
    <3>2. ASSUME NEW r \in InFlight(p), Commit(r) PROVE Chained(p)'
      BY <2>3, <3>2, ChainGrows DEF InFlight, Commit, PairOf
    <3> QED
      BY <2>1, <3>1, <3>2, OnlyOwnCommits
  <2> QED
    BY <2>1, <2>4, <2>5
<1> QED
  BY <1>1, <1>2

(* A pair starts apart, without requests, and with a chained log. *)
LEMMA SInitInv == SInit => IInv /\ IntentInv /\ ApartInv
<1> SUFFICES ASSUME SInit PROVE IInv /\ IntentInv /\ ApartInv
  OBVIOUS
<1>1. IInv /\ IntentInv
  BY InitInv DEF SInit, Init, IntentInv, OwnThreshold, Aimed
<1>2. \A p \in Pairs : InFlight(p) = {}
  BY DEF SInit, Init, InFlight
<1>3. ASSUME NEW p \in Pairs PROVE Chained(p)
  <2>1. CASE inventory[p] = None
    BY <2>1 DEF SInit, Init, Chained
  <2>2. CASE inventory[p] # None
    <3>1. inventory[p].quantity \in Int
      BY <1>1, <2>2 DEF IInv, TypeOK, StoredRows, Rows
    <3> QED
      BY <2>2, <3>1 DEF SInit, Init, Chained, Before
  <2> QED
    BY <2>1, <2>2
<1> QED
  BY <1>1, <1>2, <1>3 DEF ApartInv

(* All three invariants hold of the server, pool and history included. *)
LEMMA ServingHolds == SSpec => [](IInv /\ IntentInv /\ ApartInv)
<1>1. [SNext]_svars => [Next]_vars
  BY DEF SNext, svars, vars
<1>2. IInv /\ IntentInv /\ ApartInv /\ [SNext]_svars => (IInv /\ IntentInv /\ ApartInv)'
  BY <1>1, IInvInductive, IntentInductive, ApartInductive
<1> QED
  BY <1>2, SInitInv, PTL DEF SSpec

-----------------------------------------------------------------------------
(* The commit of a request alone on its pair starts from the current stock. *)
THEOREM ApartIsStrict == SSpec => ApartStrict
<1>1. IInv /\ IntentInv /\ ApartInv /\ [SNext]_svars =>
        \A p \in Pairs : apart'[p] =>
          \/ LedgerStock'[p] = LedgerStock[p] /\ LedgerLog'[p] = LedgerLog[p]
          \/ Ledger!StrictMove(p)
  <2> SUFFICES ASSUME IInv, ApartInv, [SNext]_svars, NEW p \in Pairs, apart'[p]
      PROVE  \/ LedgerStock'[p] = LedgerStock[p] /\ LedgerLog'[p] = LedgerLog[p]
             \/ Ledger!StrictMove(p)
    OBVIOUS
  <2>1. [Next]_vars /\ apart[p]
    BY DEF SNext, svars, vars, Around
  <2>2. CASE inventory'[p] = inventory[p] /\ movements'[p] = movements[p]
    BY <2>2 DEF LedgerStock, LedgerLog, QuantityOf
  <2>3. ASSUME NEW r \in InFlight(p), Commit(r)
        PROVE  \/ LedgerStock'[p] = LedgerStock[p] /\ LedgerLog'[p] = LedgerLog[p]
               \/ Ledger!StrictMove(p)
    <3>1. Fresh(r) /\ pc[r] = "commit" /\ PairOf(r) = p
      BY <2>1, <2>3 DEF ApartInv, InFlight, Commit
    <3>2. CASE UNCHANGED Ledger!vars
      BY <3>2 DEF Ledger!vars
    <3>3. CASE /\ delta[r] # 0 /\ delta[r] \in Int /\ obj[r].quantity \in 0..MaxInt
               /\ Ledger!Move(p, obj[r].quantity - delta[r], obj[r].quantity)
      <4>1. LedgerStock[p] = QuantityOf(p) /\ QuantityOf(p) \in Int
        BY DEF LedgerStock, QuantityOf, IInv, TypeOK, StoredRows, Rows
      <4>2. obj[r].quantity - delta[r] = LedgerStock[p]
        BY <3>1, <3>3, <4>1 DEF Fresh
      <4> QED
        BY <3>3, <4>2 DEF Ledger!StrictMove
    <3> QED
      BY <2>3, <3>1, <3>2, <3>3, CommitMoves DEF InFlight
  <2> QED
    BY <2>1, <2>2, <2>3, OnlyOwnCommits
<1> QED
  BY <1>1, ServingHolds, PTL DEF SSpec, ApartStrict

(* A PUT alone on its pair leaves exactly the quantity it was given. *)
THEOREM ApartPutsAreAbsolute == SSpec => ApartPutIsAbsolute
<1>1. IInv /\ IntentInv /\ ApartInv /\ [SNext]_svars =>
        \A r \in Requests : PutCommits(r) /\ apart'[PairOf(r)] =>
          inventory'[PairOf(r)].quantity = call[r].amount
  <2> SUFFICES ASSUME IInv, ApartInv, [SNext]_svars, NEW r \in Requests,
                      PutCommits(r), apart'[PairOf(r)]
      PROVE  inventory'[PairOf(r)].quantity = call[r].amount
    OBVIOUS
  <2> DEFINE p == PairOf(r)
  <2>1. [Next]_vars
    BY DEF SNext, svars, vars
  <2>2. Commit(r) /\ pc[r] = "commit" /\ call[r].op = "set" /\ delta[r] # 0
    BY <2>1, OnlyCommits DEF PutCommits
  <2>3. call[r] # None /\ p \in Pairs
    BY <2>2, CommitCases
  <2>4. lock[p] = r /\ inventory' = [inventory EXCEPT ![p] = Written(r)]
    BY <2>2, CommitCases DEF IInv, SessionInv, Flushed, Holder
  <2>5. inventory'[p].quantity = obj[r].quantity
    BY <2>2, <2>3, <2>4, WrittenRow DEF Holder, IInv, TypeOK
  <2>6. apart[p] /\ r \in InFlight(p)
    BY <2>3 DEF SNext, svars, Around, InFlight
  <2>7. Fresh(r)
    BY <2>3, <2>6 DEF ApartInv
  <2> QED
    BY <2>2, <2>5, <2>7 DEF Fresh
<1> QED
  BY <1>1, ServingHolds, PTL DEF SSpec, ApartPutIsAbsolute

-----------------------------------------------------------------------------
(* A set of naturals that is not empty has a least member. *)
LEMMA LeastMember ==
  ASSUME NEW T \in SUBSET Nat, T # {}
  PROVE  \E m \in T : \A k \in T : m <= k
<1> DEFINE Less == {ss \in Nat \X Nat : ss[1] < ss[2]}
<1>1. IsWellFoundedOn(Less, Nat)
  BY NatLessThanWellFounded, Zenon DEF OpToRel
<1> HIDE DEF Less
<1>2. PICK m \in T : \A k \in T : <<k, m>> \notin Less
  BY <1>1, WFMin
<1>3. \A k \in T : ~(k < m)
  BY <1>2 DEF Less
<1> QED
  BY <1>3

(* The deltas of a chained log telescope: they add up to the last recorded
   quantity, which is the row's. *)
LEMMA ChainsBalance ==
  ASSUME TypeOK, AuditInv, NEW p \in Pairs, Chained(p)
  PROVE  Balanced(p)
<1> DEFINE m == movements[p]
           Step(g) == [k \in 0..Len(m) |-> IF k = 0 THEN 0 ELSE g[k - 1] + m[k].delta]
           Sum == CHOOSE g : g = Step(g)
           after == [k \in 0..Len(m) |-> IF k = 0 THEN 0 ELSE m[k].quantity_after]
<1>1. Balanced(p) <=> Sum[Len(m)] = QuantityOf(p)
  BY DEF Balanced
<1>2. /\ m \in Seq(Movements) /\ Len(m) \in Nat /\ DOMAIN m = 1..Len(m)
      /\ \A k \in 1..Len(m) : m[k] \in Movements
  BY DEF TypeOK
<1>3. ASSUME NEW k \in 1..Len(m)
      PROVE  after[k] = after[k - 1] + m[k].delta
  <2>1. m[k].delta = m[k].quantity_after - Before(m, k)
    BY <1>2 DEF Chained
  <2>2. k - 1 \in 0..Len(m) /\ k \in 0..Len(m) /\ k # 0
    BY <1>2
  <2>3. Before(m, k) = after[k - 1]
    BY <1>2, <2>2 DEF Before
  <2>4. m[k].quantity_after \in Int /\ after[k - 1] \in Int
    BY <1>2, <2>2 DEF Movements
  <2> QED
    BY <1>2, <2>1, <2>2, <2>3, <2>4
<1>4. after = Step(after)
  <2>1. \A k \in 0..Len(m) : after[k] = Step(after)[k]
    <3> SUFFICES ASSUME NEW k \in 0..Len(m) PROVE after[k] = Step(after)[k]
      OBVIOUS
    <3>1. CASE k = 0
      BY <3>1
    <3>2. CASE k # 0
      <4>1. k \in 1..Len(m)
        BY <1>2, <3>2
      <4>2. Step(after)[k] = after[k - 1] + m[k].delta
        BY <3>2
      <4> HIDE DEF Step, after
      <4> QED
        BY <1>3, <4>1, <4>2
    <3> QED
      BY <3>1, <3>2
  <2>2. DOMAIN after = 0..Len(m) /\ DOMAIN Step(after) = 0..Len(m)
    OBVIOUS
  <2> HIDE DEF Step
  <2> QED
    BY <2>1, <2>2
<1>5. Sum = Step(Sum)
  <2> HIDE DEF Step, after
  <2> QED
    BY <1>4
<1> HIDE DEF Sum
<1>6. \A k \in 0..Len(m) : Sum[k] = after[k]
  <2> DEFINE T == {k \in 0..Len(m) : Sum[k] # after[k]}
  <2> SUFFICES ASSUME T # {} PROVE FALSE
    OBVIOUS
  <2>1. PICK k \in T : \A j \in T : k <= j
    <3>1. T \in SUBSET Nat
      BY <1>2
    <3> HIDE DEF T
    <3> QED
      BY <3>1, LeastMember
  <2>2. CASE k = 0
    <3>1. Sum[0] = Step(Sum)[0]
      BY <1>5
    <3> QED
      BY <1>2, <2>1, <2>2, <3>1
  <2>3. CASE k # 0
    <3>1. k - 1 \in 0..Len(m) /\ k \in 1..Len(m) /\ k - 1 < k
      BY <1>2, <2>3
    <3>2. Sum[k - 1] = after[k - 1]
      BY <2>1, <3>1
    <3>3. Sum[k] = Sum[k - 1] + m[k].delta
      <4>1. Step(Sum)[k] = Sum[k - 1] + m[k].delta
        BY <2>3, <3>1
      <4> HIDE DEF Step
      <4> QED
        BY <1>5, <4>1
    <3> HIDE DEF after
    <3> QED
      BY <1>3, <2>1, <3>1, <3>2, <3>3
  <2> QED
    BY <2>2, <2>3
<1>7. after[Len(m)] = QuantityOf(p)
  <2>1. CASE m = <<>>
    BY <2>1 DEF AuditInv, Audited
  <2>2. CASE m # <<>>
    <3>1. Len(m) # 0 /\ Len(m) \in 0..Len(m)
      BY <1>2, <2>2
    <3> QED
      BY <2>2, <3>1 DEF AuditInv, Audited
  <2> QED
    BY <2>1, <2>2
<1> HIDE DEF after
<1>8. Len(m) \in 0..Len(m)
  BY <1>2
<1> QED
  BY <1>1, <1>6, <1>7, <1>8 DEF Sum

(* On a pair whose requests never overlapped, the committed deltas add up to
   the stock, for any number of movements. *)
THEOREM ApartStaysBalanced == SSpec => []ApartBalanced
<1>1. IInv /\ IntentInv /\ ApartInv => ApartBalanced
  <2> SUFFICES ASSUME IInv, ApartInv, NEW p \in Pairs, apart[p] PROVE Balanced(p)
    BY DEF ApartBalanced
  <2> QED
    BY ChainsBalance DEF ApartInv, IInv
<1> QED
  BY <1>1, ServingHolds, PTL
=============================================================================
