------------------------------ MODULE Serving ------------------------------
(***************************************************************************)
(* Inventory served by a process with a limited pool of connections, and   *)
(* with a history: on which pairs no two requests have ever been in flight *)
(* together.  On those the promises of inventory/service.py hold as they   *)
(* are written, whatever happens on other pairs; for the rest, Inventory   *)
(* says what is left of them.                                              *)
(*                                                                         *)
(* A session takes a connection for its first statement and gives it back  *)
(* at the commit or its end; the refresh after a commit takes one again.   *)
(***************************************************************************)
EXTENDS Inventory

CONSTANT PoolSizes   \* how many connections the engine may have

VARIABLES
  pool,    \* the size the process was started with
  apart    \* Pairs -> BOOLEAN: no two of its requests have overlapped

svars == <<vars, pool, apart>>

ConnectedToTheEnd == {r \in Requests : pc[r] # "idle"}

Connected == {r \in Requests : pc[r] \notin {"idle", "refresh"}}

SInit == Init /\ pool \in PoolSizes /\ apart = [p \in Pairs |-> TRUE]

(* A request begins when it gets a connection. *)
Around == /\ Cardinality(Connected') <= pool
          /\ apart' = [p \in Pairs |-> apart[p] /\ \A q, r \in InFlight(p)' : q = r]
          /\ UNCHANGED pool

SNext == Next /\ Around

SSpec == SInit /\ [][SNext]_svars

(* A free connection, for the refresh; nothing else of a request waits for one. *)
HasConnection(r) == pc[r] = "refresh" => Cardinality(Connected) < pool

Serve(r) == HasConnection(r) /\ (Run(r) \/ Write(r)) /\ Around

(* The event loop resumes every coroutine whose await is over; PostgreSQL grants a
   row, and the pool a connection, to those that wait in the order they came. *)
SFairSpec == SSpec /\ \A r \in Requests : SF_svars(Serve(r))

-----------------------------------------------------------------------------
(* Requests that do not overlap keep the audit log "in sync with the snapshot"
   of inventory/service.py: the committed deltas of such a pair add up to its
   quantity, failed requests leaving nothing in either. *)
ApartBalanced == \A p \in Pairs : apart[p] => Balanced(p)

(* Requests that do not overlap keep the ledger of the module docstring of
   inventory/service.py: each movement starts from the current stock. *)
ApartStrict ==
  [][\A p \in Pairs : apart'[p] =>
       \/ LedgerStock'[p] = LedgerStock[p] /\ LedgerLog'[p] = LedgerLog[p]
       \/ Ledger!StrictMove(p)]_svars

(* PUT is absolute, as the docstring of set_absolute_quantity has it, on every
   pair whose requests have not overlapped. *)
ApartPutIsAbsolute ==
  [][\A r \in Requests : PutCommits(r) /\ apart'[PairOf(r)] =>
       inventory'[PairOf(r)].quantity = call[r].amount]_svars
=============================================================================
