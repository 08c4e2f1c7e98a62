# Verification of the agentic e-commerce API

TLA+ models of the FastAPI service in `apps/api`: what its write endpoints do to the database
when requests overlap, fail and wait for each other, what its reads show meanwhile, what
becomes of users and their tokens while operators migrate the database; and machine-checked
proofs that nearly all of the safety properties checked hold for any number of requests, rows
and pages. Paths below are relative to `src/apps/api/src/agentic_ecommerce_api/` unless they
start with `apps/` or `packages/`.

## The system

One process runs coroutines on an event loop; there may be several such processes. Each
request has its own SQLAlchemy `AsyncSession` (`db/session.py`), hence its own PostgreSQL
transaction at the default isolation, READ COMMITTED. A request runs alone from one `await` to
the next. All shared state is in the database: components interact only through its tables and
locks.

| component | state | operations | interacts with | hard because |
|---|---|---|---|---|
| stock writes: `inventory/service.py`, PUT and POST in `routers/inventory.py` | `inventory` (one row per store and product), `inventory_movements` (append-only log) | set absolute quantity, apply a delta | products and stores (`is_active` checks), product creation (`apply_movement`) | read, await, write without a lock; the row is loaded twice in a PUT; first-touch inserts race; log and snapshot must agree |
| stores: `routers/stores.py` | `stores`, `users.role` | create (with promotion of a CUSTOMER to VENDOR), PATCH, soft delete | every endpoint that requires an active store | no check for a free slug; permission and kind checked on a row loaded before the write; a role changed half way |
| products: `routers/products.py` | `products`, and initial `inventory` and movements | create with initial stock, PATCH, soft delete | stores, stock | one transaction of many statements; two unique keys |
| paged lists: `_pagination.py` and its copies in `routers/inventory.py` | none of their own | five list endpoints | all tables | two snapshots per page, one request per page, rows that move in between |
| storefront and lookups: `routers/storefront.py`, `storefront/schemas.py`, reads of `routers/inventory.py` | none of their own | single and batch availability for guests, lookup and single row for staff | stores, stock | store and stock come from two statements |
| authentication: `auth/*`, `routers/auth.py` | `users` (read only), and the tokens clients hold | login, me, bearer tokens, role checks | every endpoint | roles are read per request, tokens live on; keys are cached per process |
| user creation: `cli/create_user.py` | `users` | check, then insert | authentication | the check can be stale |
| migrations: `apps/api/alembic` | the schema, `alembic_version` | upgrade, downgrade | all tables, every open session | data that a downgrade cannot hold; commands that overlap or stop half way; nothing tests them |
| sessions and engine: `db/session.py`, `db/base.py` | a pool of connections | one session per request | every endpoint | connections given back and taken again |
| settings: `packages/shared` | a cached object per process | `get_settings` | tokens | old and new values side by side |
| rate limit: `_rate_limit.py` | counters inside slowapi | limit on login | login | one counter per process |
| assembly, health, exception handler, slugs | none | | | |

### What makes each component correct

* **Stock writes.** No stored quantity is negative or wider than `int4`; snapshot and log
  change in one commit and the newest movement explains the snapshot; a PUT leaves what it was
  given; deltas add up to the stock; thresholds are never written back stale; every request
  ends; writes to retired stores end.
* **Stores.** Slugs are unique; a row lacks what its kind requires only after a PATCH took it
  off (the CHECKs that should prevent that never fire, see below); promotion and first store
  are one step; a column changes only to what a permitted caller sent; soft deletes are final;
  every request is answered.
* **Products.** Slug and SKU are unique; a product and its initial stock appear whole or not
  at all; only the creator's payload reaches the row; soft deletes are final.
* **Lists.** A page agrees with its COUNT; a walk over unchanged rows is exact; insertions
  hide nothing, removals repeat nothing.
* **Storefront.** Guests are answered for active ONLINE stores only, each product once and in
  their order, with the bucket that staff's numbers imply.
* **Users and tokens.** A token is accepted for the one user whose password was verified, for
  the time promised, and under a key that is still in use; a user has the role an operator
  granted, or one that nobody is served with.
* **Migrations.** Committed tables are those of the committed revision, at the last one those
  of the models; users survive; what the CHECK on roles does to users is known.

`PROJECT.json` lists the hazards behind these, each at its line.

## Modules

| module | models |
|---|---|
| `StockLedger` | the abstract promise about stock: items with a quantity and an append-only log. `StrictMove`: a movement starts from the current stock. `AuditSpec`: from any quantity recorded so far |
| `Inventory` | PUT and POST movements with the service under them; implements `StockLedger` |
| `Serving` | `Inventory` with a pool of connections, fairness, and a record of the pairs whose requests never overlapped |
| `Stores` | create, PATCH and delete of stores, and the promotion of users |
| `Catalog` | create, PATCH and delete of products |
| `Availability` | the pure rules shared by the reads: filters, buckets, de-duplication |
| `Listing` | the five paged lists, and a client that walks them |
| `Storefront` | the guest's reads and staff's lookups |
| `Schema` | the tables as db/models.py declares them, and the six revisions, up and down, as sequences of statements |
| `Migrations` | `alembic upgrade` and `downgrade`, several at once, over `users` with rows |
| `Accounts` | the create-user command, login, tokens, the load of the caller, rotation of the key, restarts |
| `Deployment` | `Migrations` and `Accounts` composed over the table `users` and its locks |
| `InventoryProofs` | about `Inventory`: types, the log, the refinement, what a request may write |
| `ServingProofs` | about `Serving`: pairs whose requests do not overlap |
| `StoresProofs`, `CatalogProofs` | about `Stores` and `Catalog`: keys, shapes, whole creates, payloads, permissions, finality |
| `ListingProofs` | about `Listing`: pages and COUNT, walks |
| `StorefrontProofs` | about `Storefront`: who is answered, in which order, and what |
| `MigrationsProofs` | lemmas about `Schema` and `Migrations`: what each script does to tables and rows |
| `DeploymentProofs` | about `Deployment`: tables, tokens, roles, users |
| `MC*` | model values, payloads and symmetry of the runs |

### How state and actions correspond to the code

* An action is the code from one `await` to the next, with the statement it awaits; `pc` names
  the await a request is about to make. So a row read by one action and used by a later one is
  stale exactly where it is in the code.
* A write is split in two: the flush, after which the transaction holds the row (`HoldRow`,
  `UpdateRow`, `Claim*`), and `Commit`, where it becomes visible. What an UPDATE writes is
  what SQLAlchemy sends: the columns whose value really changed (`Changed`, `dirty`), over the
  row as others left it (`Written`).
* The identity map: a second SELECT in one session returns the object it has, unrefreshed
  (`LoadedRow` in `Inventory`); a row it has not seen is read.
* Unique indexes make a writer wait for a transaction that has the value in doubt
  (`Blockers`), then fail if it is taken (`Conflict`); PostgreSQL breaks cycles
  (`DeadlockVictim`). These, and row locks, are modelled from how the code uses the database
  and are marked external in the map.
* `Fail` ends a request at any await: a lost connection, a cancelled request, a crash of the
  process (one `Fail` per request in flight). The transaction rolls back, as `get_session`
  closes the session.
* `Serving` adds what surrounds a request: no more than `pool` requests are between their
  first statement and their commit, and the refresh after it needs a connection again
  (`HasConnection`). `apart` is a history variable: it turns FALSE for a pair when two of its
  requests are in flight together.
* A revision is its list of DDL statements. `Execute` runs one if PostgreSQL would
  (`Possible`) and fails the revision otherwise. env.py runs all revisions of a command in one
  transaction: `draft` is what that transaction sees, `Finish` commits it. Every revision
  touches `users` (it alters or drops it or adds or drops a foreign key to it), so the
  transaction that runs revisions holds a lock on it until it ends (`Granted`), and one
  transaction is in `draft` at most. `VersionMatches` is Alembic's check that its UPDATE of
  `alembic_version` met the row.
* `open` names the sessions that have read `users` and not ended; a revision that alters,
  drops or unlinks `users` waits for them, and they wait for it (`Readable`, `Writable`). In
  `Deployment` it is what `Accounts` makes it (`Sessions`).
* `Stored` (`Stores`) and `StoredRole` (`Schema`) are what SQLAlchemy writes for a member of
  an Enum: its name (see the next section); `Loadable` is what it reads back.
* `Verify` is all of login after its SELECT: there is no await in it. The decoy hash for an
  unknown name is `Nobody`. `created`, and `born` and `password` in a token, are history
  variables; a token itself carries `sub`, `username` and `exp`, and the key that signed it.
  `settings` is the `lru_cache` of each process.
* `Idle`, and `Rest` in `Deployment`, let a server without requests or migrations rest, so
  that TLC's deadlock check still finds requests that wait for each other for ever.

### Names and values of the Enums

`db/models.py` declares `Enum(Role | StoreKind | MovementReason, native_enum=False)` without
`values_callable`. SQLAlchemy then stores the names of the members (`'ADMIN'`, `'PHYSICAL'`)
and raises LookupError on any other string it reads. Payloads, `--role` and answers carry the
values (`'admin'`, `'physical'`), and so does the SQL of the repository. The models keep the
two apart:

* The CHECKs on `stores` compare with values (`KindChecks`). A stored kind is a name, so each
  of them holds of every row.
* The CHECK on `users.role` of revision 0004 lists values (`Allowed`). No role that the mapper
  writes is among them: `InsertUser` ends in an IntegrityError, and the CHECK cannot be added
  over a row the mapper wrote (`Possible`, `AddRoleCheck`).
* `server_default` of 0003 fills in `'customer'` (`DefaultRole`), which the mapper cannot
  read: whoever loads that row gets a 500 (`Login`, `LoadUser`, `Authenticate` in `Stores`).
* No CHECK or SQL looks at the reason of a movement, so `Inventory` leaves it out.

In `Stores` the promotion of a CUSTOMER may be refused or not (`PromotionRefused`): on tables
with the CHECK of 0004 it is, on tables made from the models, which declare no such CHECK (as
the tests make theirs, `apps/api/tests/conftest.py:47`), it is not. `Accounts` has no
promotion: there `stores` exists from revision 5 on, under the CHECK, where no caller's row
can be read.

### Abstractions

Payload fields no rule tells apart are left out (names, prices, notes, reasons). A slug comes
with the payload, `None` when `slugify` keeps no character. `created_at` is a rank among the
stamps of its list, taken when the row is flushed. That no two stamps are equal is an
assumption, which the code does not guarantee: rows with equal stamps would be in no fixed
order, as rows with equal names are in `listing_ties`. `updated_by` is not kept, but that it
may be the only changed column, so that a PUT with an unchanged threshold sends an UPDATE or
none, is a choice in `ReadCurrent`. The locks that foreign keys take on their parents are left
out: they are shared, and conflict only with the UPDATE of a key. A PATCH of a slug is one
(slug is a unique key), so an INSERT that refers to the store or product waits for its end;
ids never change, so that wait changes no outcome. In `Catalog`, `apply_movement` on a product
that nobody else can see yet is one step. Names and searches in lists are ranks and one
Boolean (`fits`). In `Schema`, types, widths and indexes that are no keys are left out, and a
CHECK is its name and what it says. The clock of `Accounts` counts half seconds, so that a
token's `exp`, cut to seconds, can lie before the end of its life; `iat` is left out, since
all processes share one clock. A password hash verifies exactly the password it was made of.
Between the insert of create-user and its commit no other step of this code can be told apart,
so `InsertUser` is both. `AddRoleCheck` is not in the code: an operator adds by hand the CHECK
that 0004 expects, without which no database gets past revision 3 (`migrate_head`).

## Runs

| run | question | instance |
|---|---|---|
| `inventory_safety` | what holds of stock and log however two writes overlap, with refinement of `AuditSpec`; what holds without overlap; every request ends, retired stores drain | 1 pair, 2 requests, deltas -1, 0, 2, quantities 0, 1, `MaxInt` 2, 3 movements, 1 or 2 connections; 176 thousand states |
| `inventory_lost_update` | a counterexample to the module docstring | 2 requests |
| `inventory_put_race` | a counterexample to "set absolute quantity" | 2 requests |
| `stores_safety` | keys, what is left of the shape of a kind, onboarding, permissions, finality | 2 users of any role, 2 stores, 2 slugs, 2 requests; 1.3 million states |
| `stores_liveness` | requests that deadlock in the database are answered | 1 user, 2 stores, 2 requests |
| `stores_kinds` | a counterexample to the documented CHECKs on kinds | 1 user, 2 requests |
| `catalog_safety` | keys, whole creates, creator's payload, finality | 2 admins and another user, 2 products, 2 stores, 2 requests; 0.8 million states |
| `listing_walk` | walks, and COUNT against page | movements, stores and a product's stores; 3 rows, 2 to a page; 0.7 million states |
| `listing_ties` | a counterexample to deterministic paging | the two lists ordered by name, 2 rows |
| `migrate_head` | a counterexample to `alembic upgrade head` | an empty database, one command |
| `deployment_safety` | tables fit revisions; tokens are good for the right user, time and key; roles are the granted ones or lost; the CHECK on roles locks everyone out; users survive | 2 commands at once, 4 in all, to revisions 0, 3, 6 or one down; 2 rows, 1 name, 2 passwords, 1 role, 2 processes, 2 keys, 1 token; 165 thousand states |
| `storefront_safety` | who is answered, in which order, and what | 1 store, 2 products, batches with repetitions; 134 thousand states |

Every property of a passing run has a mutant in `PROJECT.json`: a plausible bug in one
definition under which TLC finds that property violated.

### Bounds, and why they are enough

All interference is between requests on one row or one key, so one pair (stock) or two rows
(stores, products) and two requests show every pairwise order: the holder and the waiter, the
reader and the one who overtakes it. Because requests keep arriving in the slots that become
free, long histories are covered up to `MaxMovements` (3 per pair: one to read, one to
overtake, one to build on the result). `MaxInt = 2` puts both the empty shelf and the overflow
within one step. `Receive` stops when rows or movements run out; nothing else is bounded. The
proofs remove these bounds from every safety property; liveness and the counterexamples keep
them. Three rows with two to a page are the smallest list with a full page, a short page and a
row in the middle. The list of products filters and orders as the list of stores does, so
`listing_walk` walks only the latter; `low_stock_only` is exercised by `listing_ties`.
Requests and ids are symmetric in the safety runs; runs with liveness use no symmetry. In
`deployment_safety` four commands (`MaxCommands`) are enough for users to come by every kind
of row: up to 3, where they can be created and log in; down to 2, where their roles are lost;
up to 3, where `'customer'` is filled in and a CHECK can be added; and up to 6 with them. They
also give two commands that overlap after one or two that finished. One role (`Grants`) is
enough, since rows are told apart by their passwords and no rule of these modules tells two
roles apart; the theorems cover all four. Two ids and one name let a name come back with
another row and another password; a token lives one second and the clock (`MaxTime`) runs for
one and a half, in half seconds; one token (`MaxTokens`) is enough, since tokens do not meet.
`"downgrade -1"` is a goal too.

### Fairness

`SFairSpec` of `Serving` has strong fairness for every request's next step, `Serve`: the event
loop resumes a coroutine whose await is over, PostgreSQL queues the waiters for a row and the
pool those for a connection, both in the order they came, so a request that can go on again
and again does go on. `FairSpec` of `Stores` has weak fairness for a request's own steps and
strong fairness for statements that wait; PostgreSQL also detects deadlocks. Nothing is
assumed of clients or of failures, and no request has to arrive.

## What the violated runs show

1. `inventory_lost_update`. `inventory/service.py:3-4` says that the audit log "is always kept
   in sync with the snapshot". Two movements that overlap both read the same quantity; the
   second to commit overwrites the first. The log holds both deltas, the stock only one. What
   remains true is proved below.
2. `inventory_put_race`. On a pair without a row, PUT loads nothing, derives a delta equal to
   the quantity asked for, and `apply_movement` loads again: if a row was committed in
   between, the whole quantity is added to it. `PutSetsOrAdds` is the exact statement of what
   a PUT can do.
3. `stores_kinds`. README.md:275 says that CHECK constraints enforce the fields each kind of
   store requires. They compare the kind with `'physical'`, `'online'` and `'marketplace'`
   (`db/models.py:166-181` and revision 0005), and the column holds `'PHYSICAL'`, `'ONLINE'`
   or `'MARKETPLACE'` (`db/models.py:113`): a PATCH that sets the domain of an online store to
   null is committed and answered with 200. `_validate_kind_specific_fields` looks at creates
   only. `ShapeLostToNullOnly` says what remains true.
4. `listing_ties`. The inventory lists order by a name that is not unique, so a walk over
   unchanged rows may show one twice and another never.
5. `migrate_head`. Revision 0003 declares `sa.Enum(..., native_enum=False)`, which in
   SQLAlchemy 1.4 and later creates no CHECK unless `create_constraint=True`; 0004 drops the
   CHECK `user_role` all the same, so `alembic upgrade head` fails on an empty database and
   rolls all of it back. The comment at `apps/api/alembic/versions/0004_add_vendor_role.py:20`
   says that the CHECK is there; tests build their tables from the models and do not notice.

The disagreement of names and values has two more effects, which passing invariants state as
they are. Once the CHECK of 0004 is there, no user can be created, none of those there can log
in, and none is served (`CheckLocksEveryoneOut`): the steps of README.md:59-62 and 292-293,
`alembic upgrade head` and then `create-user`, end in an IntegrityError, once `migrate_head`
is out of the way. A row the mapper wrote passes neither the CHECK of 0004 nor the one its
downgrade puts back, so with such a row in the table no command gets from revision 3 to 4;
under the CHECK `users` holds only rows that 0003 filled with `'customer'`, and nobody can
read those. A downgrade below 0003 therefore does not turn users into customers but makes them
unreadable at the next upgrade (`RolesGrantedOrLost`).

Also seen while modelling, without a run: two first-touch writes of one pair end in an
uncaught `IntegrityError`, a 500 (`InsertRow`); a create or PATCH of a store that loses a
deadlock is a 500 (`DeadlockVictim`); `routers/stores.py` answers every `IntegrityError` with
"slug already in use", an unknown owner or a null for a required column among them
(`Conflict`), and `routers/products.py` does the like for slug and SKU.

## What is proved

Every invariant and every action property of the passing runs, and the refinement, is a
theorem, for every value of the constants: any number of requests, rows, payloads, commands
and processes, any `int4` bound, logs and pages of any length.

| module | theorem | property |
|---|---|---|
| `InventoryProofs` | `TypeCorrect` | `TypeOK`, which includes the CHECKs of `db/models.py` |
| | `AuditExplainsSnapshot` | `SnapshotMatchesAudit` |
| | `ImplementsAudit` | `RefinesAudit`: the refinement of `StockLedger!AuditSpec` |
| | `PutsSetOrAdd`, `ThresholdsNeverFallBack` | `PutSetsOrAdds`, `ThresholdsKept` |
| `ServingProofs` | `ApartStaysBalanced`, `ApartIsStrict`, `ApartPutsAreAbsolute` | `ApartBalanced`, `ApartStrict`, `ApartPutIsAbsolute` |
| `StoresProofs` | `TypeCorrect`, `SlugsApart`, `ShapeNeedsNull` | `TypeOK`, `SlugsUnique`, `ShapeLostToNullOnly` |
| | `ChecksNeverFire` | none: no row that can be stored fails `KindChecks` |
| | `Onboarding`, `PayloadsOnly`, `EditsStayPermitted`, `DeletedForGood` | `OnboardingIsAtomic`, `PayloadOnly`, `EditsPermitted`, `RetiredForever` |
| `CatalogProofs` | `TypeCorrect`, `KeysApart` | `TypeOK`, `KeysUnique` |
| | `WholeOrNothing`, `CreatorsOnly`, `DeletedForGood` | `InitialStockIsWhole`, `CreatorsPayloadOnly`, `RetiredForever` |
| `ListingProofs` | `TypeCorrect`, `PagesFill`, `StrictWalksAreExact` | `TypeOK`, `PageFills`, `StrictWalkExact` |
| | `WalksLoseNothing`, `RemovalsRepeatNothing` | `WalkLosesNothing`, `RemovalsNeverRepeat` |
| `StorefrontProofs` | `TypeCorrect`, `GuestsSeePublicStores` | `TypeOK`, `OnlyPublicStores` |
| | `GuestsAndStaffAgree`, `BatchesAnswerInOrder` | `GuestsSeeWhatStaffSees`, `AnswersInOrder` |
| `DeploymentProofs` | `TypeCorrect`, `TablesFit`, `ChecksLockOut` | `TypeOK`, `SchemaFitsVersion`, `CheckLocksEveryoneOut` |
| | `TokensLiveLong`, `RotationEndsTokens`, `TokensNameTheirUser` | `TokensLiveAsPromised`, `RotationEndsOldTokens`, `TokenNamesItsUser` |
| | `RolesGranted`, `UsersStayThroughMigrations` | `RolesGrantedOrLost`, `UsersSurvive` |

### Assumptions

Each is named in the module that declares the constants, and TLC evaluates it in the runs.
`None` stands for null, so no value it is compared with is `None` (`NoneAssumption` of each
module, `RowsAssumption` of `Deployment`). Payloads are what the Pydantic schemas admit
(`ConstantsAssumption`, `PayloadsAssumption`, `AsksAssumption`, `LimitsAssumption`,
`EndpointsAssumption`); `--role` is one of the values of `Role` (`GrantsAssumption`: argparse
takes its choices from the Enum); admins are users; quantities, thresholds, ranks, bounds and
the lifetime of tokens are naturals; a table holds finitely many rows (`IdsAssumption`).

### The arguments

**Stock.** `SnapshotMatchesAudit` is not inductive: it says nothing of the object a request
holds in its session, which its commit will write. `IInv` adds

* `LockInv`: a row is held by the one request between its flush and its commit, so two
  requests never have statements in flight for one pair;
* `Loaded`: an object that a request has read but not changed has a quantity that was recorded
  at some time (or 0, before the first movement);
* `Pending`: an object that is about to be flushed is such a quantity plus the request's
  delta, and not negative;
* `Flushed`: the holder's stamp is later than every stamp of the pair, and what it is about to
  commit is a recorded quantity plus its delta, within `int4`;
* `AuditInv`: the movement with the latest stamp is the last of the log.

`Recorded` only grows, so what `Loaded` says of a stale object stays true while others commit;
that is why the ledger implemented is the one that lets a movement start from an older
quantity, and why `StrictSpec` is out of reach when requests overlap. The proof has one lemma
per action (`ReceiveKeeps`, `ApplyMovementKeeps`, `CommitKeeps`, ...), joined in
`IInvInductive`; the other modules are laid out alike.

What a request writes depends on its payload, of which `IInv` says nothing. `IntentInv` adds
that the UPDATE of a request sets no threshold but its payload's (`OwnThreshold`), and what a
PUT's delta and object have to do with the quantity it was given (`Aimed`): the delta leads
from the object to that quantity, or, when a row has appeared between the two loads, the
object is that quantity more than a recorded one.

**Stock without overlap.** `ApartInv` says of a pair that is still `apart` that it has one
request in flight at most, that what this request has loaded is what is committed (`Fresh`),
and that each movement of the log starts where the one before it ended (`Chained`). A chained
log telescopes: its deltas add up to the last quantity. Sums over logs of any length have no
induction here; `ChainsBalance` takes the least index at which the partial sum would be wrong
and refutes it.

**Stores.** Nothing in the code looks for a free slug, so `SlugsUnique` rests on the index:
`ClaimInv` says that a request which is past the index has a slug nobody has, `PairInv` that
no two requests are past it with the same one, nor hold the same row or the same new id.
`SessionInv` has three parts. `Opens`: a create's row is new, has what validation asked of its
payload, and an owner who is, or in this commit becomes, a vendor. `Loads`: a caller who was
authenticated as admin or vendor still is (roles only go from customer to vendor). `Edits`: an
edit carries its payload's columns and no others, and its caller may edit the row as the table
has it now: no handler changes kind or owner, which is why what was checked on a row loaded
earlier holds at the commit.

**Products.** As for stores, with two keys. `Stocked` says of a create that it has added the
positive quantities among its first items and nothing else; when none remains (`Remaining`) it
has them all, and only then it commits.

**Lists.** What a page returns depends on where rows stand, not on what they are. `Ahead(i,
n)` says that n rows of the list come before row i, by an injection. `StillToCome`: as long as
rows only enter, whatever the walk has not returned has at least as many rows ahead as earlier
pages went past. `LeftBehind`: as long as rows only leave, whatever it has returned has fewer.
New rows put more ahead and removals fewer, so each survives its kind of change; `InPlace`
says that the k-th row of a page's order has exactly k - 1 ahead, by counting. `CountInv`
keeps what COUNT found until a row enters or leaves.

**Storefront.** `Answering` says that a request is answered once, that a guest's request whose
store has not been public since it came gets no further than the check, and that an answer
covers the list it was asked for. For batches of any length, `UniqueIdsLists` proves of the
loop over `seen`, by least counterexample, that it lists each product once, by first mention.

**Tokens.** `TokenInv` says that a token's `exp` is the cut end of its life, and `Rounding` is
all the arithmetic there is. `KeyInv` says that a request which carries a token lives in a
process whose cached key signed it: `Authenticate` checks that, and `Restart`, the only step
that changes a cached key, ends the requests of its process.

**Migrations.** `Fits(v, tables)` writes out the tables of revision v. `UpFits` and `DownFits`
run the statements of each script on them, and `MInv` says that the committed tables and the
draft of the open transaction fit the revision they belong to. A script is run by a recursive
function; since none has more than two statements, its values are given by explicit witness
(`OneStatement`, `TwoStatements`).

**Users and tables together.** `DInv` adds to `MInv`: `UsersInv`, for the committed rows and
for the draft alike: a row has the name and the hash of the payload it was inserted with, and
as its role the stored name of that payload's, `'customer'` or, below revision 3, none
(`MadeBy`), and names are apart; `LockInv`: a draft that changes rows holds the exclusive
lock, so no session has `users` open meanwhile, and above the base it keeps every user; and
`SessionInv`: a token is for the user whose password its bearer had at the login, and the row
a request has read is one the mapper can read and still the row of its user.

`ChecksInv` says, of the committed tables and of the draft, that where the CHECK on roles is,
no row can be read. It is kept because PostgreSQL looks at every row when a CHECK is added
(`CheckScriptLooks`), values are no names (`ValuesAreNoNames`), an INSERT of a name is refused
under it (`NamesRefused`), and the column that takes the roles away takes the CHECK with it.
The sessions that have a readable row open keep the revision that adds the CHECK waiting
(`LockInv`).

## What is only model-checked

* Liveness: `RequestsFinish` and `RetiredStoresDrain` of `Serving`, `RequestsAnswered` of
  `Stores`. They need fairness and ENABLED, which the prover does not treat. Deadlock freedom
  is TLC's, too.
* The violated runs, which are counterexamples on one instance.

## What is not modelled

* The rate limit: counters inside slowapi, which the code only configures; README.md says that
  they are kept per process.
* Assembly, health and the exception handler: wiring, a constant answer and wording.
* The smoke script, the `.env` search and the parsing of settings and arguments.
* The text of searches, slugs and answers; time zones and clocks of several machines.
* Retries by clients: the code has no request ids, so a repeated POST is a new one.
* Alembic's offline mode, which prints SQL and touches no database.

## Plan

1. Done: `StockLedger`, `Inventory`; `Stores`; `Catalog`; `Listing`; `Storefront`; `Serving`;
   `Schema`, `Migrations`, `Accounts` and their composition `Deployment`.
2. Done: proofs of all safety and action properties that runs check, and of the refinement.
3. Left: the strict ledger as a refinement of `Serving` restricted to pairs that are `apart`
   (`StrictMove` is proved step by step as `ApartStrict`); proofs that lean on fewer facts per
   step.
