----------------------------- MODULE Migrations -----------------------------
(***************************************************************************)
(* The alembic commands operators run by hand: upgrade and downgrade along *)
(* the revisions of Schema, over a users table with rows.                  *)
(*                                                                         *)
(* env.py runs a command in one transaction: all of its revisions are      *)
(* committed or none.  Every revision locks users (it alters it, drops it, *)
(* or adds or drops a foreign key to it) until then, so the statements of  *)
(* two commands never mix, and a revision waits for the sessions that have *)
(* an open transaction on users.  Each revision also moves the row of      *)
(* alembic_version, and fails unless the row is where the command read it. *)
(***************************************************************************)
EXTENDS Schema, FiniteSets

CONSTANTS
  Commands,    \* alembic commands that can run at once
  Goals,       \* revisions named on the command line, "head" among them
  Ids,         \* primary keys of users
  MaxCommands, \* bound: commands started in all
  None         \* no row, no role, no command, no transaction

VARIABLES
  version,     \* the committed row of alembic_version, 0 when there is none
  schema,      \* the committed tables
  users,       \* Ids -> the committed row, or None
  open,        \* sessions of the API and its commands with a transaction on users
  cmd,         \* Commands -> where it is and where it goes, or None
  draft,       \* the transaction that has run revisions, or None
  started      \* how many commands were started

mvars == <<version, schema, users, open, cmd, draft, started>>

Versions == 0..Latest

ASSUME NoneAssumption == None \notin Commands \cup [at : Versions, goal : Versions]
ASSUME MaxCommandsAssumption == MaxCommands \in Nat

RolesIn(rows) == {rows[i].role : i \in {i \in Ids : rows[i] # None}} \ {None}

Init ==
  /\ version = 0
  /\ schema = SchemaAt[0]
  /\ users = [i \in Ids |-> None]
  /\ open = {}
  /\ cmd = [k \in Commands |-> None]
  /\ draft = None
  /\ started = 0

(* The revision is read inside the command's transaction, which holds nothing
   yet; "downgrade -1" counts from it. *)
Connect(k) ==
  /\ cmd[k] = None
  /\ started < MaxCommands
  /\ \E goal \in (Goals \cup {version - 1}) \cap Versions :
       cmd' = [cmd EXCEPT ![k] = [at |-> version, goal |-> goal]]
  /\ started' = started + 1
  /\ UNCHANGED <<version, schema, users, open, draft>>

Upward(k) == cmd[k].at < cmd[k].goal

(* The revision a command runs next, its statements, and where they lead. *)
Statements(k) == IF Upward(k) THEN Upgrades[cmd[k].at + 1] ELSE Downgrades[cmd[k].at]
Target(k) == IF Upward(k) THEN cmd[k].at + 1 ELSE cmd[k].at - 1

(* The command whose transaction holds users. *)
Owner == IF draft = None THEN None ELSE draft.owner

(* The database a command's statements see: its own changes first. *)
Seen == IF draft # None THEN draft ELSE [version |-> version, schema |-> schema, users |-> users]

WithRole(rows, role) ==
  [i \in Ids |-> IF rows[i] = None THEN None ELSE [rows[i] EXCEPT !.role = role]]

RowsAfterRebuild(s, rows) ==
  CASE s \in {DropTable("users"), DropRole} -> [i \in Ids |-> None]
    [] s = AddRole                          -> WithRole(rows, DefaultRole)
    [] OTHER                                -> rows

(* What a statement does to the rows of users. *)
RowsAfter(s, rows) ==
  CASE s = DropTable("users") -> [i \in Ids |-> None]
    [] s = AddRole            -> WithRole(rows, DefaultRole)
    [] s = DropRole           -> WithRole(rows, None)
    [] OTHER                  -> rows

Execute(db, s) ==
  IF db.failed \/ ~Possible(s, db.schema, RolesIn(db.users)) THEN [db EXCEPT !.failed = TRUE]
  ELSE [db EXCEPT !.schema = Altered(s, @), !.users = RowsAfter(s, @)]

Outcome(k) ==
  LET after[n \in 0..Len(Statements(k))] ==
        IF n = 0 THEN [schema |-> Seen.schema, users |-> Seen.users, failed |-> FALSE]
        ELSE Execute(after[n - 1], Statements(k)[n])
  IN after[Len(Statements(k))]

(* Creating a table with a foreign key to users lets others read users; every
   other revision shuts them out. *)
Exclusive(k) == ~Upward(k) \/ Target(k) \in {1, 3, 4}

Running(k) == cmd[k] # None /\ cmd[k].at # cmd[k].goal

(* The locks of its statements are granted. *)
Granted(k) == Owner \in {None, k} /\ (Exclusive(k) => open = {})

(* UPDATE alembic_version ... WHERE version_num = <at> must match one row. *)
VersionMatches(k) == Seen.version = cmd[k].at

Revise(k) ==
  /\ Running(k) /\ Granted(k)
  /\ ~Outcome(k).failed /\ VersionMatches(k)
  /\ draft' = [owner |-> k, version |-> Target(k), schema |-> Outcome(k).schema,
               users |-> Outcome(k).users,
               exclusive |-> Exclusive(k) \/ (draft # None /\ draft.exclusive)]
  /\ cmd' = [cmd EXCEPT ![k].at = Target(k)]
  /\ UNCHANGED <<version, schema, users, open, started>>

(* A command ends without a commit: all its revisions are rolled back. *)
RollBack(k) ==
  /\ cmd' = [cmd EXCEPT ![k] = None]
  /\ draft' = IF Owner = k THEN None ELSE draft
  /\ UNCHANGED <<version, schema, users, open, started>>

(* A statement fails, or the version is not the one that was read. *)
Refuse(k) ==
  /\ Running(k) /\ Granted(k)
  /\ Outcome(k).failed \/ ~VersionMatches(k)
  /\ RollBack(k)

(* The last revision is done. *)
Finish(k) ==
  /\ cmd[k] # None /\ cmd[k].at = cmd[k].goal
  /\ cmd' = [cmd EXCEPT ![k] = None]
  /\ draft' = IF Owner = k THEN None ELSE draft
  /\ \/ /\ Owner = k
        /\ version' = draft.version
        /\ schema' = draft.schema
        /\ users' = draft.users
     \/ /\ Owner # k                                       \* there was nothing to do
        /\ UNCHANGED <<version, schema, users>>
  /\ UNCHANGED <<open, started>>

(* The operator stops it, or the connection dies. *)
Kill(k) == cmd[k] # None /\ RollBack(k)

AddRoleCheckNotValid ==
  /\ version = 3 /\ draft = None /\ open = {}
  /\ RoleChecks(schema) = {}
  /\ schema' = Altered(AddCheck(OldRoles), schema)
  /\ UNCHANGED <<version, users, open, cmd, draft, started>>

(* An operator adds by hand the CHECK that 0004 expects.  PostgreSQL lets it
   through when every row has one of the values: no row that the mapper wrote
   has, only those whose role 0003 filled in. *)
AddRoleCheck ==
  /\ version = 3 /\ draft = None /\ open = {}
  /\ RoleChecks(schema) = {}
  /\ RolesIn(users) \subseteq OldRoles
  /\ schema' = Altered(AddCheck(OldRoles), schema)
  /\ UNCHANGED <<version, users, open, cmd, draft, started>>

Advance(k) == Revise(k) \/ Refuse(k) \/ Finish(k)

Next == \/ \E k \in Commands : Connect(k) \/ Advance(k) \/ Kill(k)
        \/ AddRoleCheck

Spec == Init /\ [][Next]_mvars

-----------------------------------------------------------------------------
(* Every variable holds a value of its kind. *)
MTypeOK ==
  /\ version \in Versions
  /\ DOMAIN schema \subseteq DOMAIN Models
  /\ \A k \in Commands : cmd[k] # None => cmd[k].at \in Versions /\ cmd[k].goal \in Versions
  /\ Owner # None => Owner \in Commands /\ cmd[Owner] # None
  /\ started \in 0..MaxCommands

(* The revisions and the tables never part: whatever overlapped, failed half way
   or was stopped, the committed tables are those an upgrade from nothing to the
   committed version leaves, the CHECK on users.role beside, and at the last one
   those that db/models.py declares. *)
SchemaFitsVersion ==
  /\ BesideRole(schema) = BesideRole(SchemaAt[version])
  /\ RoleCheckFits(version, schema)
  /\ version = Latest => BesideRole(schema) = Models

(* "alembic upgrade head  # apply all" (README.md:248): every revision on the way
   applies. *)
UpgradeHeadApplies ==
  \A k \in Commands : Running(k) /\ cmd[k].goal = Latest => ~Outcome(k).failed
=============================================================================
