-------------------------- MODULE MigrationsProofs --------------------------
(***************************************************************************)
(* What the revisions do to the tables and to the rows of users, for any   *)
(* commands, goals and rows: the lemmas on which the proofs about a        *)
(* running service (DeploymentProofs) rest.                                *)
(***************************************************************************)
EXTENDS Migrations, TLAPS

(* What a command's statements start from, and what a state of the database is
   made of. *)
Db(tables, rows, failed) == [schema |-> tables, users |-> rows, failed |-> failed]
Before == Db(Seen.schema, Seen.users, FALSE)

-----------------------------------------------------------------------------
(* One statement: all of it, or a failure that changes nothing. *)
LEMMA ExecuteIs ==
  ASSUME NEW tables, NEW rows, NEW s, NEW failed \in BOOLEAN
  PROVE  Execute(Db(tables, rows, failed), s) =
           IF failed \/ ~Possible(s, tables, RolesIn(rows)) THEN Db(tables, rows, TRUE)
           ELSE Db(Altered(s, tables), RowsAfter(s, rows), FALSE)
<1> DEFINE sc == Altered(s, tables)
           us == RowsAfter(s, rows)
           po == Possible(s, tables, RolesIn(rows))
<1>1. Execute(Db(tables, rows, failed), s) =
        IF failed \/ ~po THEN [Db(tables, rows, failed) EXCEPT !.failed = TRUE]
        ELSE [Db(tables, rows, failed) EXCEPT !.schema = sc, !.users = us]
  BY DEF Execute, Db
<1> HIDE DEF sc, us, po
<1>2. Execute(Db(tables, rows, failed), s) =
        IF failed \/ ~po THEN Db(tables, rows, TRUE) ELSE Db(sc, us, FALSE)
  BY <1>1 DEF Db
<1> QED
  BY <1>2 DEF sc, us, po

(* The recursion over a script, for the lengths that scripts have. *)
LEMMA OneStatement ==
  ASSUME NEW k, NEW s, Statements(k) = <<s>>
  PROVE  Outcome(k) = Execute(Before, s)
<1> DEFINE Step(f) == [n \in 0..1 |-> IF n = 0 THEN Before ELSE Execute(f[n - 1], <<s>>[n])]
           after == CHOOSE f : f = Step(f)
           goal == [n \in 0..1 |-> IF n = 0 THEN Before ELSE Execute(Before, s)]
<1>1. Len(<<s>>) = 1 /\ <<s>>[1] = s
  OBVIOUS
<1>2. Outcome(k) = after[1]
  BY <1>1 DEF Outcome, Before, Db
<1>3. goal = Step(goal)
  <2> HIDE DEF Before, Execute
  <2>1. ASSUME NEW n \in 0..1 PROVE goal[n] = Step(goal)[n]
    BY <1>1
  <2> QED
    BY <2>1
<1>4. after = Step(after)
  <2> HIDE DEF Step
  <2> QED
    BY <1>3
<1> HIDE DEF after
<1>5. after[0] = Before
  BY <1>4
<1>6. after[1] = Execute(after[0], s)
  BY <1>1, <1>4
<1> QED
  BY <1>2, <1>5, <1>6

(* The same for a script of two. *)
LEMMA TwoStatements ==
  ASSUME NEW k, NEW s, NEW t, Statements(k) = <<s, t>>
  PROVE  Outcome(k) = Execute(Execute(Before, s), t)
<1> DEFINE Step(f) == [n \in 0..2 |-> IF n = 0 THEN Before ELSE Execute(f[n - 1], <<s, t>>[n])]
           after == CHOOSE f : f = Step(f)
           goal == [n \in 0..2 |-> IF n = 0 THEN Before
                                   ELSE IF n = 1 THEN Execute(Before, s)
                                   ELSE Execute(Execute(Before, s), t)]
<1>1. Len(<<s, t>>) = 2 /\ <<s, t>>[1] = s /\ <<s, t>>[2] = t
  OBVIOUS
<1>2. Outcome(k) = after[2]
  BY <1>1 DEF Outcome, Before, Db
<1>3. goal = Step(goal)
  <2> HIDE DEF Before, Execute
  <2>1. ASSUME NEW n \in 0..2 PROVE goal[n] = Step(goal)[n]
    BY <1>1
  <2> QED
    BY <2>1
<1>4. after = Step(after)
  <2> HIDE DEF Step
  <2> QED
    BY <1>3
<1> HIDE DEF after
<1>5. after[0] = Before
  BY <1>4
<1>6. after[1] = Execute(after[0], s) /\ after[2] = Execute(after[1], t)
  BY <1>1, <1>4
<1> QED
  BY <1>2, <1>5, <1>6

(* What a script of one or of two statements does when none of them fails. *)
LEMMA OneApplies ==
  ASSUME NEW k, NEW s, Statements(k) = <<s>>, ~Outcome(k).failed
  PROVE  /\ Possible(s, Seen.schema, RolesIn(Seen.users))
         /\ Outcome(k).schema = Altered(s, Seen.schema)
         /\ Outcome(k).users = RowsAfter(s, Seen.users)
<1>1. Outcome(k) = Execute(Db(Seen.schema, Seen.users, FALSE), s)
  BY OneStatement DEF Before
<1>2. Db(Seen.schema, Seen.users, TRUE).failed
  BY DEF Db
<1>3. Possible(s, Seen.schema, RolesIn(Seen.users))
  BY <1>1, <1>2, ExecuteIs
<1>4. Outcome(k) = Db(Altered(s, Seen.schema), RowsAfter(s, Seen.users), FALSE)
  BY <1>1, <1>3, ExecuteIs
<1> QED
  BY <1>3, <1>4 DEF Db

(* The same for a script of two. *)
LEMMA TwoApply ==
  ASSUME NEW k, NEW s, NEW t, Statements(k) = <<s, t>>, ~Outcome(k).failed
  PROVE  /\ Possible(s, Seen.schema, RolesIn(Seen.users))
         /\ Possible(t, Altered(s, Seen.schema), RolesIn(RowsAfter(s, Seen.users)))
         /\ Outcome(k).schema = Altered(t, Altered(s, Seen.schema))
         /\ Outcome(k).users = RowsAfter(t, RowsAfter(s, Seen.users))
<1> DEFINE a == Altered(s, Seen.schema)
           b == RowsAfter(s, Seen.users)
<1>1. Outcome(k) = Execute(Execute(Db(Seen.schema, Seen.users, FALSE), s), t)
  BY TwoStatements DEF Before
<1>2. \A x, y : Db(x, y, TRUE).failed
  BY DEF Db
<1>3. \A x, y : Execute(Db(x, y, TRUE), t) = Db(x, y, TRUE)
  BY ExecuteIs
<1>4. Possible(s, Seen.schema, RolesIn(Seen.users))
  <2>1. ~Possible(s, Seen.schema, RolesIn(Seen.users)) =>
          Execute(Db(Seen.schema, Seen.users, FALSE), s) = Db(Seen.schema, Seen.users, TRUE)
    BY ExecuteIs
  <2>2. ~Possible(s, Seen.schema, RolesIn(Seen.users)) =>
          Outcome(k) = Db(Seen.schema, Seen.users, TRUE)
    BY <1>1, <1>3, <2>1
  <2> QED
    BY <1>2, <2>2
<1>5. Outcome(k) = Execute(Db(a, b, FALSE), t)
  BY <1>1, <1>4, ExecuteIs
<1> HIDE DEF a, b
<1>6. Possible(t, a, RolesIn(b))
  BY <1>2, <1>5, ExecuteIs
<1>7. Outcome(k) = Db(Altered(t, a), RowsAfter(t, b), FALSE)
  BY <1>5, <1>6, ExecuteIs
<1> QED
  BY <1>4, <1>6, <1>7 DEF Db, a, b

(* The same for the tables alone. *)
LEMMA OneBuilds ==
  ASSUME NEW tables, NEW s
  PROVE  Built(tables, <<s>>) = Altered(s, tables)
<1> DEFINE Step(f) == [n \in 0..1 |-> IF n = 0 THEN tables ELSE Altered(<<s>>[n], f[n - 1])]
           after == CHOOSE f : f = Step(f)
           goal == [n \in 0..1 |-> IF n = 0 THEN tables ELSE Altered(s, tables)]
<1>1. Len(<<s>>) = 1 /\ <<s>>[1] = s
  OBVIOUS
<1>2. Built(tables, <<s>>) = after[1]
  BY <1>1 DEF Built
<1>3. goal = Step(goal)
  <2> HIDE DEF Altered
  <2>1. ASSUME NEW n \in 0..1 PROVE goal[n] = Step(goal)[n]
    BY <1>1
  <2> QED
    BY <2>1
<1>4. after = Step(after)
  <2> HIDE DEF Step
  <2> QED
    BY <1>3
<1> HIDE DEF after
<1>5. after[0] = tables
  BY <1>4
<1>6. after[1] = Altered(s, after[0])
  BY <1>1, <1>4
<1> QED
  BY <1>2, <1>5, <1>6

(* The same for a script of two. *)
LEMMA TwoBuild ==
  ASSUME NEW tables, NEW s, NEW t
  PROVE  Built(tables, <<s, t>>) = Altered(t, Altered(s, tables))
<1> DEFINE Step(f) == [n \in 0..2 |-> IF n = 0 THEN tables ELSE Altered(<<s, t>>[n], f[n - 1])]
           after == CHOOSE f : f = Step(f)
           goal == [n \in 0..2 |-> IF n = 0 THEN tables
                                   ELSE IF n = 1 THEN Altered(s, tables)
                                   ELSE Altered(t, Altered(s, tables))]
<1>1. Len(<<s, t>>) = 2 /\ <<s, t>>[1] = s /\ <<s, t>>[2] = t
  OBVIOUS
<1>2. Built(tables, <<s, t>>) = after[2]
  BY <1>1 DEF Built
<1>3. goal = Step(goal)
  <2> HIDE DEF Altered
  <2>1. ASSUME NEW n \in 0..2 PROVE goal[n] = Step(goal)[n]
    BY <1>1
  <2> QED
    BY <2>1
<1>4. after = Step(after)
  <2> HIDE DEF Step
  <2> QED
    BY <1>3
<1> HIDE DEF after
<1>5. after[0] = tables
  BY <1>4
<1>6. after[1] = Altered(s, after[0]) /\ after[2] = Altered(t, after[1])
  BY <1>1, <1>4
<1> QED
  BY <1>2, <1>5, <1>6

-----------------------------------------------------------------------------
(* The tables a revision should have: those created up to it, with or without the
   column role and its CHECK. *)
Born == [users |-> 1, products |-> 2, stores |-> 5, inventory |-> 6, inventory_movements |-> 6]
Tables == [users |-> UsersTable, products |-> ProductsTable, stores |-> StoresTable,
           inventory |-> InventoryTable, inventory_movements |-> MovementsTable]

TableOf(required, optional, unique, refs, checks) ==
  [required |-> required, optional |-> optional, unique |-> unique, refs |-> refs,
   checks |-> checks]

UsersWith(columns, checks) ==
  TableOf(UsersTable.required \cup columns, UsersTable.optional, UsersTable.unique,
          UsersTable.refs, checks)

Having(names, columns, checks) ==
  [t \in names |-> IF t = "users" THEN UsersWith(columns, checks) ELSE Tables[t]]

Names(v) == {t \in DOMAIN Born : Born[t] <= v}
Columns(v) == IF v < 3 THEN {} ELSE {"role"}

(* 3 is reached from below without a CHECK, from 4 with the old one. *)
CheckSets(v) == IF v < 3 THEN {{}}
                ELSE IF v = 3 THEN {{}, {RoleCheck(OldRoles)}} ELSE {{RoleCheck(Roles)}}

Fits(v, tables) == \E checks \in CheckSets(v) : tables = Having(Names(v), Columns(v), checks)

(* The tables of each revision. *)
LEMMA NamesAre ==
  /\ Names(0) = {}
  /\ Names(1) = {"users"}
  /\ \A v \in 2..4 : Names(v) = {"users", "products"}
  /\ Names(5) = {"users", "products", "stores"}
  /\ Names(6) = {"users", "products", "stores", "inventory", "inventory_movements"}
  BY DEF Names, Born

(* Creating a table, and dropping one. *)
LEMMA CreatingUsers ==
  ASSUME NEW names, NEW columns, NEW checks, UsersTable = UsersWith(columns, checks)
  PROVE  Altered(CreateTable("users", UsersTable), Having(names, columns, checks)) =
           Having(names \cup {"users"}, columns, checks)
<1>1. /\ CreateTable("users", UsersTable).do = "create_table"
      /\ CreateTable("users", UsersTable).table = "users"
      /\ CreateTable("users", UsersTable).as = UsersTable
  BY DEF CreateTable
<1>2. Altered(CreateTable("users", UsersTable), Having(names, columns, checks)) =
        [u \in names \cup {"users"} |->
           IF u = "users" THEN UsersTable ELSE Having(names, columns, checks)[u]]
  BY <1>1 DEF Altered, Having
<1> QED
  BY <1>2 DEF Having

(* Creating a table without rules of its own. *)
LEMMA Creating ==
  ASSUME NEW names, NEW columns, NEW checks, NEW t, t # "users"
  PROVE  Altered(CreateTable(t, Tables[t]), Having(names, columns, checks)) =
           Having(names \cup {t}, columns, checks)
<1>1. /\ CreateTable(t, Tables[t]).do = "create_table"
      /\ CreateTable(t, Tables[t]).table = t /\ CreateTable(t, Tables[t]).as = Tables[t]
  BY DEF CreateTable
<1>2. Altered(CreateTable(t, Tables[t]), Having(names, columns, checks)) =
        [u \in names \cup {t} |-> IF u = t THEN Tables[t] ELSE Having(names, columns, checks)[u]]
  BY <1>1 DEF Altered, Having
<1> QED
  BY <1>2 DEF Having

(* Dropping a table. *)
LEMMA Dropping ==
  ASSUME NEW names, NEW columns, NEW checks, NEW t
  PROVE  Altered(DropTable(t), Having(names, columns, checks)) = Having(names \ {t}, columns, checks)
<1>1. DropTable(t).do = "drop_table" /\ DropTable(t).table = t
  BY DEF DropTable
<1>2. Altered(DropTable(t), Having(names, columns, checks)) =
        [u \in names \ {t} |-> Having(names, columns, checks)[u]]
  BY <1>1 DEF Altered, Having, Without
<1> QED
  BY <1>2 DEF Having

(* The CHECKs of users are those called user_role. *)
LEMMA ChecksOf ==
  ASSUME NEW names, NEW columns, NEW checks, "users" \in names,
         \A c \in checks : c.name = "user_role"
  PROVE  RoleChecks(Having(names, columns, checks)) = checks
  BY DEF RoleChecks, Having, UsersWith, TableOf

(* What changes users alone. *)
LEMMA Altering ==
  ASSUME NEW names, NEW columns, NEW checks, "users" \in names, NEW columns2, NEW checks2
  PROVE  [Having(names, columns, checks) EXCEPT !["users"] = UsersWith(columns2, checks2)] =
           Having(names, columns2, checks2)
  BY DEF Having

(* A table with other columns, and with other CHECKs. *)
LEMMA Edited ==
  ASSUME NEW q, NEW o, NEW u, NEW f, NEW c, NEW new
  PROVE  /\ [TableOf(q, o, u, f, c) EXCEPT !.required = new] = TableOf(new, o, u, f, c)
         /\ [TableOf(q, o, u, f, c) EXCEPT !.checks = new] = TableOf(q, o, u, f, new)
  BY DEF TableOf

(* The four statements about the role. *)
LEMMA RoleStatements ==
  ASSUME NEW names, "users" \in names, NEW checks, \A c \in checks : c.name = "user_role"
  PROVE  /\ Altered(AddRole, Having(names, {}, checks)) = Having(names, {"role"}, checks)
         /\ Altered(DropRole, Having(names, {"role"}, checks)) = Having(names, {}, {})
         /\ Altered(DropCheck, Having(names, {"role"}, checks)) = Having(names, {"role"}, {})
         /\ \A roles : Altered(AddCheck(roles), Having(names, {"role"}, {})) =
                         Having(names, {"role"}, {RoleCheck(roles)})
<1>1. /\ AddRole.do = "add_role" /\ DropRole.do = "drop_role" /\ DropCheck.do = "drop_check"
      /\ \A roles : AddCheck(roles).do = "add_check" /\ AddCheck(roles).roles = roles
  BY DEF AddRole, DropRole, DropCheck, AddCheck
<1>2. \A columns : /\ "users" \in DOMAIN Having(names, columns, checks)
                   /\ Having(names, columns, checks)["users"] = UsersWith(columns, checks)
  BY DEF Having
<1>3. \A columns : RoleChecks(Having(names, columns, checks)) = checks
  BY ChecksOf
<1>4. Altered(AddRole, Having(names, {}, checks)) = Having(names, {"role"}, checks)
  <2>1. [UsersWith({}, checks) EXCEPT !.required = @ \cup {"role"}] = UsersWith({"role"}, checks)
    BY DEF UsersWith, TableOf
  <2>2. Altered(AddRole, Having(names, {}, checks)) =
          [Having(names, {}, checks) EXCEPT !["users"] = UsersWith({"role"}, checks)]
    BY <1>1, <1>2, <2>1 DEF Altered
  <2> QED
    BY <2>2, Altering
<1>5. Altered(DropRole, Having(names, {"role"}, checks)) = Having(names, {}, {})
  <2>1. UsersWith({"role"}, checks).required \ {"role"} = UsersTable.required \cup {}
    BY DEF UsersWith, TableOf, UsersTable
  <2>2. UsersWith({"role"}, checks).checks \ checks = {}
    BY DEF UsersWith, TableOf
  <2>3. [UsersWith({"role"}, checks) EXCEPT !.required = @ \ {"role"}, !.checks = @ \ checks] =
          UsersWith({}, {})
    <3>1. UsersTable.required \cup {} = UsersTable.required
      OBVIOUS
    <3>2. \A a, b : [UsersWith({"role"}, checks) EXCEPT !.required = a, !.checks = b] =
                      [[UsersWith({"role"}, checks) EXCEPT !.required = a] EXCEPT !.checks = b]
      OBVIOUS
    <3>3. [UsersWith({"role"}, checks) EXCEPT !.required = UsersTable.required] =
            UsersWith({}, checks)
      BY <3>1, Edited DEF UsersWith
    <3>4. [UsersWith({}, checks) EXCEPT !.checks = {}] = UsersWith({}, {})
      <4> DEFINE q == UsersTable.required \cup {}
                 none == {}
      <4> HIDE DEF q, none
      <4>1. [TableOf(q, UsersTable.optional, UsersTable.unique, UsersTable.refs, checks)
               EXCEPT !.checks = none] =
              TableOf(q, UsersTable.optional, UsersTable.unique, UsersTable.refs, none)
        BY DEF TableOf
      <4> QED
        BY <4>1 DEF UsersWith, q, none
    <3> QED
      BY <2>1, <2>2, <3>1, <3>2, <3>3, <3>4
  <2>4. Altered(DropRole, Having(names, {"role"}, checks)) =
          [Having(names, {"role"}, checks) EXCEPT
             !["users"].required = @ \ {"role"}, !["users"].checks = @ \ checks]
    BY <1>1, <1>3 DEF Altered
  <2>5. [Having(names, {"role"}, checks) EXCEPT
           !["users"].required = @ \ {"role"}, !["users"].checks = @ \ checks] =
        [Having(names, {"role"}, checks) EXCEPT !["users"] =
           [UsersWith({"role"}, checks) EXCEPT !.required = @ \ {"role"}, !.checks = @ \ checks]]
    BY <1>2 DEF Having
  <2> QED
    BY <2>3, <2>4, <2>5, Altering
<1>6. Altered(DropCheck, Having(names, {"role"}, checks)) = Having(names, {"role"}, {})
  <2>1. UsersWith({"role"}, checks).checks \ checks = {}
    BY DEF UsersWith, TableOf
  <2>2. [UsersWith({"role"}, checks) EXCEPT !.checks = @ \ checks] = UsersWith({"role"}, {})
    BY <2>1 DEF UsersWith, TableOf
  <2>3. Altered(DropCheck, Having(names, {"role"}, checks)) =
          [Having(names, {"role"}, checks) EXCEPT !["users"] = UsersWith({"role"}, {})]
    BY <1>1, <1>2, <1>3, <2>2 DEF Altered
  <2> QED
    BY <2>3, Altering
<1>7. ASSUME NEW roles
      PROVE  Altered(AddCheck(roles), Having(names, {"role"}, {})) =
               Having(names, {"role"}, {RoleCheck(roles)})
  <2>1. UsersWith({"role"}, {}).checks \cup {RoleCheck(roles)} = {RoleCheck(roles)}
    BY DEF UsersWith, TableOf
  <2>2. [UsersWith({"role"}, {}) EXCEPT !.checks = @ \cup {RoleCheck(roles)}] =
          UsersWith({"role"}, {RoleCheck(roles)})
    BY <2>1 DEF UsersWith, TableOf
  <2>3. Having(names, {"role"}, {})["users"] = UsersWith({"role"}, {})
    BY DEF Having
  <2>4. Altered(AddCheck(roles), Having(names, {"role"}, {})) =
          [Having(names, {"role"}, {}) EXCEPT !["users"] = UsersWith({"role"}, {RoleCheck(roles)})]
    BY <1>1, <2>2, <2>3 DEF Altered
  <2> DEFINE new == {RoleCheck(roles)}
  <2> HIDE DEF new
  <2>5. [Having(names, {"role"}, {}) EXCEPT !["users"] = UsersWith({"role"}, new)] =
          Having(names, {"role"}, new)
    BY Altering
  <2> QED
    BY <2>4, <2>5 DEF new
<1> QED
  BY <1>4, <1>5, <1>6, <1>7

-----------------------------------------------------------------------------
(* The scripts, and the tables after one. *)
After(script, tables) ==
  IF Len(script) = 1 THEN Altered(script[1], tables)
  ELSE Altered(script[2], Altered(script[1], tables))

(* What a script of one or two statements leaves. *)
LEMMA AfterIs ==
  /\ \A tables, s : After(<<s>>, tables) = Altered(s, tables)
  /\ \A tables, s, t : After(<<s, t>>, tables) = Altered(t, Altered(s, tables))
<1>1. \A s : Len(<<s>>) = 1 /\ <<s>>[1] = s
  OBVIOUS
<1>2. \A s, t : Len(<<s, t>>) = 2 /\ <<s, t>>[1] = s /\ <<s, t>>[2] = t
  OBVIOUS
<1> QED
  BY <1>1, <1>2 DEF After

(* The scripts by their numbers. *)
LEMMA Scripts ==
  /\ Upgrades[1] = Upgrade0001 /\ Upgrades[2] = Upgrade0002 /\ Upgrades[3] = Upgrade0003
  /\ Upgrades[4] = Upgrade0004 /\ Upgrades[5] = Upgrade0005 /\ Upgrades[6] = Upgrade0006
  /\ Downgrades[1] = Downgrade0001 /\ Downgrades[2] = Downgrade0002
  /\ Downgrades[3] = Downgrade0003 /\ Downgrades[4] = Downgrade0004
  /\ Downgrades[5] = Downgrade0005 /\ Downgrades[6] = Downgrade0006
  BY DEF Upgrades, Downgrades

(* No script has more than two statements. *)
LEMMA ScriptLengths ==
  ASSUME NEW v \in 1..Latest
  PROVE  /\ (\E s : Upgrades[v] = <<s>>) \/ (\E s, t : Upgrades[v] = <<s, t>>)
         /\ (\E s : Downgrades[v] = <<s>>) \/ (\E s, t : Downgrades[v] = <<s, t>>)
<1>1. v \in {1, 2, 3, 4, 5, 6}
  BY DEF Latest
<1> QED
  BY <1>1, Scripts, Zenon DEF Upgrade0001, Upgrade0002, Upgrade0003, Upgrade0004, Upgrade0005,
     Upgrade0006, Downgrade0001, Downgrade0002, Downgrade0003, Downgrade0004, Downgrade0005,
     Downgrade0006

(* Every upgrade leads from the tables of one revision to those of the next. *)
LEMMA UpFits ==
  ASSUME NEW v \in 1..Latest, NEW tables, Fits(v - 1, tables)
  PROVE  Fits(v, After(Upgrades[v], tables))
<1> PICK checks \in CheckSets(v - 1) : tables = Having(Names(v - 1), Columns(v - 1), checks)
  BY DEF Fits
<1>0. v \in {1, 2, 3, 4, 5, 6}
  BY DEF Latest
<1>c. \A c \in checks : c.name = "user_role"
  BY <1>0 DEF CheckSets, RoleCheck, Check
<1>1. CASE v = 1
  <2>1. tables = Having(Names(0), Columns(0), checks) /\ checks = {}
    BY <1>1 DEF CheckSets
  <2>2. UsersTable = UsersWith(Columns(0), checks)
    BY <2>1 DEF UsersTable, UsersWith, TableOf, Columns
  <2>3. After(Upgrades[v], tables) = Having(Names(0) \cup {"users"}, Columns(0), checks)
    BY <1>1, <2>1, <2>2, Scripts, AfterIs, CreatingUsers DEF Upgrade0001
  <2>4. Names(0) \cup {"users"} = Names(1) /\ Columns(0) = Columns(1) /\ checks \in CheckSets(1)
    BY <2>1, NamesAre DEF Columns, CheckSets
  <2> QED
    BY <1>1, <2>3, <2>4 DEF Fits
<1>2. CASE v = 2
  <2>1. tables = Having(Names(1), Columns(1), checks)
    BY <1>2
  <2>2. After(Upgrades[v], tables) = Having(Names(1) \cup {"products"}, Columns(1), checks)
    <3>1. Tables["products"] = ProductsTable
      BY DEF Tables
    <3>2. After(Upgrades[v], tables) = Altered(CreateTable("products", Tables["products"]), tables)
      BY <1>2, <3>1, Scripts, AfterIs DEF Upgrade0002
    <3> QED
      BY <2>1, <3>2, Creating
  <2>3. Names(1) \cup {"products"} = Names(2) /\ Columns(1) = Columns(2) /\ checks \in CheckSets(2)
    BY <1>2, NamesAre DEF Columns, CheckSets
  <2> QED
    BY <1>2, <2>2, <2>3 DEF Fits
<1>3. CASE v = 3
  <2>1. tables = Having({"users", "products"}, {}, {})
    BY <1>3, NamesAre DEF CheckSets, Columns
  <2>2. After(Upgrades[v], tables) = Having({"users", "products"}, {"role"}, {})
    BY <1>3, <2>1, Scripts, AfterIs, RoleStatements DEF Upgrade0003
  <2> QED
    BY <1>3, <2>2, NamesAre DEF CheckSets, Columns, Fits
<1>4. CASE v = 4
  <2>1. tables = Having({"users", "products"}, {"role"}, checks)
    BY <1>4, NamesAre DEF Columns
  <2>2. After(Upgrades[v], tables) = Having({"users", "products"}, {"role"}, {RoleCheck(Roles)})
    BY <1>4, <1>c, <2>1, Scripts, AfterIs, RoleStatements DEF Upgrade0004
  <2> QED
    BY <1>4, <2>2, NamesAre DEF CheckSets, Columns, Fits
<1>5. CASE v = 5
  <2>1. tables = Having(Names(4), Columns(4), checks)
    BY <1>5
  <2>2. After(Upgrades[v], tables) = Having(Names(4) \cup {"stores"}, Columns(4), checks)
    <3>1. Tables["stores"] = StoresTable
      BY DEF Tables
    <3>2. After(Upgrades[v], tables) = Altered(CreateTable("stores", Tables["stores"]), tables)
      BY <1>5, <3>1, Scripts, AfterIs DEF Upgrade0005
    <3>3. Altered(CreateTable("stores", Tables["stores"]), Having(Names(4), Columns(4), checks)) =
            Having(Names(4) \cup {"stores"}, Columns(4), checks)
      BY Creating
    <3> QED
      BY <2>1, <3>2, <3>3
  <2>3. Names(4) \cup {"stores"} = Names(5) /\ Columns(4) = Columns(5) /\ checks \in CheckSets(5)
    BY <1>5, NamesAre DEF Columns, CheckSets
  <2> QED
    BY <1>5, <2>2, <2>3 DEF Fits
<1>6. CASE v = 6
  <2>1. tables = Having(Names(5), Columns(5), checks)
    BY <1>6
  <2>2. After(Upgrades[v], tables) =
          Having((Names(5) \cup {"inventory"}) \cup {"inventory_movements"}, Columns(5), checks)
    <3>1. Tables["inventory"] = InventoryTable /\ Tables["inventory_movements"] = MovementsTable
      BY DEF Tables
    <3>2. After(Upgrades[v], tables) =
            Altered(CreateTable("inventory_movements", Tables["inventory_movements"]),
                    Altered(CreateTable("inventory", Tables["inventory"]), tables))
      BY <1>6, <3>1, Scripts, AfterIs DEF Upgrade0006
    <3>3. Altered(CreateTable("inventory", Tables["inventory"]), tables) =
            Having(Names(5) \cup {"inventory"}, Columns(5), checks)
      BY <2>1, Creating
    <3> DEFINE five == Names(5) \cup {"inventory"}
    <3> HIDE DEF five
    <3>4. Altered(CreateTable("inventory_movements", Tables["inventory_movements"]),
                  Having(five, Columns(5), checks)) =
            Having(five \cup {"inventory_movements"}, Columns(5), checks)
      BY Creating
    <3> QED
      BY <3>2, <3>3, <3>4 DEF five
  <2>3. /\ (Names(5) \cup {"inventory"}) \cup {"inventory_movements"} = Names(6)
        /\ Columns(5) = Columns(6) /\ checks \in CheckSets(6)
    BY <1>6, NamesAre DEF Columns, CheckSets
  <2> QED
    BY <1>6, <2>2, <2>3 DEF Fits
<1> QED
  BY <1>0, <1>1, <1>2, <1>3, <1>4, <1>5, <1>6

(* Every downgrade leads back to the tables of the revision before. *)
LEMMA DownFits ==
  ASSUME NEW v \in 1..Latest, NEW tables, Fits(v, tables)
  PROVE  Fits(v - 1, After(Downgrades[v], tables))
<1> PICK checks \in CheckSets(v) : tables = Having(Names(v), Columns(v), checks)
  BY DEF Fits
<1>0. v \in {1, 2, 3, 4, 5, 6}
  BY DEF Latest
<1>c. \A c \in checks : c.name = "user_role"
  BY <1>0 DEF CheckSets, RoleCheck, Check
<1>1. CASE v = 1
  <2>1. Altered(DropTable("users"), Having(Names(1), Columns(1), checks)) =
          Having(Names(1) \ {"users"}, Columns(1), checks)
    BY Dropping
  <2>2. After(Downgrades[v], tables) = Having(Names(1) \ {"users"}, Columns(1), checks)
    BY <1>1, <2>1, Scripts, AfterIs DEF Downgrade0001
  <2>3. Names(1) \ {"users"} = Names(0) /\ Columns(1) = Columns(0) /\ checks \in CheckSets(0)
    BY <1>1, NamesAre DEF Columns, CheckSets
  <2> QED
    BY <1>1, <2>2, <2>3 DEF Fits
<1>2. CASE v = 2
  <2>1. Altered(DropTable("products"), Having(Names(2), Columns(2), checks)) =
          Having(Names(2) \ {"products"}, Columns(2), checks)
    BY Dropping
  <2>2. After(Downgrades[v], tables) = Having(Names(2) \ {"products"}, Columns(2), checks)
    BY <1>2, <2>1, Scripts, AfterIs DEF Downgrade0002
  <2>3. Names(2) \ {"products"} = Names(1) /\ Columns(2) = Columns(1) /\ checks \in CheckSets(1)
    BY <1>2, NamesAre DEF Columns, CheckSets
  <2> QED
    BY <1>2, <2>2, <2>3 DEF Fits
<1>3. CASE v = 3
  <2>1. tables = Having({"users", "products"}, {"role"}, checks)
    BY <1>3, NamesAre DEF Columns
  <2>2. After(Downgrades[v], tables) = Having({"users", "products"}, {}, {})
    BY <1>3, <1>c, <2>1, Scripts, AfterIs, RoleStatements DEF Downgrade0003
  <2> QED
    BY <1>3, <2>2, NamesAre DEF CheckSets, Columns, Fits
<1>4. CASE v = 4
  <2>1. tables = Having({"users", "products"}, {"role"}, checks)
    BY <1>4, NamesAre DEF Columns
  <2>2. After(Downgrades[v], tables) = Having({"users", "products"}, {"role"}, {RoleCheck(OldRoles)})
    BY <1>4, <1>c, <2>1, Scripts, AfterIs, RoleStatements DEF Downgrade0004
  <2> QED
    BY <1>4, <2>2, NamesAre DEF CheckSets, Columns, Fits
<1>5. CASE v = 5
  <2>1. Altered(DropTable("stores"), Having(Names(5), Columns(5), checks)) =
          Having(Names(5) \ {"stores"}, Columns(5), checks)
    BY Dropping
  <2>2. After(Downgrades[v], tables) = Having(Names(5) \ {"stores"}, Columns(5), checks)
    BY <1>5, <2>1, Scripts, AfterIs DEF Downgrade0005
  <2>3. Names(5) \ {"stores"} = Names(4) /\ Columns(5) = Columns(4) /\ checks \in CheckSets(4)
    BY <1>5, NamesAre DEF Columns, CheckSets
  <2> QED
    BY <1>5, <2>2, <2>3 DEF Fits
<1>6. CASE v = 6
  <2> DEFINE six == Names(6) \ {"inventory_movements"}
  <2>1. Altered(DropTable("inventory_movements"), Having(Names(6), Columns(6), checks)) =
          Having(six, Columns(6), checks)
    BY Dropping
  <2>2. Altered(DropTable("inventory"), Having(six, Columns(6), checks)) =
          Having(six \ {"inventory"}, Columns(6), checks)
    BY Dropping
  <2>3. After(Downgrades[v], tables) = Having(six \ {"inventory"}, Columns(6), checks)
    BY <1>6, <2>1, <2>2, Scripts, AfterIs DEF Downgrade0006
  <2>4. six \ {"inventory"} = Names(5) /\ Columns(6) = Columns(5) /\ checks \in CheckSets(5)
    BY <1>6, NamesAre DEF Columns, CheckSets
  <2> QED
    BY <1>6, <2>3, <2>4 DEF Fits
<1> QED
  BY <1>0, <1>1, <1>2, <1>3, <1>4, <1>5, <1>6

(* Every upgrade leaves what its statements leave. *)
LEMMA BuiltIs == ASSUME NEW v \in 1..Latest, NEW tables
                 PROVE  Built(tables, Upgrades[v]) = After(Upgrades[v], tables)
  BY ScriptLengths, OneBuilds, TwoBuild, AfterIs

(* The tables of an unhindered upgrade. *)
LEMMA SchemaAtIs == /\ SchemaAt[0] = <<>>
                    /\ \A v \in 1..Latest : SchemaAt[v] = Built(SchemaAt[v - 1], Upgrades[v])
<1> DEFINE Step(f) == [v \in 0..Latest |-> IF v = 0 THEN <<>> ELSE Built(f[v - 1], Upgrades[v])]
           a0 == <<>>
           a1 == Built(a0, Upgrades[1])
           a2 == Built(a1, Upgrades[2])
           a3 == Built(a2, Upgrades[3])
           a4 == Built(a3, Upgrades[4])
           a5 == Built(a4, Upgrades[5])
           a6 == Built(a5, Upgrades[6])
           goal == [v \in 0..Latest |->
                      IF v = 0 THEN a0 ELSE IF v = 1 THEN a1 ELSE IF v = 2 THEN a2
                      ELSE IF v = 3 THEN a3 ELSE IF v = 4 THEN a4 ELSE IF v = 5 THEN a5 ELSE a6]
<1>1. goal = Step(goal)
  <2>1. ASSUME NEW v \in 0..Latest PROVE goal[v] = Step(goal)[v]
    <3>1. v \in {0, 1, 2, 3, 4, 5, 6}
      BY DEF Latest
    <3> HIDE DEF a0, a1, a2, a3, a4, a5, a6
    <3>2. /\ a1 = Built(a0, Upgrades[1]) /\ a2 = Built(a1, Upgrades[2])
          /\ a3 = Built(a2, Upgrades[3]) /\ a4 = Built(a3, Upgrades[4])
          /\ a5 = Built(a4, Upgrades[5]) /\ a6 = Built(a5, Upgrades[6])
      BY DEF a1, a2, a3, a4, a5, a6
    <3> QED
      BY <3>1, <3>2 DEF a0, Latest
  <2> QED
    BY <2>1
<1>2. SchemaAt = CHOOSE f : f = Step(f)
  BY DEF SchemaAt
<1> HIDE DEF goal
<1>3. SchemaAt = Step(SchemaAt)
  <2> HIDE DEF Step
  <2> QED
    BY <1>1, <1>2
<1> QED
  BY <1>3 DEF Latest

(* Each revision's tables, by an unhindered upgrade, fit it. *)
LEMMA SchemaAtFits == \A v \in Versions : Fits(v, SchemaAt[v])
<1>1. Fits(0, SchemaAt[0])
  <2>1. Having(Names(0), Columns(0), {}) = <<>>
    BY NamesAre DEF Having
  <2>2. {} \in CheckSets(0)
    BY DEF CheckSets
  <2>3. SchemaAt[0] = Having(Names(0), Columns(0), {})
    BY <2>1, SchemaAtIs
  <2> QED
    BY <2>2, <2>3 DEF Fits
<1>2. ASSUME NEW v \in 1..Latest, Fits(v - 1, SchemaAt[v - 1]) PROVE Fits(v, SchemaAt[v])
  BY <1>2, UpFits, SchemaAtIs, BuiltIs
<1>3. Fits(1, SchemaAt[1])
  BY <1>1, <1>2 DEF Latest
<1>4. Fits(2, SchemaAt[2])
  BY <1>2, <1>3 DEF Latest
<1>5. Fits(3, SchemaAt[3])
  BY <1>2, <1>4 DEF Latest
<1>6. Fits(4, SchemaAt[4])
  BY <1>2, <1>5 DEF Latest
<1>7. Fits(5, SchemaAt[5])
  BY <1>2, <1>6 DEF Latest
<1>8. Fits(6, SchemaAt[6])
  BY <1>2, <1>7 DEF Latest
<1> QED
  BY <1>1, <1>3, <1>4, <1>5, <1>6, <1>7, <1>8 DEF Versions, Latest

-----------------------------------------------------------------------------
(* What the statements do to the rows of users. *)
NoRows == [i \in Ids |-> None]

(* The effect of each statement on the rows. *)
LEMMA RowsAfterStatement ==
  ASSUME NEW rows
  PROVE  /\ \A t, as : RowsAfter(CreateTable(t, as), rows) = rows
         /\ \A t : RowsAfter(DropTable(t), rows) = IF t = "users" THEN NoRows ELSE rows
         /\ RowsAfter(AddRole, rows) = WithRole(rows, DefaultRole)
         /\ RowsAfter(DropRole, rows) = WithRole(rows, None)
         /\ RowsAfter(DropCheck, rows) = rows
         /\ \A roles : RowsAfter(AddCheck(roles), rows) = rows
<1>1. /\ \A t, as : CreateTable(t, as).do = "create_table"
      /\ \A t : DropTable(t).do = "drop_table" /\ DropTable(t).table = t
      /\ AddRole.do = "add_role" /\ DropRole.do = "drop_role" /\ DropCheck.do = "drop_check"
      /\ \A roles : AddCheck(roles).do = "add_check"
  BY DEF CreateTable, DropTable, AddRole, DropRole, DropCheck, AddCheck
<1> DEFINE r1 == WithRole(rows, DefaultRole)
           r2 == WithRole(rows, None)
<1>2. \A s : RowsAfter(s, rows) = CASE s = DropTable("users") -> NoRows
                                    [] s = AddRole            -> r1
                                    [] s = DropRole           -> r2
                                    [] OTHER                  -> rows
  BY DEF RowsAfter, NoRows
<1> HIDE DEF r1, r2
<1>3. ASSUME NEW t, NEW as PROVE RowsAfter(CreateTable(t, as), rows) = rows
  <2>1. CreateTable(t, as).do = "create_table"
    BY <1>1
  <2>2. /\ CreateTable(t, as) # DropTable("users") /\ CreateTable(t, as) # AddRole
        /\ CreateTable(t, as) # DropRole
    BY <1>1, <2>1
  <2> QED
    BY <1>2, <2>2
<1>4. \A t : RowsAfter(DropTable(t), rows) = IF t = "users" THEN NoRows ELSE rows
  BY <1>1, <1>2
<1>5. RowsAfter(AddRole, rows) = r1 /\ RowsAfter(DropRole, rows) = r2
  BY <1>1, <1>2
<1>6. RowsAfter(DropCheck, rows) = rows /\ \A roles : RowsAfter(AddCheck(roles), rows) = rows
  BY <1>1, <1>2
<1> QED
  BY <1>3, <1>4, <1>5, <1>6 DEF r1, r2

RowsAfterScript(script, rows) ==
  IF Len(script) = 1 THEN RowsAfter(script[1], rows)
  ELSE RowsAfter(script[2], RowsAfter(script[1], rows))

(* What a script of one or two statements leaves of the rows. *)
LEMMA RowsAfterIs ==
  /\ \A rows, s : RowsAfterScript(<<s>>, rows) = RowsAfter(s, rows)
  /\ \A rows, s, t : RowsAfterScript(<<s, t>>, rows) = RowsAfter(t, RowsAfter(s, rows))
<1>1. \A s : Len(<<s>>) = 1 /\ <<s>>[1] = s
  OBVIOUS
<1>2. \A s, t : Len(<<s, t>>) = 2 /\ <<s, t>>[1] = s /\ <<s, t>>[2] = t
  OBVIOUS
<1> QED
  BY <1>1, <1>2 DEF RowsAfterScript

(* An upgrade keeps the rows, but for the role that 0003 gives them. *)
LEMMA UpRows ==
  ASSUME NEW v \in 1..Latest, NEW rows
  PROVE  RowsAfterScript(Upgrades[v], rows) = IF v = 3 THEN WithRole(rows, DefaultRole) ELSE rows
<1>0. v \in {1, 2, 3, 4, 5, 6}
  BY DEF Latest
<1> DEFINE r1 == WithRole(rows, DefaultRole)
<1>1. RowsAfterScript(Upgrades[3], rows) = r1
  BY Scripts, RowsAfterIs, RowsAfterStatement DEF Upgrade0003
<1> HIDE DEF r1
<1>2. RowsAfterScript(Upgrades[4], rows) = rows
  BY Scripts, RowsAfterIs, RowsAfterStatement DEF Upgrade0004
<1>3. RowsAfterScript(Upgrades[6], rows) = rows
  BY Scripts, RowsAfterIs, RowsAfterStatement DEF Upgrade0006
<1>4. /\ RowsAfterScript(Upgrades[1], rows) = rows
      /\ RowsAfterScript(Upgrades[2], rows) = rows
      /\ RowsAfterScript(Upgrades[5], rows) = rows
  BY Scripts, RowsAfterIs, RowsAfterStatement DEF Upgrade0001, Upgrade0002, Upgrade0005
<1> QED
  BY <1>0, <1>1, <1>2, <1>3, <1>4 DEF r1

(* A downgrade takes the role at 0003 and the rows at 0001, and nothing else. *)
LEMMA DownRows ==
  ASSUME NEW v \in 1..Latest, NEW rows
  PROVE  RowsAfterScript(Downgrades[v], rows) =
           IF v = 1 THEN NoRows ELSE IF v = 3 THEN WithRole(rows, None) ELSE rows
<1>0. v \in {1, 2, 3, 4, 5, 6}
  BY DEF Latest
<1> DEFINE r1 == WithRole(rows, None)
<1>1. RowsAfterScript(Downgrades[3], rows) = r1
  BY Scripts, RowsAfterIs, RowsAfterStatement DEF Downgrade0003
<1> HIDE DEF r1
<1>2. RowsAfterScript(Downgrades[4], rows) = rows
  BY Scripts, RowsAfterIs, RowsAfterStatement DEF Downgrade0004
<1>3. RowsAfterScript(Downgrades[6], rows) = rows
  BY Scripts, RowsAfterIs, RowsAfterStatement DEF Downgrade0006
<1>4. /\ RowsAfterScript(Downgrades[1], rows) = NoRows
      /\ RowsAfterScript(Downgrades[2], rows) = rows
      /\ RowsAfterScript(Downgrades[5], rows) = rows
  BY Scripts, RowsAfterIs, RowsAfterStatement DEF Downgrade0001, Downgrade0002, Downgrade0005
<1> QED
  BY <1>0, <1>1, <1>2, <1>3, <1>4 DEF r1

-----------------------------------------------------------------------------
(* What a revision that applies makes of the tables and of the rows of users. *)
LEMMA Revised ==
  ASSUME NEW k, cmd[k].at \in Versions, cmd[k].goal \in Versions, cmd[k].at # cmd[k].goal,
         ~Outcome(k).failed
  PROVE  /\ Target(k) \in Versions
         /\ Fits(cmd[k].at, Seen.schema) => Fits(Target(k), Outcome(k).schema)
         /\ \/ Outcome(k).users = Seen.users
            \/ Exclusive(k) /\ Target(k) = 0 /\ Outcome(k).users = NoRows
            \/ /\ Exclusive(k)
               /\ \/ Outcome(k).users = WithRole(Seen.users, DefaultRole)
                  \/ Outcome(k).users = WithRole(Seen.users, None)
<1> DEFINE r1 == WithRole(Seen.users, DefaultRole)
           r2 == WithRole(Seen.users, None)
<1>1. /\ Outcome(k).schema = After(Statements(k), Seen.schema)
      /\ Outcome(k).users = RowsAfterScript(Statements(k), Seen.users)
  <2>1. \E v \in 1..Latest : Statements(k) \in {Upgrades[v], Downgrades[v]}
    BY DEF Statements, Upward, Versions, Latest
  <2>2. (\E s : Statements(k) = <<s>>) \/ (\E s, t : Statements(k) = <<s, t>>)
    BY <2>1, ScriptLengths
  <2> QED
    BY <2>2, OneApplies, TwoApply, AfterIs, RowsAfterIs
<1>2. CASE Upward(k)
  <2>1. /\ Target(k) \in 1..Latest /\ Target(k) - 1 = cmd[k].at /\ Target(k) \in Versions
        /\ Statements(k) = Upgrades[Target(k)]
    BY <1>2 DEF Upward, Target, Statements, Versions, Latest
  <2>2. Fits(cmd[k].at, Seen.schema) => Fits(Target(k), Outcome(k).schema)
    BY <1>1, <2>1, UpFits
  <2>3. Outcome(k).users = IF Target(k) = 3 THEN r1 ELSE Seen.users
    BY <1>1, <2>1, UpRows
  <2>4. Target(k) = 3 => Exclusive(k)
    BY DEF Exclusive
  <2> QED
    BY <2>1, <2>2, <2>3, <2>4
<1>3. CASE ~Upward(k)
  <2>1. /\ cmd[k].at \in 1..Latest /\ Target(k) = cmd[k].at - 1 /\ Target(k) \in Versions
        /\ Statements(k) = Downgrades[cmd[k].at]
    BY <1>3 DEF Upward, Target, Statements, Versions, Latest
  <2>2. Fits(cmd[k].at, Seen.schema) => Fits(Target(k), Outcome(k).schema)
    BY <1>1, <2>1, DownFits
  <2>3. Outcome(k).users = IF cmd[k].at = 1 THEN NoRows ELSE IF cmd[k].at = 3 THEN r2 ELSE Seen.users
    BY <1>1, <2>1, DownRows
  <2>4. Exclusive(k) /\ (cmd[k].at = 1 => Target(k) = 0)
    BY <1>3, <2>1 DEF Exclusive
  <2> QED
    BY <2>1, <2>2, <2>3, <2>4
<1> QED
  BY <1>2, <1>3

-----------------------------------------------------------------------------
(* A command that has run revisions is where its transaction is, and has reached
   its goal when that is the base. *)
CommandInv ==
  /\ version \in Versions
  /\ cmd \in [Commands -> [at : Versions, goal : Versions] \cup {None}]
  /\ started \in 0..MaxCommands
  /\ draft # None =>
       /\ draft.owner \in Commands /\ cmd[draft.owner] # None
       /\ draft.version = cmd[draft.owner].at
       /\ draft.version = 0 => cmd[draft.owner].goal = 0

(* The tables, committed or not, are those of their revision. *)
TablesInv ==
  /\ Fits(version, schema)
  /\ draft # None => Fits(draft.version, draft.schema)

MInv == CommandInv /\ TablesInv

(* A revision that runs, inside its transaction. *)
LEMMA ReviseKeeps ==
  ASSUME MInv, NEW k \in Commands, Revise(k)
  PROVE  MInv'
<1> USE DEF MInv, CommandInv
<1>1. /\ cmd[k] # None /\ cmd[k].at \in Versions /\ cmd[k].goal \in Versions
      /\ cmd[k].at # cmd[k].goal /\ ~Outcome(k).failed
      /\ cmd' = [cmd EXCEPT ![k].at = Target(k)]
      /\ Owner \in {None, k} /\ Seen.version = cmd[k].at
      /\ UNCHANGED <<version, schema, started>>
  BY DEF Revise, Running, Granted, VersionMatches
<1>2. /\ draft'.owner = k /\ draft'.version = Target(k) /\ draft'.schema = Outcome(k).schema
  BY DEF Revise
<1>3. Target(k) \in Versions /\ (Fits(cmd[k].at, Seen.schema) => Fits(Target(k), Outcome(k).schema))
  BY <1>1, Revised
<1>4. Fits(cmd[k].at, Seen.schema)
  BY <1>1 DEF Seen, TablesInv
<1>5. /\ cmd'[k] \in [at : Versions, goal : Versions]
      /\ cmd'[k].at = Target(k) /\ cmd'[k].goal = cmd[k].goal
      /\ \A j \in Commands \ {k} : cmd'[j] = cmd[j]
      /\ cmd' \in [Commands -> [at : Versions, goal : Versions] \cup {None}]
  BY <1>1, <1>3
<1>6. cmd'[k] # None
  BY <1>5, NoneAssumption
<1>7. Target(k) = 0 => cmd[k].goal = 0
  BY <1>1 DEF Target, Upward, Versions, Latest
<1> QED
  BY <1>1, <1>2, <1>3, <1>4, <1>5, <1>6, <1>7 DEF TablesInv

(* The operator's CHECK. *)
LEMMA AddRoleCheckKeeps ==
  ASSUME MInv, AddRoleCheck
  PROVE  MInv'
<1> PICK checks \in CheckSets(3) : schema = Having(Names(3), Columns(3), checks)
  BY DEF MInv, TablesInv, AddRoleCheck, Fits
<1>1. "users" \in Names(3) /\ Columns(3) = {"role"}
  BY NamesAre DEF Columns
<1>2. \A c \in checks : c.name = "user_role"
  BY DEF CheckSets, RoleCheck, Check
<1>3. checks = {}
  BY <1>1, <1>2, ChecksOf DEF AddRoleCheck
<1>4. schema' = Having(Names(3), Columns(3), {RoleCheck(OldRoles)})
  BY <1>1, <1>2, <1>3, RoleStatements DEF AddRoleCheck
<1>5. Fits(3, schema')
  BY <1>4 DEF Fits, CheckSets
<1> QED
  BY <1>5 DEF AddRoleCheck, MInv, CommandInv, TablesInv

(* Every step of any command keeps MInv. *)
LEMMA MInvInductive == MInv /\ [Next]_mvars => MInv'
<1> SUFFICES ASSUME MInv, [Next]_mvars PROVE MInv'
  OBVIOUS
<1> USE DEF MInv, CommandInv, TablesInv
<1>1. ASSUME NEW k \in Commands, Connect(k) PROVE MInv'
  <2>1. PICK goal \in Versions : cmd' = [cmd EXCEPT ![k] = [at |-> version, goal |-> goal]]
    BY <1>1 DEF Connect
  <2>2. draft # None => draft.owner # k
    BY <1>1 DEF Connect
  <2>3. started' \in 0..MaxCommands
    BY <1>1, MaxCommandsAssumption DEF Connect
  <2> QED
    BY <1>1, <2>1, <2>2, <2>3 DEF Connect
<1>2. ASSUME NEW k \in Commands, Revise(k) PROVE MInv'
  BY <1>2, ReviseKeeps
<1>3. ASSUME NEW k \in Commands, RollBack(k) PROVE MInv'
  BY <1>3, NoneAssumption DEF RollBack, Owner
<1>4. ASSUME NEW k \in Commands, Finish(k) PROVE MInv'
  <2>1. draft' # None => draft' = draft /\ draft.owner # k
    BY <1>4, NoneAssumption DEF Finish, Owner
  <2>2. version' \in Versions /\ Fits(version', schema')
    BY <1>4, NoneAssumption DEF Finish, Owner
  <2> QED
    BY <1>4, <2>1, <2>2 DEF Finish
<1>5. CASE AddRoleCheck
  BY <1>5, AddRoleCheckKeeps
<1>6. CASE UNCHANGED mvars
  BY <1>6 DEF mvars
<1> QED
  BY <1>1, <1>2, <1>3, <1>4, <1>5, <1>6 DEF Next, Advance, Refuse, Kill

(* An empty database without commands. *)
LEMMA MInvInit == Init => MInv
<1> SUFFICES ASSUME Init PROVE MInv
  OBVIOUS
<1>1. Fits(version, schema) /\ version \in Versions
  BY SchemaAtFits DEF Init, Versions, Latest
<1> QED
  BY <1>1, MaxCommandsAssumption DEF Init, MInv, CommandInv, TablesInv

-----------------------------------------------------------------------------
(* The tables of a revision differ in the CHECK on users.role alone. *)
LEMMA BesideIs ==
  ASSUME NEW v \in Versions, NEW tables, Fits(v, tables)
  PROVE  /\ BesideRole(tables) = Having(Names(v), Columns(v), {})
         /\ v > 0 => RoleChecks(tables) \in CheckSets(v)
<1> PICK checks \in CheckSets(v) : tables = Having(Names(v), Columns(v), checks)
  BY DEF Fits
<1>1. \A c \in checks : c.name = "user_role"
  BY DEF CheckSets, RoleCheck, Check
<1>2. DOMAIN tables = Names(v)
  BY DEF Having
<1>3. "users" \in Names(v) =>
        /\ RoleChecks(tables) = checks
        /\ [tables["users"] EXCEPT !.checks = @ \ RoleChecks(tables)] = UsersWith(Columns(v), {})
  <2> SUFFICES ASSUME "users" \in Names(v)
               PROVE  /\ RoleChecks(tables) = checks
                      /\ [tables["users"] EXCEPT !.checks = @ \ RoleChecks(tables)] =
                           UsersWith(Columns(v), {})
    OBVIOUS
  <2>1. RoleChecks(tables) = checks
    BY <1>1, ChecksOf
  <2>2. tables["users"] = UsersWith(Columns(v), checks)
    BY DEF Having
  <2>3. UsersWith(Columns(v), checks).checks \ checks = {}
    BY DEF UsersWith, TableOf
  <2>4. [UsersWith(Columns(v), checks) EXCEPT !.checks = @ \ checks] = UsersWith(Columns(v), {})
    BY <2>3 DEF UsersWith, TableOf
  <2> QED
    BY <2>1, <2>2, <2>4
<1>4. v > 0 => "users" \in Names(v)
  BY NamesAre DEF Versions, Latest
<1>5. ASSUME NEW t \in Names(v)
      PROVE  BesideRole(tables)[t] = Having(Names(v), Columns(v), {})[t]
  BY <1>2, <1>3 DEF BesideRole, Having
<1>6. BesideRole(tables) = [t \in Names(v) |-> BesideRole(tables)[t]]
  BY <1>2 DEF BesideRole
<1>7. BesideRole(tables) = Having(Names(v), Columns(v), {})
  BY <1>5, <1>6 DEF Having
<1> QED
  BY <1>3, <1>4, <1>7

(* At the last revision the tables are those of db/models.py. *)
LEMMA ModelsAreLatest ==
  ASSUME NEW tables, Fits(Latest, tables)
  PROVE  BesideRole(tables) = Models
<1>1. BesideRole(tables) = Having(Names(6), Columns(6), {})
  BY BesideIs DEF Latest, Versions
<1>2. DOMAIN Models = Names(6)
  BY NamesAre DEF Models
<1>3. Models["users"] = UsersWith(Columns(6), {})
  <2>1. UsersTable.required \cup {"role"} = {"id", "username", "password_hash", "role", "created_at"}
    BY DEF UsersTable
  <2>2. Columns(6) = {"role"}
    BY DEF Columns
  <2>3. UsersWith({"role"}, {}) =
          [required |-> UsersTable.required \cup {"role"}, optional |-> UsersTable.optional,
           unique |-> UsersTable.unique, refs |-> UsersTable.refs, checks |-> {}]
    BY DEF UsersWith, TableOf
  <2>4. /\ UsersTable.optional = {} /\ UsersTable.unique = {{"id"}, {"username"}}
        /\ UsersTable.refs = {}
    BY DEF UsersTable
  <2>5. Models["users"] = ModelUsers
    BY DEF Models
  <2> QED
    BY <2>1, <2>2, <2>3, <2>4, <2>5 DEF ModelUsers
<1>4. /\ Models["products"] = Tables["products"] /\ Models["stores"] = Tables["stores"]
      /\ Models["inventory"] = Tables["inventory"]
      /\ Models["inventory_movements"] = Tables["inventory_movements"]
  BY DEF Models, Tables, ModelProducts, ProductsTable, ModelStores, StoresTable, ModelInventory,
     InventoryTable, ModelMovements, MovementsTable
<1>5. ASSUME NEW t \in Names(6) PROVE Having(Names(6), Columns(6), {})[t] = Models[t]
  BY <1>3, <1>4, NamesAre DEF Having
<1>6. Models = [t \in Names(6) |-> Models[t]]
  BY <1>2 DEF Models
<1>7. BesideRole(tables) = Models
  BY <1>1, <1>5, <1>6 DEF Having
<1> QED
  BY <1>7

(* MInv says of the committed tables what SchemaFitsVersion says. *)
LEMMA FitsMeans == MInv => SchemaFitsVersion
<1> SUFFICES ASSUME MInv PROVE SchemaFitsVersion
  OBVIOUS
<1>1. version \in Versions /\ Fits(version, schema) /\ Fits(version, SchemaAt[version])
  BY SchemaAtFits DEF MInv, CommandInv, TablesInv
<1>2. BesideRole(schema) = BesideRole(SchemaAt[version])
  BY <1>1, BesideIs
<1>3. RoleCheckFits(version, schema)
  <2>1. version > 0 => RoleChecks(schema) \in CheckSets(version)
    BY <1>1, BesideIs
  <2>2. CASE version = 0
    BY <2>2 DEF RoleCheckFits
  <2>3. CASE version \in {1, 2}
    <3>1. RoleChecks(schema) = {}
      BY <2>1, <2>3 DEF CheckSets
    <3>2. version # 0 /\ version # 3 /\ ~(version > 3)
      BY <2>3
    <3> QED
      BY <2>3, <3>1, <3>2, Zenon DEF RoleCheckFits
  <2>4. CASE version = 3
    BY <2>1, <2>4 DEF RoleCheckFits, CheckSets
  <2>5. CASE version \in {4, 5, 6}
    <3>1. RoleChecks(schema) = {RoleCheck(Roles)}
      BY <2>1, <2>5 DEF CheckSets
    <3>2. version \notin {0, 1, 2, 3} /\ version > 3
      BY <2>5
    <3> QED
      BY <3>1, <3>2, Zenon DEF RoleCheckFits
  <2> QED
    BY <1>1, <2>2, <2>3, <2>4, <2>5 DEF Versions, Latest
<1>4. version = Latest => BesideRole(schema) = Models
  BY <1>1, ModelsAreLatest
<1> QED
  BY <1>2, <1>3, <1>4 DEF SchemaFitsVersion

-----------------------------------------------------------------------------
(* Where the CHECK on users.role is, no row there is can be read. *)
Checked(tables, rows) ==
  HasRole(tables) /\ RoleChecks(tables) # {} =>
    \A i \in Ids : rows[i] # None => ~Loadable(rows[i].role)

(* No value is a name, and a CHECK that PostgreSQL accepts leaves no row with a
   name. *)
LEMMA ValuesAreNoNames ==
  ASSUME None \notin RoleNames, NEW rows, NEW roles \in {Roles, OldRoles},
         RolesIn(rows) \subseteq roles
  PROVE  \A i \in Ids : rows[i] # None => ~Loadable(rows[i].role)
<1>1. roles \cap RoleNames = {}
  BY DEF Roles, OldRoles, RoleNames
<1>2. \A i \in Ids : rows[i] # None => rows[i].role = None \/ rows[i].role \in RolesIn(rows)
  BY DEF RolesIn
<1> QED
  BY <1>1, <1>2 DEF Loadable

(* The CHECK of a revision allows none of the strings that the mapper writes. *)
LEMMA NamesRefused ==
  ASSUME NEW v \in Versions, NEW tables, Fits(v, tables), HasRole(tables), RoleChecks(tables) # {}
  PROVE  Allowed(tables) \cap RoleNames = {}
<1>1. v > 0
  <2>1. CASE v = 0
    BY <2>1, NamesAre DEF Fits, Having, HasRole
  <2> QED
    BY <2>1 DEF Versions
<1>2. RoleChecks(tables) \in CheckSets(v)
  BY <1>1, BesideIs
<1>3. PICK roles \in {Roles, OldRoles} : RoleCheck(roles) \in RoleChecks(tables)
  BY <1>2 DEF CheckSets
<1>4. Allowed(tables) \subseteq roles
  BY <1>3 DEF Allowed, RoleCheck, Check
<1> QED
  BY <1>4 DEF Roles, OldRoles, RoleNames

(* The two scripts that put the CHECK up look at every row. *)
LEMMA CheckScriptLooks ==
  ASSUME None \notin RoleNames, NEW k, ~Outcome(k).failed, NEW roles \in {Roles, OldRoles},
         Statements(k) = <<DropCheck, AddCheck(roles)>>
  PROVE  Checked(Outcome(k).schema, Outcome(k).users)
<1>1. /\ Possible(AddCheck(roles), Altered(DropCheck, Seen.schema),
                  RolesIn(RowsAfter(DropCheck, Seen.users)))
      /\ Outcome(k).users = RowsAfter(AddCheck(roles), RowsAfter(DropCheck, Seen.users))
  BY TwoApply
<1>2. Outcome(k).users = Seen.users /\ RowsAfter(DropCheck, Seen.users) = Seen.users
  BY <1>1, RowsAfterStatement
<1>3. AddCheck(roles).do = "add_check" /\ AddCheck(roles).roles = roles
  BY DEF AddCheck
<1>4. RolesIn(Seen.users) \subseteq roles
  BY <1>1, <1>2, <1>3 DEF Possible
<1> QED
  BY <1>2, <1>4, ValuesAreNoNames DEF Checked

(* A revision that applies keeps it so. *)
LEMMA RevisedChecked ==
  ASSUME None \notin RoleNames, NEW k, cmd[k].at \in Versions, cmd[k].goal \in Versions,
         cmd[k].at # cmd[k].goal, ~Outcome(k).failed,
         Fits(cmd[k].at, Seen.schema), Checked(Seen.schema, Seen.users)
  PROVE  Checked(Outcome(k).schema, Outcome(k).users)
<1>1. Target(k) \in Versions /\ Fits(Target(k), Outcome(k).schema)
  BY Revised
<1>2. Outcome(k).schema = After(Statements(k), Seen.schema)
      /\ Outcome(k).users = RowsAfterScript(Statements(k), Seen.users)
  <2>1. \E v \in 1..Latest : Statements(k) \in {Upgrades[v], Downgrades[v]}
    BY DEF Statements, Upward, Versions, Latest
  <2>2. (\E s : Statements(k) = <<s>>) \/ (\E s, t : Statements(k) = <<s, t>>)
    BY <2>1, ScriptLengths
  <2> QED
    BY <2>2, OneApplies, TwoApply, AfterIs, RowsAfterIs
<1>3. CASE Target(k) < 3
  <2>1. Target(k) > 0 => RoleChecks(Outcome(k).schema) = {}
    BY <1>1, <1>3, BesideIs DEF CheckSets
  <2>2. Target(k) = 0 => ~HasRole(Outcome(k).schema)
    BY <1>1, NamesAre DEF Fits, Having, HasRole
  <2> QED
    BY <1>1, <2>1, <2>2 DEF Checked, Versions
<1>4. CASE Target(k) = 3 /\ Upward(k)
  <2>1. cmd[k].at = 2 /\ Statements(k) = Upgrades[3]
    BY <1>4 DEF Target, Statements, Versions, Latest
  <2>2. Seen.schema = Having({"users", "products"}, {}, {})
    BY <2>1, NamesAre DEF CheckSets, Columns, Fits
  <2>3. Outcome(k).schema = Having({"users", "products"}, {"role"}, {})
    BY <1>2, <2>1, <2>2, Scripts, AfterIs, RoleStatements DEF Upgrade0003
  <2>4. RoleChecks(Outcome(k).schema) = {}
    BY <2>3, ChecksOf
  <2> QED
    BY <2>4 DEF Checked
<1>5. CASE Target(k) = 3 /\ ~Upward(k)
  <2>1. Statements(k) = <<DropCheck, AddCheck(OldRoles)>>
    BY <1>5, Scripts DEF Target, Statements, Versions, Latest, Downgrade0004
  <2> QED
    BY <2>1, CheckScriptLooks
<1>6. CASE Target(k) = 4 /\ Upward(k)
  <2>1. Statements(k) = <<DropCheck, AddCheck(Roles)>>
    BY <1>6, Scripts DEF Target, Statements, Versions, Latest, Upgrade0004
  <2> QED
    BY <2>1, CheckScriptLooks
<1>7. CASE Target(k) > 4 \/ (Target(k) = 4 /\ ~Upward(k))
  <2>1. cmd[k].at \in {4, 5, 6}
    BY <1>1, <1>7 DEF Target, Upward, Versions, Latest
  <2>2. Outcome(k).users = Seen.users
    <3>1. CASE Upward(k)
      BY <1>1, <1>2, <1>7, <3>1, UpRows DEF Target, Statements, Versions, Latest
    <3>2. CASE ~Upward(k)
      BY <1>1, <1>2, <1>7, <3>2, DownRows DEF Target, Statements, Versions, Latest
    <3> QED
      BY <3>1, <3>2
  <2>3. PICK checks \in CheckSets(cmd[k].at) :
          Seen.schema = Having(Names(cmd[k].at), Columns(cmd[k].at), checks)
    BY DEF Fits
  <2>4. "users" \in Names(cmd[k].at) /\ Columns(cmd[k].at) = {"role"} /\ checks = {RoleCheck(Roles)}
    BY <2>1, <2>3, NamesAre DEF Columns, CheckSets
  <2>5. RoleChecks(Seen.schema) = {RoleCheck(Roles)}
    BY <2>3, <2>4, ChecksOf DEF RoleCheck, Check
  <2>6. HasRole(Seen.schema)
    BY <2>3, <2>4 DEF HasRole, Having, UsersWith, TableOf
  <2> QED
    BY <2>2, <2>5, <2>6 DEF Checked
<1> QED
  BY <1>1, <1>3, <1>4, <1>5, <1>6, <1>7 DEF Versions
=============================================================================
