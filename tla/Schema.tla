------------------------------- MODULE Schema -------------------------------
(***************************************************************************)
(* The tables of the database as the Alembic revisions 0001 to 0006 build  *)
(* and take them down, statement by statement, and as db/models.py         *)
(* declares them.  A table is what the rest of the API depends on: its     *)
(* columns and which of them may be null, its keys, its foreign keys and   *)
(* its CHECKs.  Types, widths and indexes are left out.                    *)
(***************************************************************************)
EXTENDS Naturals, Sequences

Latest == 6    \* the last revision; 0 is Alembic's "base", an empty database

(* Role: the strings of its values, which the revisions and --role use, those of
   the days before 0004 among them, and its names. *)
Roles     == {"admin", "seller", "vendor", "customer"}
OldRoles  == {"admin", "seller", "customer"}
RoleNames == {"ADMIN", "SELLER", "VENDOR", "CUSTOMER"}

(* What the mapper writes for a role: Enum(Role, native_enum=False) without
   values_callable stores the name, not the value. *)
StoredRole(value) == CASE value = "admin"    -> "ADMIN"
                       [] value = "seller"   -> "SELLER"
                       [] value = "vendor"   -> "VENDOR"
                       [] value = "customer" -> "CUSTOMER"

LoadableAny(role) == TRUE

(* The mapper reads names back; any other string is a LookupError. *)
Loadable(role) == role \in RoleNames

Check(name, rule) == [name |-> name, rule |-> rule]
RoleCheck(roles) == Check("user_role", roles)

ToUsers(column) == <<column, "users">>

UsersTable == [required |-> {"id", "username", "password_hash", "created_at"},
               optional |-> {},
               unique   |-> {{"id"}, {"username"}},
               refs     |-> {},
               checks   |-> {}]

ProductsTable ==
  [required |-> {"id", "name", "slug", "price_cents", "currency", "is_active", "created_by",
                 "created_at", "updated_at"},
   optional |-> {"description", "sku"},
   unique   |-> {{"id"}, {"slug"}, {"sku"}},
   refs     |-> {ToUsers("created_by")},
   checks   |-> {}]

StoresTable ==
  [required |-> {"id", "kind", "name", "slug", "currency", "timezone", "is_active", "created_by",
                 "created_at", "updated_at"},
   optional |-> {"description", "address_line1", "address_line2", "city", "region", "country",
                 "postal_code", "latitude", "longitude", "phone", "contact_email", "domain",
                 "owner_user_id"},
   unique   |-> {{"id"}, {"slug"}},
   refs     |-> {ToUsers("owner_user_id"), ToUsers("created_by")},
   checks   |-> {Check("ck_stores_physical_address",
                       "physical needs address_line1, city and country"),
                 Check("ck_stores_online_domain", "online needs domain and no owner"),
                 Check("ck_stores_marketplace_owner", "marketplace needs owner")}]

InventoryTable ==
  [required |-> {"product_id", "store_id", "quantity", "updated_by", "updated_at"},
   optional |-> {"reorder_threshold"},
   unique   |-> {{"product_id", "store_id"}},
   refs     |-> {<<"product_id", "products">>, <<"store_id", "stores">>, ToUsers("updated_by")},
   checks   |-> {Check("ck_inventory_quantity_nonneg", "quantity >= 0"),
                 Check("ck_inventory_threshold_nonneg", "no threshold, or >= 0")}]

MovementsTable ==
  [required |-> {"id", "product_id", "store_id", "delta", "reason", "quantity_after",
                 "created_by", "created_at"},
   optional |-> {"note"},
   unique   |-> {{"id"}},
   refs     |-> {<<"product_id", "products">>, <<"store_id", "stores">>, ToUsers("created_by")},
   checks   |-> {Check("ck_inv_mov_qty_after_nonneg", "quantity_after >= 0"),
                 Check("ck_inv_mov_delta_nonzero", "delta != 0")}]

-----------------------------------------------------------------------------
CreateTable(t, as) == [do |-> "create_table", table |-> t, as |-> as]
DropTable(t)       == [do |-> "drop_table", table |-> t]
AddRole            == [do |-> "add_role"]
DropRole           == [do |-> "drop_role"]
AddCheck(roles)    == [do |-> "add_check", roles |-> roles]
DropCheck          == [do |-> "drop_check"]

(* upgrade() and downgrade() of each revision, with a mutant of one of them.
   The Enum of 0003 is not native and leaves create_constraint at its default,
   which is no CHECK. *)
Upgrade0001 == <<CreateTable("users", UsersTable)>>
Upgrade0002 == <<CreateTable("products", ProductsTable)>>
Upgrade0003 == <<AddRole>>
Upgrade0004 == <<DropCheck, AddCheck(Roles)>>
Upgrade0005 == <<CreateTable("stores", StoresTable)>>
Upgrade0006 == <<CreateTable("inventory", InventoryTable),
                 CreateTable("inventory_movements", MovementsTable)>>

Downgrade0001 == <<DropTable("users")>>
Downgrade0002 == <<DropTable("products")>>
Downgrade0003 == <<DropRole>>
Downgrade0004 == <<DropCheck, AddCheck(OldRoles)>>
Downgrade0005 == <<DropTable("stores")>>
Downgrade0006OneTable == <<DropTable("inventory_movements")>>
Downgrade0006 == <<DropTable("inventory_movements"), DropTable("inventory")>>

Upgrades == <<Upgrade0001, Upgrade0002, Upgrade0003, Upgrade0004, Upgrade0005, Upgrade0006>>
Downgrades ==
  <<Downgrade0001, Downgrade0002, Downgrade0003, Downgrade0004, Downgrade0005, Downgrade0006>>

-----------------------------------------------------------------------------
RoleChecks(schema) == {c \in schema["users"].checks : c.name = "user_role"}

HasRole(schema) == "users" \in DOMAIN schema /\ "role" \in schema["users"].required

(* The strings a row of users may hold as its role: the CHECK lists values, the
   mapper writes names. *)
Allowed(schema) ==
  {role \in RoleNames \cup Roles : \A c \in RoleChecks(schema) : role \in c.rule}

DefaultRoleAdmin == "ADMIN"

(* The string server_default gives to the rows that are there already: a value,
   which the mapper cannot read. *)
DefaultRole == "customer"

(* Whether PostgreSQL executes a statement: names must be new, or there, what
   is referenced must exist and stay, and a new CHECK must hold of the roles that
   rows have. *)
Possible(s, schema, roles) ==
  LET tables == DOMAIN schema
  IN CASE s.do = "create_table" -> /\ s.table \notin tables
                                   /\ \A ref \in s.as.refs : ref[2] \in tables
       [] s.do = "drop_table"   -> /\ s.table \in tables
                                   /\ \A t \in tables : \A ref \in schema[t].refs :
                                        ref[2] # s.table
       [] s.do = "add_role"     -> "users" \in tables /\ ~HasRole(schema)
       [] s.do = "drop_role"    -> HasRole(schema)
       [] s.do = "drop_check"   -> HasRole(schema) /\ RoleChecks(schema) # {}
       [] s.do = "add_check"    -> /\ HasRole(schema) /\ RoleChecks(schema) = {}
                                   /\ \A role \in roles : role \in s.roles

Without(schema, t) == [u \in DOMAIN schema \ {t} |-> schema[u]]

(* The tables after a statement.  Dropping the column drops its CHECK. *)
Altered(s, schema) ==
  CASE s.do = "create_table" -> [u \in DOMAIN schema \cup {s.table} |->
                                   IF u = s.table THEN s.as ELSE schema[u]]
    [] s.do = "drop_table"   -> Without(schema, s.table)
    [] s.do = "add_role"     -> [schema EXCEPT !["users"].required = @ \cup {"role"}]
    [] s.do = "drop_role"    -> [schema EXCEPT !["users"].required = @ \ {"role"},
                                               !["users"].checks = @ \ RoleChecks(schema)]
    [] s.do = "drop_check"   -> [schema EXCEPT !["users"].checks = @ \ RoleChecks(schema)]
    [] s.do = "add_check"    -> [schema EXCEPT !["users"].checks = @ \cup {RoleCheck(s.roles)}]

(* The tables a script of statements leaves. *)
Built(schema, script) ==
  LET after[n \in 0..Len(script)] ==
        IF n = 0 THEN schema ELSE Altered(script[n], after[n - 1])
  IN after[Len(script)]

(* The tables an unhindered upgrade from nothing to revision v leaves. *)
SchemaAt[v \in 0..Latest] ==
  IF v = 0 THEN <<>> ELSE Built(SchemaAt[v - 1], Upgrades[v])

(* The same tables but for the CHECK on users.role, and that CHECK.  Revision 3
   has none when it was reached from below, and one when it was put there by hand
   or by the downgrade of 0004. *)
BesideRole(schema) ==
  [t \in DOMAIN schema |->
     IF t = "users" THEN [schema[t] EXCEPT !.checks = @ \ RoleChecks(schema)] ELSE schema[t]]

RoleCheckFits(v, schema) ==
  CASE v = 0        -> TRUE
    [] v \in {1, 2} -> RoleChecks(schema) = {}
    [] v = 3        -> RoleChecks(schema) \in {{}, {RoleCheck(OldRoles)}}
    [] v > 3        -> RoleChecks(schema) = {RoleCheck(Roles)}

-----------------------------------------------------------------------------
(* What db/models.py declares: unique=True is a key, ForeignKey a reference,
   Mapped[... | None] a column that may be null.  Its enums declare no CHECK, and
   keep names in their columns (StoredRole). *)
ModelUsers == [required |-> {"id", "username", "password_hash", "role", "created_at"},
               optional |-> {},
               unique   |-> {{"id"}, {"username"}},
               refs     |-> {},
               checks   |-> {}]

ModelProducts ==
  [required |-> {"id", "name", "slug", "price_cents", "currency", "is_active", "created_by",
                 "created_at", "updated_at"},
   optional |-> {"description", "sku"},
   unique   |-> {{"id"}, {"slug"}, {"sku"}},
   refs     |-> {ToUsers("created_by")},
   checks   |-> {}]

ModelStores ==
  [required |-> {"id", "kind", "name", "slug", "currency", "timezone", "is_active", "created_by",
                 "created_at", "updated_at"},
   optional |-> {"description", "address_line1", "address_line2", "city", "region", "country",
                 "postal_code", "latitude", "longitude", "phone", "contact_email", "domain",
                 "owner_user_id"},
   unique   |-> {{"id"}, {"slug"}},
   refs     |-> {ToUsers("owner_user_id"), ToUsers("created_by")},
   checks   |-> {Check("ck_stores_physical_address",
                       "physical needs address_line1, city and country"),
                 Check("ck_stores_online_domain", "online needs domain and no owner"),
                 Check("ck_stores_marketplace_owner", "marketplace needs owner")}]

ModelInventory ==
  [required |-> {"product_id", "store_id", "quantity", "updated_by", "updated_at"},
   optional |-> {"reorder_threshold"},
   unique   |-> {{"product_id", "store_id"}},
   refs     |-> {<<"product_id", "products">>, <<"store_id", "stores">>, ToUsers("updated_by")},
   checks   |-> {Check("ck_inventory_quantity_nonneg", "quantity >= 0"),
                 Check("ck_inventory_threshold_nonneg", "no threshold, or >= 0")}]

ModelMovements ==
  [required |-> {"id", "product_id", "store_id", "delta", "reason", "quantity_after",
                 "created_by", "created_at"},
   optional |-> {"note"},
   unique   |-> {{"id"}},
   refs     |-> {<<"product_id", "products">>, <<"store_id", "stores">>, ToUsers("created_by")},
   checks   |-> {Check("ck_inv_mov_qty_after_nonneg", "quantity_after >= 0"),
                 Check("ck_inv_mov_delta_nonzero", "delta != 0")}]

Models == [users |-> ModelUsers, products |-> ModelProducts, stores |-> ModelStores,
           inventory |-> ModelInventory, inventory_movements |-> ModelMovements]
=============================================================================
