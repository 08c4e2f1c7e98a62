----------------------------- MODULE Deployment -----------------------------
(***************************************************************************)
(* A running service: operators migrate the database (Migrations) while    *)
(* users are created, log in and use their tokens (Accounts).  The two     *)
(* share the table users; a revision waits for the sessions that have it   *)
(* open, and they wait for a revision.                                     *)
(***************************************************************************)
EXTENDS Migrations, Integers

CONSTANTS Usernames, Passwords, Grants, Operators, Requests, Workers, Keys,
          Lifetime, MaxTime, MaxTokens   \* of Accounts

ASSUME LifetimeAssumption == Lifetime \in Nat
ASSUME MaxTimeAssumption == MaxTime \in Nat

ASSUME GrantsAssumption == Grants \subseteq Roles

(* A row of users: without a role, with a name the mapper wrote, or with the value
   that 0003 filled in. *)
UserRows == [username : Usernames, password_hash : [hash_of : Passwords],
             role : RoleNames \cup {DefaultRole, None}]

ASSUME RowsAssumption == None \notin Passwords \cup UserRows \cup RoleNames

VARIABLES created, tokens, clock, secret, settings, cli, req   \* of Accounts

App == INSTANCE Accounts

aonly == <<created, tokens, clock, secret, settings, cli, req>>
vars == <<mvars, aonly>>

DInit == Init /\ App!AInit

(* open is what the sessions of the service make it. *)
Sessions == open' = App!OpenSessions'

Migrate == Next /\ UNCHANGED aonly

Serve == App!ANext /\ Sessions /\ UNCHANGED <<version, cmd, started>>

Rest == cmd = [k \in Commands |-> None] /\ UNCHANGED vars

DNext == Migrate \/ Serve \/ Rest

DSpec == DInit /\ [][DNext]_vars

-----------------------------------------------------------------------------
Authorized(r) == IF req[r] = None THEN FALSE ELSE req[r].next = "authorized"

(* Every variable holds a value of its kind, a request goes on with a user only if
   the mapper could read the row, and a session that has read users keeps the
   migrations that would change what it read waiting. *)
TypeOK ==
  /\ MTypeOK
  /\ open = App!OpenSessions
  /\ \A i \in Ids : users[i] # None => users[i] \in UserRows
  /\ \A r \in Requests : Authorized(r) => req[r].row \in UserRows /\ req[r].row.role \in RoleNames
  /\ \A c \in Operators : cli[c] # None => cli[c] \in App!Payloads
  /\ \A token \in tokens : token.sub \in Ids /\ token.born \in 0..clock
  /\ clock \in 0..MaxTime

(* The mapper stores the names of its enum Role and reads nothing else back, and
   the CHECK on users.role, which 0004 puts up and its downgrade leaves, lists the
   values.  While it is there, whatever migrations led to it and whoever was
   logged in before: no role the API or create-user writes is allowed, no row
   there is can be read, and no request is served for any user. *)
CheckLocksEveryoneOut ==
  HasRole(schema) /\ RoleChecks(schema) # {} =>
    /\ Allowed(schema) \cap RoleNames = {}
    /\ \A i \in Ids : users[i] # None => ~Loadable(users[i].role)
    /\ \A r \in Requests : ~Authorized(r)

(* Whoever a token is accepted for is the only user of the name it carries, and
   the one whose password was verified at the login, although create-user checks
   the name in one statement and inserts in another, and the table may have been
   dropped, rebuilt and filled with the same names in between.  Until the request
   ends that row stays as it was read. *)
TokenNamesItsUser ==
  \A r \in Requests : Authorized(r) =>
    LET row == req[r].row
        now == users[req[r].user]
    IN /\ App!IdsNamed(req[r].token.username) = {req[r].user}
       /\ App!verify_password(req[r].token.password, row.password_hash)
       /\ now = row

(* "valid for `JWT_ACCESS_TOKEN_EXPIRE_MINUTES`" (routers/auth.py:42): no token
   is accepted later than expires_in has told its owner, and none is refused more
   than the dropped fraction of a second earlier. *)
TokensLiveAsPromised ==
  \A token \in tokens :
    /\ App!Unexpired(token, clock) => clock < token.born + 2 * Lifetime
    /\ clock < token.born + 2 * Lifetime - 1 => App!Unexpired(token, clock)

(* "rotation invalidates all outstanding tokens" (README.md:382), once every
   process has been restarted: no request is served then for a token that was
   signed with another key, whenever the request began. *)
RotationEndsOldTokens ==
  (\A w \in Workers : settings[w] = secret) =>
    \A r \in Requests : Authorized(r) => req[r].token.key = secret

(* A user has the role the operator granted or none that counts: the role that the
   downgrade of 0003 takes comes back as a string nobody is served with, never as
   another role, whatever revisions and requests overlap.  And a request that is
   served has the very role that was granted to the one whose token it carries. *)
RolesGrantedOrLost ==
  /\ \A i \in Ids : users[i] # None =>
       users[i].role \in {None, "customer", StoredRole(created[i].role)}
  /\ \A r \in Requests : Authorized(r) =>
       req[r].row.role = StoredRole(created[req[r].token.sub].role)

(* Migrations between revisions above the base keep every user, with name and
   password, those created while they were under way included. *)
UsersSurvive ==
  [][version > 0 /\ version' > 0 =>
       \A i \in Ids : users[i] # None =>
         IF users'[i] = None THEN FALSE
         ELSE /\ users'[i].username = users[i].username
              /\ users'[i].password_hash = users[i].password_hash]_vars
=============================================================================
