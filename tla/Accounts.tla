------------------------------ MODULE Accounts ------------------------------
(***************************************************************************)
(* Users and their tokens: the command that creates a user                 *)
(* (cli/create_user.py), POST /auth/login (routers/auth.py), and the first *)
(* steps of every authenticated endpoint (auth/dependencies.py), on the    *)
(* table users that Migrations changes and drops under them.               *)
(*                                                                         *)
(* An action is the code from one await to the next.  What a session has   *)
(* read keeps its transaction open, and with it a share of the table, to   *)
(* the end of the request or command.  Passwords are compared by what      *)
(* bcrypt does: a hash verifies exactly the password it was made of.       *)
(***************************************************************************)
EXTENDS Schema, Integers, FiniteSets

CONSTANTS
  Ids,         \* primary keys of users; uuid4 never repeats one
  Usernames, Passwords,
  Grants,      \* the values of --role
  Operators,   \* runs of the create-user command at once
  Requests,    \* requests in flight at once
  Workers,     \* processes that serve the API
  Keys,        \* values of JWT_SECRET_KEY
  Lifetime,    \* JWT_ACCESS_TOKEN_EXPIRE_MINUTES, in seconds
  MaxTime,     \* bound: the clock, in half seconds
  MaxTokens,   \* bound: tokens issued
  None

VARIABLES
  schema, users, draft,  \* of Migrations: the tables, the rows, the transaction that holds them
  created,     \* Ids -> the payload of the command that inserted the row, or None
  tokens,      \* the tokens issued
  clock,       \* half seconds since the start
  secret,      \* JWT_SECRET_KEY in the environment
  settings,    \* Workers -> the key in the cached Settings of the process
  cli,         \* Operators -> the payload that passed the check, or None
  req          \* Requests -> what the request is about to do, and with what, or None

avars == <<schema, users, draft, created, tokens, clock, secret, settings, cli, req>>

shared == <<schema, users, draft>>
config == <<clock, secret, settings>>

Payloads == [username : Usernames, password : Passwords, role : Grants]

hash_password(password) == [hash_of |-> password]
verify_password(password, hash) == hash = hash_password(password)

AInit ==
  /\ created = [i \in Ids |-> None]
  /\ tokens = {}
  /\ clock = 0
  /\ secret \in Keys
  /\ settings = [w \in Workers |-> secret]
  /\ cli = [c \in Operators |-> None]
  /\ req = [r \in Requests |-> None]

(* _DUMMY_HASH, which no password of a user verifies. *)
Nobody == [password_hash |-> hash_password(None)]

WorkerOf(r) == IF req[r] = None THEN None ELSE req[r].worker

(* Sessions with an open transaction on users. *)
OpenSessions == {c \in Operators : cli[c] # None}
                  \cup {r \in Requests : req[r] # None /\ req[r].next # "load"}

(* A statement on users: the mapper names every column, role among them, and
   waits while a migration has shut readers out, or, to write, while there is any. *)
ShutOut == IF draft = None THEN FALSE ELSE draft.exclusive
Readable == HasRole(schema) /\ ~ShutOut
Writable == HasRole(schema) /\ draft = None

IdsNamed(username) == {i \in Ids : users[i] # None /\ users[i].username = username}

-----------------------------------------------------------------------------
(* The command finds no user of that name; if it does, it exits, and so it does
   when the mapper cannot read the role of the row. *)
CheckName(c, payload) ==
  /\ cli[c] = None
  /\ Readable
  /\ IdsNamed(payload.username) = {}
  /\ cli' = [cli EXCEPT ![c] = payload]
  /\ UNCHANGED <<shared, created, tokens, config, req>>

EndCommand(c) == cli' = [cli EXCEPT ![c] = None] /\ UNCHANGED <<schema, draft, tokens, config, req>>

NameTaken(username) ==
  {"username"} \in schema["users"].unique /\ IdsNamed(username) # {}

Row(payload) == [username |-> payload.username,
                 password_hash |-> hash_password(payload.password),
                 role |-> StoredRole(payload.role)]

(* INSERT and COMMIT.  A second INSERT of the name waits for the end of the first
   transaction, so that both are one step.  A CHECK on role sees the stored name. *)
InsertUser(c) ==
  /\ cli[c] # None
  /\ Writable
  /\ \/ /\ ~NameTaken(cli[c].username) /\ StoredRole(cli[c].role) \in Allowed(schema)
        /\ \E i \in {i \in Ids : created[i] = None} :
             /\ users' = [users EXCEPT ![i] = Row(cli[c])]
             /\ created' = [created EXCEPT ![i] = cli[c]]
     \/ /\ \/ NameTaken(cli[c].username)
           \/ StoredRole(cli[c].role) \notin Allowed(schema)
        /\ UNCHANGED <<users, created>>                          \* IntegrityError
  /\ EndCommand(c)

(* The command is interrupted, or its connection dies. *)
AbortCommand(c) == cli[c] # None /\ UNCHANGED <<users, created>> /\ EndCommand(c)

-----------------------------------------------------------------------------
Second(t) == t \div 2

ExpiryUp(t) == Second(t + 2 * Lifetime + 1)

(* create_access_token: whole seconds, the fraction dropped. *)
Expiry(t) == Second(t + 2 * Lifetime)

(* decode_access_token: PyJWT refuses a token at and after its exp. *)
Unexpired(token, t) == t < 2 * token.exp

(* Settings are read once in the life of a process. *)
SigningKey(w) == settings[w]

Set(r, value) == req' = [req EXCEPT ![r] = value]

(* login's SELECT.  The password is verified whether there is a row or not; a row
   the mapper cannot read ends the request with 500. *)
Login(r, w, username, password) ==
  /\ req[r] = None
  /\ Readable
  /\ Cardinality(tokens) < MaxTokens
  /\ \/ \E i \in IdsNamed(username) :
          /\ Loadable(users[i].role)
          /\ Set(r, [next |-> "verify", worker |-> w, password |-> password, user |-> i,
                     row |-> users[i]])
     \/ /\ IdsNamed(username) = {}
        /\ Set(r, [next |-> "verify", worker |-> w, password |-> password, user |-> None,
                   row |-> Nobody])
  /\ UNCHANGED <<shared, created, tokens, config, cli>>

(* The rest of login, without an await.  born and password are kept for the
   properties; the token itself carries sub, username, exp and its signature. *)
Verify(r) ==
  /\ req[r] # None /\ req[r].next = "verify"
  /\ \/ /\ verify_password(req[r].password, req[r].row.password_hash)
        /\ tokens' = tokens \cup {[sub |-> req[r].user, username |-> req[r].row.username,
                                   exp |-> Expiry(clock), key |-> SigningKey(req[r].worker),
                                   born |-> clock, password |-> req[r].password]}
     \/ /\ ~verify_password(req[r].password, req[r].row.password_hash)
        /\ UNCHANGED tokens                                       \* 401
  /\ Set(r, None)
  /\ UNCHANGED <<shared, created, config, cli>>

(* get_current_user decodes the token before its first await. *)
Authenticate(r, w, token) ==
  /\ req[r] = None
  /\ token.key = SigningKey(w) /\ Unexpired(token, clock)         \* else 401
  /\ Set(r, [next |-> "load", worker |-> w, token |-> token])
  /\ UNCHANGED <<shared, created, tokens, config, cli>>

BearerByName(token) == IdsNamed(token.username)

Bearer(token) == {i \in Ids : users[i] # None /\ i = token.sub}

(* _resolve_user loads the row that the token names. *)
LoadUser(r) ==
  /\ req[r] # None /\ req[r].next = "load"
  /\ Readable
  /\ \/ \E i \in Bearer(req[r].token) :
          /\ Loadable(users[i].role)
          /\ Set(r, [next |-> "authorized", worker |-> req[r].worker, token |-> req[r].token,
                     user |-> i, row |-> users[i]])
     \/ /\ \A i \in Bearer(req[r].token) : ~Loadable(users[i].role)
        /\ Set(r, None)                                           \* 401, or 500
  /\ UNCHANGED <<shared, created, tokens, config, cli>>

(* The handler answers, or the request dies at an await, or a statement finds no
   such table or column.  No handler writes users here: the one that does,
   create_store when it promotes its caller (Stores), needs the table of revision
   5, and from revision 4 on no caller's row can be read. *)
Answer(r) == /\ req[r] # None /\ Set(r, None)
             /\ UNCHANGED <<shared, created, tokens, config, cli>>

Tick == /\ clock < MaxTime /\ clock' = clock + 1
        /\ UNCHANGED <<shared, created, tokens, secret, settings, cli, req>>

(* The operator rotates the key in the environment. *)
Rotate(key) ==
  /\ key # secret
  /\ secret' = key
  /\ UNCHANGED <<shared, created, tokens, clock, settings, cli, req>>

Reload(w) ==
  /\ settings' = [settings EXCEPT ![w] = secret]
  /\ UNCHANGED <<shared, created, tokens, clock, secret, cli, req>>

(* A process starts anew, with the environment of the moment; its requests die. *)
Restart(w) ==
  /\ settings' = [settings EXCEPT ![w] = secret]
  /\ req' = [r \in Requests |-> IF WorkerOf(r) = w THEN None ELSE req[r]]
  /\ UNCHANGED <<shared, created, tokens, clock, secret, cli>>

ANext == \/ \E c \in Operators : \/ \E payload \in Payloads : CheckName(c, payload)
                                 \/ InsertUser(c) \/ AbortCommand(c)
         \/ \E r \in Requests : \/ \E w \in Workers, u \in Usernames, p \in Passwords : Login(r, w, u, p)
                                \/ \E w \in Workers, token \in tokens : Authenticate(r, w, token)
                                \/ Verify(r) \/ LoadUser(r) \/ Answer(r)
         \/ \E w \in Workers : Restart(w)
         \/ \E key \in Keys : Rotate(key)
         \/ Tick
=============================================================================
