-------------------------- MODULE DeploymentProofs --------------------------
(***************************************************************************)
(* Proofs about a running service, for any users, processes, keys, goals   *)
(* and lifetime: a token lives as long as was promised, none outlives the  *)
(* key it was signed with, and each is good for its own user only; tables  *)
(* fit their revision, users survive migrations, a role is the one granted *)
(* or none that counts, and nobody is served under the CHECK on roles.     *)
(***************************************************************************)
EXTENDS Deployment, MigrationsProofs

(* A token's exp is the end of its life, cut to whole seconds. *)
TokenInv ==
  /\ clock \in Nat
  /\ \A token \in tokens : token.born \in Nat /\ token.exp = App!Expiry(token.born)

HasToken(r) == req[r] # None /\ req[r].next \in {"load", "authorized"}

(* A request that carries a token lives in the process that accepted it, and that
   process has kept its key. *)
KeyInv ==
  /\ req = [r \in Requests |-> req[r]]
  /\ settings = [w \in Workers |-> settings[w]]
  /\ \A r \in Requests : HasToken(r) =>
       req[r].worker \in Workers /\ req[r].token.key = settings[req[r].worker]

-----------------------------------------------------------------------------
(* Only a login issues a token, and with the expiry of that moment. *)
LEMMA TokenInductive == TokenInv /\ [DNext]_vars => TokenInv'
<1> SUFFICES ASSUME TokenInv, [DNext]_vars PROVE TokenInv'
  OBVIOUS
<1> USE DEF TokenInv
<1>1. ASSUME NEW r \in Requests, App!Verify(r) PROVE TokenInv'
  BY <1>1 DEF App!Verify, App!config, App!Expiry, App!Second
<1>2. CASE App!Tick
  BY <1>2 DEF App!Tick, App!Expiry, App!Second
<1>3. CASE UNCHANGED <<tokens, clock>>
  BY <1>3 DEF App!Expiry, App!Second
<1> QED
  BY <1>1, <1>2, <1>3 DEF DNext, Migrate, Serve, Rest, vars, aonly, App!ANext, App!CheckName,
     App!InsertUser, App!AbortCommand, App!EndCommand, App!Login, App!Authenticate, App!LoadUser,
     App!Answer, App!Restart, App!Rotate, App!config

(* Half seconds are cut to seconds: a life ends on time or half a second early. *)
LEMMA Rounding ==
  ASSUME NEW t \in Nat
  PROVE  /\ 2 * App!Expiry(t) <= t + 2 * Lifetime
         /\ t + 2 * Lifetime - 1 <= 2 * App!Expiry(t)
         /\ App!Expiry(t) \in Int
  BY LifetimeAssumption DEF App!Expiry, App!Second

(* Whatever the lifetime, no token is accepted after the time its owner was told,
   and none is refused more than the cut fraction earlier. *)
THEOREM TokensLiveLong == DSpec => []TokensLiveAsPromised
<1>1. DInit => TokenInv
  BY DEF DInit, App!AInit, TokenInv
<1>2. TokenInv => TokensLiveAsPromised
  <2> SUFFICES ASSUME TokenInv, NEW token \in tokens
      PROVE  /\ clock < 2 * token.exp => clock < token.born + 2 * Lifetime
             /\ clock < token.born + 2 * Lifetime - 1 => clock < 2 * token.exp
    BY DEF TokensLiveAsPromised, App!Unexpired
  <2> QED
    BY Rounding, LifetimeAssumption DEF TokenInv
<1> QED
  BY <1>1, <1>2, TokenInductive, PTL DEF DSpec

-----------------------------------------------------------------------------
(* Requests leave settings alone, and only Authenticate brings a token in. *)
LEMMA RequestKeepsKey ==
  ASSUME KeyInv, NEW r \in Requests, settings' = settings,
         req' = [req EXCEPT ![r] = req'[r]],
         HasToken(r)' => /\ req'[r].worker \in Workers
                         /\ req'[r].token.key = settings[req'[r].worker]
  PROVE  KeyInv'
  BY DEF KeyInv, HasToken

(* No step leaves a request with a token of a key that its process has dropped. *)
LEMMA KeyInductive == KeyInv /\ [DNext]_vars => KeyInv'
<1> SUFFICES ASSUME KeyInv, [DNext]_vars PROVE KeyInv'
  OBVIOUS
<1>1. ASSUME NEW r \in Requests, NEW w \in Workers, NEW token \in tokens,
             App!Authenticate(r, w, token)
      PROVE  KeyInv'
  <2>1. /\ settings' = settings
        /\ req' = [req EXCEPT ![r] = [next |-> "load", worker |-> w, token |-> token]]
        /\ token.key = settings[w]
    BY <1>1 DEF App!Authenticate, App!Set, App!config, App!SigningKey
  <2> QED
    BY <2>1, RequestKeepsKey DEF KeyInv, HasToken
<1>2. ASSUME NEW r \in Requests, App!LoadUser(r) PROVE KeyInv'
  <2>1. settings' = settings /\ HasToken(r)
    BY <1>2 DEF App!LoadUser, App!config, HasToken
  <2>2. \/ req' = [req EXCEPT ![r] = None]
        \/ \E i, row : req' = [req EXCEPT ![r] = [next |-> "authorized", worker |-> req[r].worker,
                                            token |-> req[r].token, user |-> i, row |-> row]]
    BY <1>2 DEF App!LoadUser, App!Set
  <2> QED
    BY <2>1, <2>2, RequestKeepsKey DEF KeyInv, HasToken
<1>3. ASSUME NEW r \in Requests, NEW w, NEW u, NEW p, App!Login(r, w, u, p) PROVE KeyInv'
  <2>1. settings' = settings
    BY <1>3 DEF App!Login, App!config
  <2>2. \E i, row : req' = [req EXCEPT ![r] = [next |-> "verify", worker |-> w, password |-> p,
                                               user |-> i, row |-> row]]
    BY <1>3 DEF App!Login, App!Set
  <2> QED
    BY <2>1, <2>2, RequestKeepsKey DEF KeyInv, HasToken
<1>4. ASSUME NEW r \in Requests, App!Verify(r) \/ App!Answer(r) PROVE KeyInv'
  <2>1. settings' = settings /\ req' = [req EXCEPT ![r] = None]
    BY <1>4 DEF App!Verify, App!Answer, App!Set, App!config
  <2> QED
    BY <2>1, RequestKeepsKey DEF KeyInv, HasToken
<1>5. ASSUME NEW w \in Workers, App!Restart(w) PROVE KeyInv'
  <2>1. /\ settings' = [settings EXCEPT ![w] = secret]
        /\ req' = [r \in Requests |-> IF App!WorkerOf(r) = w THEN None ELSE req[r]]
    BY <1>5 DEF App!Restart
  <2>2. ASSUME NEW r \in Requests, HasToken(r)'
        PROVE  req'[r] = req[r] /\ HasToken(r) /\ req[r].worker # w
    BY <2>1, <2>2 DEF HasToken, App!WorkerOf
  <2> QED
    BY <2>1, <2>2 DEF KeyInv, HasToken
<1>6. CASE UNCHANGED <<req, settings>>
  BY <1>6 DEF KeyInv, HasToken
<1> QED
  BY <1>1, <1>2, <1>3, <1>4, <1>5, <1>6 DEF DNext, Migrate, Serve, Rest, vars, aonly, App!ANext,
     App!CheckName, App!InsertUser, App!AbortCommand, App!EndCommand, App!Tick, App!Rotate,
     App!config

(* Once every process has been restarted with the new key, no request is served
   for a token that another key has signed. *)
THEOREM RotationEndsTokens == DSpec => []RotationEndsOldTokens
<1>1. DInit => KeyInv
  BY DEF DInit, App!AInit, KeyInv, HasToken
<1>2. KeyInv => RotationEndsOldTokens
  BY DEF KeyInv, HasToken, RotationEndsOldTokens, Authorized
<1> QED
  BY <1>1, <1>2, KeyInductive, PTL DEF DSpec

-----------------------------------------------------------------------------
(* A row still is what the command that inserted it made of its payload, but for
   the role. *)
MadeBy(i, row) ==
  /\ row \in UserRows
  /\ created[i] # None
  /\ row.username = created[i].username
  /\ row.password_hash = App!hash_password(created[i].password)
  /\ row.role \in {None, "customer", StoredRole(created[i].role)}

NamesApart(rows) ==
  \A i, j \in Ids :
    rows[i] # None /\ rows[j] # None /\ rows[i].username = rows[j].username => i = j

Sound(rows) ==
  /\ rows \in [Ids -> UserRows \cup {None}]
  /\ \A i \in Ids : rows[i] # None => MadeBy(i, rows[i])
  /\ NamesApart(rows)

(* The rows of users, and what a migration that is under way has made of them. *)
UsersInv ==
  /\ created \in [Ids -> App!Payloads \cup {None}]
  /\ Sound(users)
  /\ draft # None => Sound(draft.users)

Survive(old, new) ==
  \A i \in Ids : old[i] # None =>
    /\ new[i] # None
    /\ new[i].username = old[i].username /\ new[i].password_hash = old[i].password_hash

(* While a session has users open, no migration has changed its rows; and none
   that stays above the base loses one. *)
LockInv ==
  /\ open = App!OpenSessions
  /\ draft # None =>
       /\ draft.exclusive => open = {}
       /\ ~draft.exclusive => draft.users = users
       /\ version > 0 /\ draft.version > 0 => Survive(users, draft.users)

(* A token is for the user whose password its bearer had at the login. *)
GoodToken(token) ==
  /\ token.sub \in Ids
  /\ created[token.sub] # None
  /\ token.username = created[token.sub].username
  /\ token.password = created[token.sub].password

(* What a request has read of a user is still true of that user. *)
GoodRequest(r) ==
  /\ req[r].next \in {"verify", "load", "authorized"}
  /\ req[r].next = "verify" =>
       /\ req[r].password \in Passwords
       /\ \/ req[r].user \in Ids /\ MadeBy(req[r].user, req[r].row)
          \/ req[r].row = App!Nobody
  /\ req[r].next = "load" => req[r].token \in tokens
  /\ req[r].next = "authorized" =>
       /\ req[r].token \in tokens
       /\ req[r].user = req[r].token.sub
       /\ MadeBy(req[r].user, req[r].row)
       /\ users[req[r].user] = req[r].row
       /\ Loadable(req[r].row.role)

SessionInv ==
  /\ cli \in [Operators -> App!Payloads \cup {None}]
  /\ clock \in 0..MaxTime
  /\ \A token \in tokens : GoodToken(token) /\ token.born \in 0..clock
  /\ DOMAIN req = Requests
  /\ \A r \in Requests : req[r] # None => GoodRequest(r)

DInv == MInv /\ UsersInv /\ LockInv /\ SessionInv

-----------------------------------------------------------------------------
(* A migration. *)
LEMMA MadeByWithRole ==
  ASSUME UsersInv, NEW rows, Sound(rows), NEW role \in {None, "customer"}
  PROVE  Sound(WithRole(rows, role)) /\ Survive(rows, WithRole(rows, role))
<1> DEFINE new == WithRole(rows, role)
<1>1. \A i \in Ids : rows[i] = None => new[i] = None
  BY DEF WithRole
<1>2. ASSUME NEW i \in Ids, rows[i] # None
      PROVE  /\ new[i] \in UserRows /\ new[i] # None /\ new[i].role = role
             /\ new[i].username = rows[i].username
             /\ new[i].password_hash = rows[i].password_hash
  <2>1. rows[i] \in UserRows
    BY <1>2 DEF Sound
  <2>2. new[i] = [rows[i] EXCEPT !.role = role]
    BY <1>2 DEF WithRole
  <2>3. role \in RoleNames \cup {DefaultRole, None}
    BY DEF DefaultRole
  <2>4. /\ [rows[i] EXCEPT !.role = role] \in UserRows
        /\ [rows[i] EXCEPT !.role = role].role = role
        /\ [rows[i] EXCEPT !.role = role].username = rows[i].username
        /\ [rows[i] EXCEPT !.role = role].password_hash = rows[i].password_hash
    BY <2>1, <2>3 DEF UserRows
  <2> QED
    BY <2>2, <2>4, RowsAssumption
<1>3. new = [i \in Ids |-> new[i]]
  BY DEF WithRole
<1> HIDE DEF new
<1>4. new \in [Ids -> UserRows \cup {None}]
  BY <1>1, <1>2, <1>3
<1>5. \A i \in Ids : new[i] # None => rows[i] # None /\ MadeBy(i, new[i])
  BY <1>1, <1>2 DEF Sound, MadeBy
<1>6. NamesApart(new)
  BY <1>1, <1>2, <1>5 DEF Sound, NamesApart
<1> QED
  BY <1>2, <1>4, <1>5, <1>6 DEF Sound, Survive, new

(* Users without rows are sound. *)
LEMMA NoRowsSound == Sound(NoRows)
  BY DEF Sound, NoRows, NamesApart

(* A revision sees rows that are sound and have not been lost. *)
LEMMA ReviseUsers ==
  ASSUME DInv, NEW k \in Commands, Revise(k)
  PROVE  /\ Sound(draft'.users)
         /\ draft'.exclusive => open = {}
         /\ ~draft'.exclusive => draft'.users = users
         /\ version > 0 /\ draft'.version > 0 => Survive(users, draft'.users)
<1>1. /\ cmd[k] # None /\ cmd[k].at \in Versions /\ cmd[k].goal \in Versions
      /\ cmd[k].at # cmd[k].goal /\ ~Outcome(k).failed
      /\ Owner \in {None, k} /\ (Exclusive(k) => open = {}) /\ Seen.version = cmd[k].at
  BY DEF Revise, Running, Granted, VersionMatches, DInv, MInv, CommandInv
<1>2. /\ draft'.version = Target(k) /\ draft'.users = Outcome(k).users
      /\ draft'.exclusive = (Exclusive(k) \/ (draft # None /\ draft.exclusive))
  BY DEF Revise
<1>3. \/ Outcome(k).users = Seen.users
      \/ Exclusive(k) /\ Target(k) = 0 /\ Outcome(k).users = NoRows
      \/ /\ Exclusive(k)
         /\ \/ Outcome(k).users = WithRole(Seen.users, DefaultRole)
            \/ Outcome(k).users = WithRole(Seen.users, None)
  BY <1>1, Revised
<1>4. Sound(Seen.users)
  BY DEF DInv, UsersInv, Seen
<1>5. draft # None => draft.version > 0
  BY <1>1, NoneAssumption DEF DInv, MInv, CommandInv, Owner, Seen, Versions, Latest
<1>6. version > 0 => Survive(users, Seen.users)
  BY <1>5 DEF DInv, LockInv, Seen, Survive
<1>7. ~(draft # None /\ draft.exclusive) => Seen.users = users
  BY DEF DInv, LockInv, Seen
<1>8. (draft # None /\ draft.exclusive) => open = {}
  BY DEF DInv, LockInv
<1>9. ASSUME NEW role \in {None, "customer"}, Outcome(k).users = WithRole(Seen.users, role)
      PROVE  Sound(draft'.users) /\ (version > 0 => Survive(users, draft'.users))
  <2>1. Sound(WithRole(Seen.users, role)) /\ Survive(Seen.users, WithRole(Seen.users, role))
    BY <1>4, MadeByWithRole DEF DInv
  <2> QED
    BY <1>2, <1>6, <1>9, <2>1 DEF Survive
<1>10. Sound(draft'.users) /\ (version > 0 /\ Target(k) > 0 => Survive(users, draft'.users))
  BY <1>2, <1>3, <1>4, <1>6, <1>9, NoRowsSound DEF DefaultRole
<1>11. ~Exclusive(k) => draft'.users = Seen.users
  BY <1>2, <1>3
<1> QED
  BY <1>1, <1>2, <1>7, <1>8, <1>10, <1>11

(* What a step of another leaves of the sessions: all of it, when the rows of
   those that are open stay. *)
LEMMA SessionsStay ==
  ASSUME SessionInv, UNCHANGED aonly,
         \A r \in Requests : Authorized(r) => users' = users
  PROVE  SessionInv'
<1>1. UNCHANGED <<created, tokens, clock, cli, req>>
  BY DEF aonly
<1>2. \A i, row : MadeBy(i, row)' <=> MadeBy(i, row)
  BY <1>1 DEF MadeBy
<1>3. \A token \in tokens : GoodToken(token)'
  BY <1>1 DEF SessionInv, GoodToken
<1>4. ASSUME NEW r \in Requests, req[r] # None PROVE GoodRequest(r)'
  <2>1. GoodRequest(r)
    BY <1>4 DEF SessionInv
  <2>2. req[r].next = "authorized" => users' = users
    BY <1>4 DEF Authorized
  <2>3. MadeBy(req[r].user, req[r].row)' <=> MadeBy(req[r].user, req[r].row)
    BY <1>1 DEF MadeBy
  <2> QED
    BY <1>1, <2>1, <2>2, <2>3 DEF GoodRequest, App!Nobody
<1> QED
  BY <1>1, <1>3, <1>4 DEF SessionInv

(* What a migration does, the users and sessions survive. *)
LEMMA MigrateKeeps ==
  ASSUME DInv, [Next]_mvars, UNCHANGED aonly
  PROVE  DInv'
<1>1. MInv'
  BY MInvInductive DEF DInv
<1>2. open' = open /\ open' = App!OpenSessions'
  BY DEF DInv, LockInv, Next, Advance, Connect, Revise, Refuse, Finish, Kill, RollBack,
     AddRoleCheck, aonly, App!OpenSessions, mvars
<1>3. created' = created
  BY DEF aonly
<1>4. \A rows : Sound(rows)' <=> Sound(rows)
  BY <1>3 DEF Sound, MadeBy
<1>5. CASE /\ UNCHANGED <<version, users>>
           /\ draft' \in {None, draft}
  <2>1. UsersInv'
    BY <1>3, <1>5 DEF DInv, UsersInv, Sound, MadeBy
  <2>2. LockInv'
    BY <1>2, <1>5 DEF DInv, LockInv
  <2>3. SessionInv'
    BY <1>5, SessionsStay DEF DInv
  <2> QED
    BY <1>1, <2>1, <2>2, <2>3 DEF DInv
<1>6. ASSUME NEW k \in Commands, Revise(k) PROVE DInv'
  <2>1. UNCHANGED <<version, users>>
    BY <1>6 DEF Revise
  <2>2. /\ Sound(draft'.users)
        /\ draft'.exclusive => open = {}
        /\ ~draft'.exclusive => draft'.users = users
        /\ version > 0 /\ draft'.version > 0 => Survive(users, draft'.users)
    BY <1>6, ReviseUsers
  <2>3. UsersInv'
    BY <1>3, <2>1, <2>2 DEF DInv, UsersInv, Sound, MadeBy
  <2>4. LockInv'
    BY <1>2, <2>1, <2>2 DEF LockInv
  <2>5. SessionInv'
    BY <2>1, SessionsStay DEF DInv
  <2> QED
    BY <1>1, <2>3, <2>4, <2>5 DEF DInv
<1>7. ASSUME NEW k \in Commands, Finish(k), Owner = k PROVE DInv'
  <2>1. draft # None /\ draft' = None /\ users' = draft.users
    BY <1>7, NoneAssumption DEF Finish, Owner
  <2>2. UsersInv'
    BY <1>3, <2>1 DEF DInv, UsersInv, Sound, MadeBy
  <2>3. LockInv'
    BY <1>2, <2>1 DEF LockInv
  <2>4. \A r \in Requests : Authorized(r) => users' = users
    BY <2>1 DEF DInv, LockInv, App!OpenSessions, Authorized
  <2>5. SessionInv'
    BY <2>4, SessionsStay DEF DInv
  <2> QED
    BY <1>1, <2>2, <2>3, <2>5 DEF DInv
<1>8. ASSUME NEW k \in Commands, Connect(k) \/ Refuse(k) \/ Kill(k) PROVE DInv'
  BY <1>5, <1>8 DEF Connect, Refuse, Kill, RollBack
<1>9. ASSUME NEW k \in Commands, Finish(k), Owner # k PROVE DInv'
  BY <1>5, <1>9 DEF Finish
<1>10. CASE AddRoleCheck \/ UNCHANGED mvars
  BY <1>5, <1>10 DEF AddRoleCheck, mvars
<1> QED
  BY <1>6, <1>7, <1>8, <1>9, <1>10 DEF Next, Advance

-----------------------------------------------------------------------------
(* A step of the service. *)
LEMMA MInvStays ==
  ASSUME MInv, UNCHANGED <<version, schema, cmd, draft, started>>
  PROVE  MInv'
  BY DEF MInv, CommandInv, TablesInv, Fits

(* A step that changes no table and opens no session against an exclusive lock. *)
LEMMA LockStays ==
  ASSUME LockInv, Sessions, UNCHANGED <<version, users, draft>>,
         App!ShutOut => App!OpenSessions' \subseteq App!OpenSessions
  PROVE  LockInv'
  BY DEF LockInv, Sessions, App!ShutOut

(* A step that leaves users and draft alone. *)
LEMMA UsersStay ==
  ASSUME UsersInv, UNCHANGED <<users, created, draft>>
  PROVE  UsersInv'
  BY DEF UsersInv, Sound, MadeBy, NamesApart

(* Accounts reads the tables and writes the roles as Migrations does. *)
LEMMA SameRules ==
  /\ App!HasRole(schema) <=> HasRole(schema)
  /\ App!Allowed(schema) = Allowed(schema)
  /\ \A role : App!StoredRole(role) = StoredRole(role) /\ (App!Loadable(role) <=> Loadable(role))
  BY DEF App!HasRole, HasRole, App!Allowed, Allowed, App!RoleChecks, RoleChecks, App!Roles, Roles,
     App!RoleNames, RoleNames, App!StoredRole, StoredRole, App!Loadable, Loadable

(* One request moves on, and the others see what they saw. *)
LEMMA RequestMoves ==
  ASSUME SessionInv, UNCHANGED <<users, created, clock, cli>>, NEW r \in Requests,
         req' = [req EXCEPT ![r] = req'[r]],
         tokens \subseteq tokens',
         \A token \in tokens' \ tokens : GoodToken(token) /\ token.born \in 0..clock,
         req'[r] # None => GoodRequest(r)'
  PROVE  SessionInv'
<1>1. \A token : GoodToken(token)' <=> GoodToken(token)
  BY DEF GoodToken
<1>2. \A token \in tokens' : GoodToken(token)' /\ token.born \in 0..clock'
  BY <1>1 DEF SessionInv
<1>3. DOMAIN req' = Requests
  BY DEF SessionInv
<1>4. ASSUME NEW q \in Requests, req'[q] # None PROVE GoodRequest(q)'
  <2>1. CASE q = r
    BY <1>4, <2>1
  <2>2. CASE q # r
    <3>1. req'[q] = req[q]
      BY <2>2 DEF SessionInv
    <3>2. GoodRequest(q)
      BY <1>4, <3>1 DEF SessionInv
    <3>3. MadeBy(req[q].user, req[q].row)' <=> MadeBy(req[q].user, req[q].row)
      BY <3>1 DEF MadeBy
    <3> QED
      BY <3>1, <3>2, <3>3 DEF GoodRequest, App!Nobody
  <2> QED
    BY <2>1, <2>2
<1> QED
  BY <1>2, <1>3, <1>4 DEF SessionInv

(* What a request does to the sessions that are open. *)
LEMMA RequestOpens ==
  ASSUME NEW r \in Requests, DOMAIN req = Requests, req' = [req EXCEPT ![r] = req'[r]], cli' = cli,
         req'[r] # None => req'[r].next = "load" \/ ~App!ShutOut
  PROVE  App!ShutOut => App!OpenSessions' \subseteq App!OpenSessions
  BY DEF App!OpenSessions

(* POST /login, up to its SELECT. *)
LEMMA LoginKeeps ==
  ASSUME DInv, Sessions, NEW r \in Requests, NEW w \in Workers, NEW u \in Usernames,
         NEW p \in Passwords, App!Login(r, w, u, p), UNCHANGED <<version, cmd, started>>
  PROVE  DInv'
<1>1. /\ UNCHANGED <<schema, users, draft, created, tokens, clock, cli>>
      /\ ~App!ShutOut
  BY DEF App!Login, App!shared, App!config, App!Readable
<1>2. \/ \E i \in App!IdsNamed(u) :
           req' = [req EXCEPT ![r] = [next |-> "verify", worker |-> w, password |-> p,
                                      user |-> i, row |-> users[i]]]
      \/ req' = [req EXCEPT ![r] = [next |-> "verify", worker |-> w, password |-> p,
                                    user |-> None, row |-> App!Nobody]]
  BY DEF App!Login, App!Set
<1>3. DOMAIN req = Requests
  BY DEF DInv, SessionInv
<1>4. GoodRequest(r)' /\ req' = [req EXCEPT ![r] = req'[r]]
  <2>1. ASSUME NEW i \in App!IdsNamed(u),
               req' = [req EXCEPT ![r] = [next |-> "verify", worker |-> w, password |-> p,
                                          user |-> i, row |-> users[i]]]
        PROVE  GoodRequest(r)' /\ req' = [req EXCEPT ![r] = req'[r]]
    <3>1. i \in Ids /\ MadeBy(i, users[i])
      BY DEF App!IdsNamed, DInv, UsersInv, Sound
    <3>2. MadeBy(i, users[i])'
      BY <1>1, <3>1 DEF MadeBy
    <3> QED
      BY <1>1, <1>3, <2>1, <3>1, <3>2 DEF GoodRequest
  <2>2. CASE req' = [req EXCEPT ![r] = [next |-> "verify", worker |-> w, password |-> p,
                                        user |-> None, row |-> App!Nobody]]
    BY <1>3, <2>2 DEF GoodRequest, App!Nobody
  <2> QED
    BY <1>2, <2>1, <2>2
<1>5. SessionInv'
  BY <1>1, <1>4, RequestMoves DEF DInv
<1>6. LockInv'
  BY <1>1, LockStays DEF DInv
<1> QED
  BY <1>1, <1>5, <1>6, MInvStays, UsersStay DEF DInv

(* The rest of login: the hash, and the token. *)
LEMMA VerifyKeeps ==
  ASSUME DInv, Sessions, NEW r \in Requests, App!Verify(r), UNCHANGED <<version, cmd, started>>
  PROVE  DInv'
<1>1. /\ UNCHANGED <<schema, users, draft, created, clock, cli>>
      /\ req' = [req EXCEPT ![r] = None]
  BY DEF App!Verify, App!shared, App!config, App!Set
<1>2. DOMAIN req = Requests
  BY DEF DInv, SessionInv
<1>3. req[r] # None /\ req[r].next = "verify" /\ GoodRequest(r)
  BY DEF App!Verify, DInv, SessionInv
<1>4. \/ tokens' = tokens
      \/ /\ req[r].row.password_hash = App!hash_password(req[r].password)
         /\ tokens' = tokens \cup {[sub |-> req[r].user, username |-> req[r].row.username,
                                    exp |-> App!Expiry(clock),
                                    key |-> App!SigningKey(req[r].worker),
                                    born |-> clock, password |-> req[r].password]}
  BY DEF App!Verify, App!verify_password
<1>5. \A token \in tokens' \ tokens : GoodToken(token) /\ token.born \in 0..clock
  <2> SUFFICES ASSUME NEW token \in tokens' \ tokens
               PROVE  GoodToken(token) /\ token.born \in 0..clock
    OBVIOUS
  <2>1. /\ req[r].row.password_hash = App!hash_password(req[r].password)
        /\ token.sub = req[r].user /\ token.username = req[r].row.username
        /\ token.born = clock /\ token.password = req[r].password
    BY <1>4
  <2>2. req[r].row # App!Nobody
    <3>1. req[r].password # None
      BY <1>3, RowsAssumption DEF GoodRequest
    <3> QED
      BY <2>1, <3>1 DEF App!Nobody, App!hash_password
  <2>3. req[r].user \in Ids /\ MadeBy(req[r].user, req[r].row)
    BY <1>3, <2>2 DEF GoodRequest
  <2>4. created[req[r].user].password = req[r].password
    BY <2>1, <2>3 DEF MadeBy, App!hash_password
  <2>5. clock \in 0..clock
    BY DEF DInv, SessionInv
  <2> QED
    BY <2>1, <2>3, <2>4, <2>5 DEF GoodToken, MadeBy
<1>6. SessionInv'
  BY <1>1, <1>2, <1>4, <1>5, RequestMoves DEF DInv
<1>7. LockInv'
  BY <1>1, <1>2, RequestOpens, LockStays DEF DInv
<1> QED
  BY <1>1, <1>6, <1>7, MInvStays, UsersStay DEF DInv

(* A request with a token, up to the load of its user. *)
LEMMA AuthenticateKeeps ==
  ASSUME DInv, Sessions, NEW r \in Requests, NEW w \in Workers, NEW token \in tokens,
         App!Authenticate(r, w, token), UNCHANGED <<version, cmd, started>>
  PROVE  DInv'
<1>1. /\ UNCHANGED <<schema, users, draft, created, tokens, clock, cli>>
      /\ req' = [req EXCEPT ![r] = [next |-> "load", worker |-> w, token |-> token]]
  BY DEF App!Authenticate, App!shared, App!config, App!Set
<1>2. DOMAIN req = Requests
  BY DEF DInv, SessionInv
<1>3. req' = [req EXCEPT ![r] = req'[r]] /\ req'[r].next = "load" /\ GoodRequest(r)'
  BY <1>1, <1>2 DEF GoodRequest
<1>4. SessionInv'
  BY <1>1, <1>3, RequestMoves DEF DInv
<1>5. LockInv'
  BY <1>1, <1>2, <1>3, RequestOpens, LockStays DEF DInv
<1> QED
  BY <1>1, <1>4, <1>5, MInvStays, UsersStay DEF DInv

(* The load of the caller by name and id. *)
LEMMA LoadUserKeeps ==
  ASSUME DInv, Sessions, NEW r \in Requests, App!LoadUser(r), UNCHANGED <<version, cmd, started>>
  PROVE  DInv'
<1>1. /\ UNCHANGED <<schema, users, draft, created, tokens, clock, cli>>
      /\ ~App!ShutOut /\ req[r] # None /\ req[r].next = "load"
  BY DEF App!LoadUser, App!shared, App!config, App!Readable
<1>2. \/ req' = [req EXCEPT ![r] = None]
      \/ \E i \in App!Bearer(req[r].token) :
           /\ req' = [req EXCEPT ![r] = [next |-> "authorized", worker |-> req[r].worker,
                                         token |-> req[r].token, user |-> i, row |-> users[i]]]
           /\ Loadable(users[i].role)
  BY SameRules DEF App!LoadUser, App!Set
<1>3. DOMAIN req = Requests
  BY DEF DInv, SessionInv
<1>4. req[r].token \in tokens
  BY <1>1 DEF DInv, SessionInv, GoodRequest
<1>5. (req'[r] # None => GoodRequest(r)') /\ req' = [req EXCEPT ![r] = req'[r]]
  <2>1. ASSUME NEW i \in App!Bearer(req[r].token),
               req' = [req EXCEPT ![r] = [next |-> "authorized", worker |-> req[r].worker,
                                          token |-> req[r].token, user |-> i, row |-> users[i]]],
               Loadable(users[i].role)
        PROVE  GoodRequest(r)' /\ req' = [req EXCEPT ![r] = req'[r]]
    <3>1. i \in Ids /\ users[i] # None /\ i = req[r].token.sub /\ MadeBy(i, users[i])
      BY DEF App!Bearer, DInv, UsersInv, Sound
    <3>2. MadeBy(i, users[i])'
      BY <1>1, <3>1 DEF MadeBy
    <3> QED
      BY <1>1, <1>3, <1>4, <2>1, <3>1, <3>2 DEF GoodRequest
  <2> QED
    BY <1>2, <1>3, <2>1
<1>6. SessionInv'
  BY <1>1, <1>5, RequestMoves DEF DInv
<1>7. LockInv'
  BY <1>1, LockStays DEF DInv
<1> QED
  BY <1>1, <1>6, <1>7, MInvStays, UsersStay DEF DInv

(* The end of a request. *)
LEMMA AnswerKeeps ==
  ASSUME DInv, Sessions, NEW r \in Requests, App!Answer(r), UNCHANGED <<version, cmd, started>>
  PROVE  DInv'
<1>1. /\ UNCHANGED <<schema, users, draft, created, tokens, clock, cli>>
      /\ req' = [req EXCEPT ![r] = None]
  BY DEF App!Answer, App!shared, App!config, App!Set
<1>2. DOMAIN req = Requests
  BY DEF DInv, SessionInv
<1>3. SessionInv'
  BY <1>1, <1>2, RequestMoves DEF DInv
<1>4. LockInv'
  BY <1>1, <1>2, RequestOpens, LockStays DEF DInv
<1> QED
  BY <1>1, <1>3, <1>4, MInvStays, UsersStay DEF DInv

(* The tables that a mapper can name have the key of usernames. *)
LEMMA UsernamesAreUnique ==
  ASSUME TablesInv, HasRole(schema)
  PROVE  {"username"} \in schema["users"].unique
<1> PICK checks : schema = Having(Names(version), Columns(version), checks)
  BY DEF TablesInv, Fits
<1>1. "users" \in Names(version)
  BY DEF HasRole, Having
<1>2. schema["users"] = UsersWith(Columns(version), checks)
  BY <1>1 DEF Having
<1> QED
  BY <1>2 DEF UsersWith, TableOf, UsersTable

(* What the mapper writes for a role is a name of it. *)
LEMMA StoredIsName == \A role \in Roles : StoredRole(role) \in RoleNames
  BY DEF Roles, RoleNames, StoredRole

(* An INSERT adds a row of a free name under an id that no row ever had. *)
LEMMA InsertKeeps ==
  ASSUME DInv, Sessions, NEW c \in Operators, NEW i \in Ids, created[i] = None,
         cli[c] # None, draft = None, HasRole(schema), ~App!NameTaken(cli[c].username),
         users' = [users EXCEPT ![i] = App!Row(cli[c])],
         created' = [created EXCEPT ![i] = cli[c]],
         cli' = [cli EXCEPT ![c] = None],
         UNCHANGED <<version, cmd, started, schema, draft, tokens, clock, req>>
  PROVE  DInv'
<1> DEFINE payload == cli[c]
           row == App!Row(payload)
<1>1. /\ payload \in App!Payloads
      /\ users \in [Ids -> UserRows \cup {None}] /\ created \in [Ids -> App!Payloads \cup {None}]
      /\ payload.username \in Usernames /\ payload.password \in Passwords
  BY DEF DInv, SessionInv, UsersInv, Sound, App!Payloads
<1>2. /\ row \in UserRows /\ row.username = payload.username
      /\ row.role = StoredRole(payload.role)
      /\ row.password_hash = App!hash_password(payload.password)
  <2>1. payload.role \in Roles
    BY <1>1, GrantsAssumption DEF App!Payloads
  <2>2. StoredRole(payload.role) \in RoleNames
    BY <2>1, StoredIsName
  <2>3. row = [username |-> payload.username, password_hash |-> App!hash_password(payload.password),
               role |-> StoredRole(payload.role)]
    BY SameRules DEF App!Row
  <2> QED
    BY <1>1, <2>2, <2>3 DEF App!hash_password, UserRows
<1>3. \A j \in Ids : users[j] # None => users[j].username # payload.username
  BY UsernamesAreUnique DEF App!NameTaken, App!IdsNamed, DInv, MInv
<1>4. users[i] = None
  BY DEF DInv, UsersInv, Sound, MadeBy
<1> HIDE DEF row, payload
<1>5. /\ users'[i] = row /\ created'[i] = payload
      /\ \A j \in Ids \ {i} : users'[j] = users[j] /\ created'[j] = created[j]
      /\ users' \in [Ids -> UserRows \cup {None}] /\ created' \in [Ids -> App!Payloads \cup {None}]
  BY <1>1, <1>2 DEF payload, row
<1>6. ASSUME NEW j \in Ids, users'[j] # None PROVE MadeBy(j, users[j])'
  <2>1. CASE j = i
    BY <1>2, <1>5, <2>1 DEF MadeBy, payload
  <2>2. CASE j # i
    <3>1. MadeBy(j, users[j])
      BY <1>5, <1>6, <2>2 DEF DInv, UsersInv, Sound
    <3> QED
      BY <1>5, <2>2, <3>1 DEF MadeBy
  <2> QED
    BY <2>1, <2>2
<1>7. NamesApart(users')
  BY <1>2, <1>3, <1>5 DEF DInv, UsersInv, Sound, NamesApart
<1>8. UsersInv'
  BY <1>5, <1>6, <1>7 DEF UsersInv, Sound, NamesApart
<1>9. \A j \in Ids : \A r0 : MadeBy(j, r0) => MadeBy(j, r0)'
  BY <1>5 DEF MadeBy
<1>10. \A token \in tokens : GoodToken(token)' /\ token.sub \in Ids
  BY <1>5 DEF DInv, SessionInv, GoodToken
<1>11. ASSUME NEW q \in Requests, req[q] # None PROVE GoodRequest(q)'
  <2>1. GoodRequest(q)
    BY <1>11 DEF DInv, SessionInv
  <2>2. CASE req[q].next = "authorized"
    <3>1. /\ req[q].user \in Ids /\ MadeBy(req[q].user, req[q].row)
          /\ users[req[q].user] = req[q].row /\ users[req[q].user] # None
      BY <2>1, <2>2, <1>10, RowsAssumption DEF GoodRequest, MadeBy
    <3>2. users'[req[q].user] = users[req[q].user] /\ MadeBy(req[q].user, req[q].row)'
      BY <1>4, <1>5, <1>9, <3>1
    <3> QED
      BY <2>1, <2>2, <3>1, <3>2 DEF GoodRequest
  <2>3. CASE req[q].next # "authorized"
    <3>1. req[q].user \in Ids /\ MadeBy(req[q].user, req[q].row) =>
            MadeBy(req[q].user, req[q].row)'
      BY <1>9
    <3> QED
      BY <2>1, <2>3, <3>1 DEF GoodRequest, App!Nobody
  <2> QED
    BY <2>2, <2>3
<1>12. SessionInv'
  BY <1>10, <1>11 DEF DInv, SessionInv
<1>13. LockInv'
  BY DEF LockInv, Sessions
<1> QED
  BY <1>8, <1>12, <1>13, MInvStays DEF DInv

(* The create-user command. *)
LEMMA CommandKeeps ==
  ASSUME DInv, Sessions, UNCHANGED <<version, cmd, started>>, NEW c \in Operators,
         (\E payload \in App!Payloads : App!CheckName(c, payload))
           \/ App!InsertUser(c) \/ App!AbortCommand(c)
  PROVE  DInv'
<1>1. UNCHANGED <<schema, draft, tokens, clock, req>>
  BY DEF App!CheckName, App!InsertUser, App!AbortCommand, App!EndCommand, App!shared, App!config
<1>2. ASSUME UNCHANGED <<users, created>>, cli' \in [Operators -> App!Payloads \cup {None}],
             App!ShutOut => App!OpenSessions' \subseteq App!OpenSessions
      PROVE  DInv'
  <2>1. SessionInv'
    <3>1. \A token \in tokens : GoodToken(token)'
      BY <1>2 DEF DInv, SessionInv, GoodToken
    <3>2. ASSUME NEW q \in Requests, req[q] # None PROVE GoodRequest(q)'
      <4>1. GoodRequest(q)
        BY <3>2 DEF DInv, SessionInv
      <4>2. MadeBy(req[q].user, req[q].row)' <=> MadeBy(req[q].user, req[q].row)
        BY <1>1, <1>2 DEF MadeBy
      <4> QED
        BY <1>1, <1>2, <4>1, <4>2 DEF GoodRequest, App!Nobody
    <3> QED
      BY <1>1, <1>2, <3>1, <3>2 DEF DInv, SessionInv
  <2>2. LockInv'
    BY <1>1, <1>2, LockStays DEF DInv
  <2> QED
    BY <1>1, <1>2, <2>1, <2>2, MInvStays, UsersStay DEF DInv
<1>3. cli \in [Operators -> App!Payloads \cup {None}]
  BY DEF DInv, SessionInv
<1>4. ASSUME NEW payload \in App!Payloads, App!CheckName(c, payload) PROVE DInv'
  <2>1. UNCHANGED <<users, created>> /\ ~App!ShutOut /\ cli' = [cli EXCEPT ![c] = payload]
    BY <1>4 DEF App!CheckName, App!shared, App!Readable
  <2> QED
    BY <1>2, <1>3, <2>1
<1>5. ASSUME cli' = [cli EXCEPT ![c] = None], UNCHANGED <<users, created>> PROVE DInv'
  <2>1. App!OpenSessions' \subseteq App!OpenSessions
    BY <1>1, <1>3, <1>5 DEF App!OpenSessions
  <2> QED
    BY <1>2, <1>3, <1>5, <2>1
<1>6. CASE App!AbortCommand(c)
  BY <1>5, <1>6 DEF App!AbortCommand, App!EndCommand
<1>7. CASE App!InsertUser(c)
  <2>1. /\ cli[c] # None /\ App!Writable /\ cli' = [cli EXCEPT ![c] = None]
    BY <1>7 DEF App!InsertUser, App!EndCommand
  <2>2. ASSUME ~App!NameTaken(cli[c].username),
               NEW i \in Ids, created[i] = None,
               users' = [users EXCEPT ![i] = App!Row(cli[c])],
               created' = [created EXCEPT ![i] = cli[c]]
        PROVE  DInv'
    BY <1>1, <2>1, <2>2, SameRules, InsertKeeps DEF App!Writable
  <2> QED
    BY <1>5, <1>7, <2>1, <2>2, SameRules DEF App!InsertUser
<1> QED
  BY <1>4, <1>6, <1>7

(* The clock runs, the key is rotated, a process restarts. *)
LEMMA SurroundingsKeep ==
  ASSUME DInv, Sessions, UNCHANGED <<version, cmd, started>>,
         App!Tick \/ (\E key \in Keys : App!Rotate(key)) \/ (\E w \in Workers : App!Restart(w))
  PROVE  DInv'
<1>1. UNCHANGED <<schema, users, draft, created, tokens, cli>>
  BY DEF App!Tick, App!Rotate, App!Restart, App!shared
<1>2. \A q \in Requests : req'[q] = req[q] \/ req'[q] = None
  BY DEF App!Tick, App!Rotate, App!Restart
<1>3. DOMAIN req' = Requests
  BY DEF App!Tick, App!Rotate, App!Restart, DInv, SessionInv
<1>4. clock \in Nat /\ clock' \in 0..MaxTime /\ clock <= clock'
  BY MaxTimeAssumption DEF App!Tick, App!Rotate, App!Restart, DInv, SessionInv
<1>5. \A token \in tokens : GoodToken(token)' /\ token.born \in 0..clock'
  BY <1>1, <1>4 DEF DInv, SessionInv, GoodToken
<1>6. ASSUME NEW q \in Requests, req'[q] # None PROVE GoodRequest(q)'
  <2>1. req'[q] = req[q] /\ GoodRequest(q)
    BY <1>2, <1>6 DEF DInv, SessionInv
  <2>2. MadeBy(req[q].user, req[q].row)' <=> MadeBy(req[q].user, req[q].row)
    BY <1>1, <2>1 DEF MadeBy
  <2> QED
    BY <1>1, <2>1, <2>2 DEF GoodRequest, App!Nobody
<1>7. SessionInv'
  BY <1>1, <1>3, <1>4, <1>5, <1>6 DEF DInv, SessionInv
<1>8. App!OpenSessions' \subseteq App!OpenSessions
  BY <1>1, <1>2 DEF App!OpenSessions
<1>9. LockInv'
  BY <1>1, <1>8, LockStays DEF DInv
<1> QED
  BY <1>1, <1>7, <1>9, MInvStays, UsersStay DEF DInv

(* An empty database that nobody uses. *)
LEMMA DInvInit == DInit => DInv
<1> SUFFICES ASSUME DInit PROVE DInv
  OBVIOUS
<1>1. MInv
  BY MInvInit DEF DInit
<1>2. Sound(users)
  BY DEF DInit, Init, Sound, NamesApart
<1>3. UsersInv /\ LockInv
  BY <1>2 DEF DInit, Init, App!AInit, UsersInv, LockInv, App!OpenSessions
<1>4. SessionInv
  BY MaxTimeAssumption DEF DInit, App!AInit, SessionInv
<1> QED
  BY <1>1, <1>3, <1>4 DEF DInv

(* Every step of a migration or of the service keeps the invariant. *)
THEOREM DInvInductive == DInv /\ [DNext]_vars => DInv'
<1> SUFFICES ASSUME DInv, [DNext]_vars PROVE DInv'
  OBVIOUS
<1>1. CASE Migrate \/ Rest \/ UNCHANGED vars
  BY <1>1, MigrateKeeps DEF Migrate, Rest, vars
<1>2. CASE Serve
  <2>1. App!ANext /\ Sessions /\ UNCHANGED <<version, cmd, started>>
    BY <1>2 DEF Serve
  <2>2. ASSUME NEW c \in Operators,
               (\E payload \in App!Payloads : App!CheckName(c, payload))
                 \/ App!InsertUser(c) \/ App!AbortCommand(c)
        PROVE  DInv'
    BY <2>1, <2>2, CommandKeeps
  <2>3. ASSUME NEW r \in Requests, NEW w \in Workers, NEW u \in Usernames, NEW p \in Passwords,
               App!Login(r, w, u, p)
        PROVE  DInv'
    BY <2>1, <2>3, LoginKeeps
  <2>4. ASSUME NEW r \in Requests, NEW w \in Workers, NEW token \in tokens,
               App!Authenticate(r, w, token)
        PROVE  DInv'
    BY <2>1, <2>4, AuthenticateKeeps
  <2>5. ASSUME NEW r \in Requests, App!Verify(r) \/ App!LoadUser(r) \/ App!Answer(r)
        PROVE  DInv'
    BY <2>1, <2>5, VerifyKeeps, LoadUserKeeps, AnswerKeeps
  <2>6. CASE App!Tick \/ (\E key \in Keys : App!Rotate(key)) \/ (\E w \in Workers : App!Restart(w))
    BY <2>1, <2>6, SurroundingsKeep
  <2> QED
    BY <2>1, <2>2, <2>3, <2>4, <2>5, <2>6 DEF App!ANext
<1> QED
  BY <1>1, <1>2 DEF DNext

(* DInv holds always, however requests, commands and migrations overlap. *)
THEOREM DInvHolds == DSpec => []DInv
  BY DInvInit, DInvInductive, PTL DEF DSpec

-----------------------------------------------------------------------------
(* Types, and the sessions that keep migrations waiting. *)
THEOREM TypeCorrect == DSpec => []TypeOK
<1>1. DInv => TypeOK
  <2> SUFFICES ASSUME DInv PROVE TypeOK
    OBVIOUS
  <2>1. MTypeOK
    <3>1. DOMAIN schema \subseteq DOMAIN Models
      <4>1. PICK checks : schema = Having(Names(version), Columns(version), checks)
        BY DEF DInv, MInv, TablesInv, Fits
      <4>2. DOMAIN schema \subseteq DOMAIN Born
        BY <4>1 DEF Having, Names
      <4> QED
        BY <4>2 DEF Born, Models
    <3>2. \A k \in Commands : cmd[k] # None => cmd[k].at \in Versions /\ cmd[k].goal \in Versions
      BY DEF DInv, MInv, CommandInv
    <3> QED
      BY <3>1, <3>2 DEF MTypeOK, DInv, MInv, CommandInv, Owner
  <2>2. \A i \in Ids : users[i] # None => users[i] \in UserRows
    BY DEF DInv, UsersInv, Sound
  <2>4. \A r \in Requests : Authorized(r) =>
          req[r].row \in UserRows /\ req[r].row.role \in RoleNames
    BY DEF Authorized, DInv, SessionInv, GoodRequest, MadeBy, Loadable
  <2>3. \A token \in tokens : token.sub \in Ids /\ token.born \in 0..clock
    BY DEF DInv, SessionInv, GoodToken
  <2> QED
    BY <2>1, <2>2, <2>3, <2>4 DEF TypeOK, DInv, LockInv, SessionInv
<1> QED
  BY <1>1, DInvHolds, PTL

(* Whatever overlapped, failed half way or was stopped, the committed tables are
   those of the committed revision. *)
THEOREM TablesFit == DSpec => []SchemaFitsVersion
  BY FitsMeans, DInvHolds, PTL DEF DInv

(* A token is accepted for the one user whose password was verified. *)
THEOREM TokensNameTheirUser == DSpec => []TokenNamesItsUser
<1>1. DInv => TokenNamesItsUser
  <2> SUFFICES ASSUME DInv, NEW r \in Requests, Authorized(r)
               PROVE  /\ App!IdsNamed(req[r].token.username) = {req[r].user}
                      /\ App!verify_password(req[r].token.password, req[r].row.password_hash)
                      /\ users[req[r].user] = req[r].row
    BY DEF TokenNamesItsUser
  <2>1. req[r] # None /\ req[r].next = "authorized" /\ GoodRequest(r)
    BY DEF Authorized, DInv, SessionInv
  <2>2. /\ GoodToken(req[r].token) /\ req[r].user = req[r].token.sub
        /\ MadeBy(req[r].user, req[r].row) /\ users[req[r].user] # None
        /\ users[req[r].user] = req[r].row
    BY <2>1, RowsAssumption DEF GoodRequest, DInv, SessionInv, MadeBy
  <2>3. req[r].user \in Ids /\ users[req[r].user].username = req[r].token.username
    BY <2>2 DEF GoodToken, DInv, UsersInv, Sound, MadeBy
  <2>4. App!IdsNamed(req[r].token.username) = {req[r].user}
    BY <2>2, <2>3 DEF App!IdsNamed, DInv, UsersInv, Sound, NamesApart
  <2> QED
    BY <2>2, <2>4 DEF GoodToken, MadeBy, App!verify_password
<1> QED
  BY <1>1, DInvHolds, PTL

(* A user has the role that was granted or none that counts, and who is served has
   the role that was granted to the one whose token it is. *)
THEOREM RolesGranted == DSpec => []RolesGrantedOrLost
<1>1. DInv => RolesGrantedOrLost
  <2> SUFFICES ASSUME DInv PROVE RolesGrantedOrLost
    OBVIOUS
  <2>1. \A i \in Ids : users[i] # None =>
          users[i].role \in {None, "customer", StoredRole(created[i].role)}
    BY DEF DInv, UsersInv, Sound, MadeBy
  <2>2. ASSUME NEW r \in Requests, Authorized(r)
        PROVE  req[r].row.role = StoredRole(created[req[r].token.sub].role)
    <3>1. /\ req[r].user = req[r].token.sub /\ MadeBy(req[r].user, req[r].row)
          /\ Loadable(req[r].row.role)
      BY <2>2 DEF Authorized, DInv, SessionInv, GoodRequest
    <3>2. req[r].row.role # None /\ req[r].row.role # "customer"
      BY <3>1, RowsAssumption DEF Loadable, RoleNames
    <3> QED
      BY <3>1, <3>2 DEF MadeBy
  <2> QED
    BY <2>1, <2>2 DEF RolesGrantedOrLost
<1> QED
  BY <1>1, DInvHolds, PTL

-----------------------------------------------------------------------------
(* Where the CHECK on users.role is, committed or not, no row can be read. *)
ChecksInv ==
  /\ Checked(schema, users)
  /\ draft # None => Checked(draft.schema, draft.users)

(* A migration. *)
LEMMA MigrateChecks ==
  ASSUME DInv, ChecksInv, [Next]_mvars
  PROVE  ChecksInv'
<1> USE DEF ChecksInv
<1>n. None \notin RoleNames
  BY RowsAssumption
<1>1. CASE UNCHANGED <<schema, users>> /\ draft' \in {None, draft}
  BY <1>1 DEF Checked, HasRole, RoleChecks
<1>2. ASSUME NEW k \in Commands, Revise(k) PROVE ChecksInv'
  <2>1. /\ cmd[k].at \in Versions /\ cmd[k].goal \in Versions /\ cmd[k].at # cmd[k].goal
        /\ ~Outcome(k).failed /\ Seen.version = cmd[k].at
        /\ UNCHANGED <<schema, users>>
        /\ draft'.schema = Outcome(k).schema /\ draft'.users = Outcome(k).users
    BY <1>2 DEF Revise, Running, VersionMatches, DInv, MInv, CommandInv
  <2>2. Fits(cmd[k].at, Seen.schema)
    BY <2>1 DEF Seen, DInv, MInv, TablesInv
  <2>3. Checked(Seen.schema, Seen.users)
    BY DEF Seen
  <2>4. Checked(Outcome(k).schema, Outcome(k).users)
    BY <1>n, <2>1, <2>2, <2>3, RevisedChecked
  <2>5. Checked(schema, users)'
    BY <2>1 DEF Checked, HasRole, RoleChecks
  <2>6. Checked(draft.schema, draft.users)'
    BY <2>1, <2>4 DEF Checked, HasRole, RoleChecks
  <2> QED
    BY <2>5, <2>6
<1>3. ASSUME NEW k \in Commands, Finish(k), Owner = k PROVE ChecksInv'
  <2>1. draft # None /\ draft' = None /\ schema' = draft.schema /\ users' = draft.users
    BY <1>3, NoneAssumption DEF Finish, Owner
  <2> QED
    BY <2>1 DEF Checked, HasRole, RoleChecks
<1>4. ASSUME NEW k \in Commands,
             Connect(k) \/ Refuse(k) \/ Kill(k) \/ (Finish(k) /\ Owner # k)
      PROVE  ChecksInv'
  BY <1>1, <1>4 DEF Connect, Refuse, Kill, RollBack, Finish
<1>5. CASE AddRoleCheck
  <2>1. /\ draft' = None /\ users' = users
        /\ \A i \in Ids : users[i] # None => ~Loadable(users[i].role)
    BY <1>n, <1>5, ValuesAreNoNames DEF AddRoleCheck
  <2> QED
    BY <2>1 DEF Checked
<1>6. CASE UNCHANGED mvars
  BY <1>1, <1>6 DEF mvars
<1> QED
  BY <1>2, <1>3, <1>4, <1>5, <1>6 DEF Next, Advance

(* The service: only create-user writes rows, and not under the CHECK. *)
LEMMA ServeChecks ==
  ASSUME DInv, ChecksInv, Serve
  PROVE  ChecksInv'
<1>1. CASE UNCHANGED <<schema, users, draft>>
  BY <1>1 DEF ChecksInv, Checked, HasRole, RoleChecks
<1>2. ASSUME NEW c \in Operators, App!InsertUser(c) PROVE ChecksInv'
  <2>1. UNCHANGED <<schema, draft>> /\ draft = None /\ HasRole(schema) /\ cli[c] # None
    BY <1>2, SameRules DEF App!InsertUser, App!EndCommand, App!Writable
  <2>2. users' = users \/ StoredRole(cli[c].role) \in Allowed(schema)
    BY <1>2, SameRules DEF App!InsertUser
  <2>3. CASE StoredRole(cli[c].role) \in Allowed(schema)
    <3>1. StoredRole(cli[c].role) \in RoleNames
      BY <2>1, StoredIsName, GrantsAssumption DEF DInv, SessionInv, App!Payloads
    <3>2. version \in Versions /\ Fits(version, schema)
      BY DEF DInv, MInv, CommandInv, TablesInv
    <3>3. RoleChecks(schema) = {}
      BY <2>1, <2>3, <3>1, <3>2, NamesRefused
    <3> QED
      BY <2>1, <3>3 DEF ChecksInv, Checked, HasRole, RoleChecks
  <2> QED
    BY <1>1, <2>1, <2>2, <2>3
<1> QED
  BY <1>1, <1>2 DEF Serve, App!ANext, App!CheckName, App!AbortCommand, App!EndCommand, App!Login,
     App!Verify, App!Authenticate, App!LoadUser, App!Answer, App!Tick, App!Rotate, App!Restart,
     App!shared

(* While the CHECK on users.role is there, create-user can write no role, no row
   can be read, and no request is served. *)
THEOREM ChecksLockOut == DSpec => []CheckLocksEveryoneOut
<1>1. DInit => ChecksInv
  <2> SUFFICES ASSUME DInit PROVE ChecksInv
    OBVIOUS
  <2>1. \A i \in Ids : users[i] = None
    BY DEF DInit, Init
  <2> QED
    BY <2>1 DEF DInit, Init, ChecksInv, Checked
<1>2. DInv /\ ChecksInv /\ [DNext]_vars => ChecksInv'
  <2> SUFFICES ASSUME DInv, ChecksInv, [DNext]_vars PROVE ChecksInv'
    OBVIOUS
  <2>1. CASE Migrate \/ Rest \/ UNCHANGED vars
    BY <2>1, MigrateChecks DEF Migrate, Rest, vars
  <2>2. CASE Serve
    BY <2>2, ServeChecks
  <2> QED
    BY <2>1, <2>2 DEF DNext
<1>3. DInv /\ ChecksInv => CheckLocksEveryoneOut
  <2> SUFFICES ASSUME DInv, ChecksInv, HasRole(schema), RoleChecks(schema) # {}
               PROVE  /\ Allowed(schema) \cap RoleNames = {}
                      /\ \A i \in Ids : users[i] # None => ~Loadable(users[i].role)
                      /\ \A r \in Requests : ~Authorized(r)
    BY DEF CheckLocksEveryoneOut
  <2>1. Allowed(schema) \cap RoleNames = {}
    BY NamesRefused DEF DInv, MInv, CommandInv, TablesInv
  <2>2. \A i \in Ids : users[i] # None => ~Loadable(users[i].role)
    BY DEF ChecksInv, Checked
  <2>3. ASSUME NEW r \in Requests, Authorized(r) PROVE FALSE
    <3>1. req[r] # None /\ req[r].next = "authorized" /\ GoodRequest(r)
      BY <2>3 DEF Authorized, DInv, SessionInv
    <3>2. /\ req[r].user \in Ids /\ users[req[r].user] = req[r].row
          /\ MadeBy(req[r].user, req[r].row) /\ Loadable(req[r].row.role)
      BY <3>1 DEF GoodRequest, DInv, SessionInv, GoodToken
    <3>3. users[req[r].user] # None
      BY <3>2, RowsAssumption DEF MadeBy
    <3> QED
      BY <2>2, <3>2, <3>3
  <2> QED
    BY <2>1, <2>2, <2>3
<1> QED
  BY <1>1, <1>2, <1>3, DInvHolds, PTL DEF DSpec

-----------------------------------------------------------------------------
(* Migrations above the base keep every user. *)
THEOREM UsersStayThroughMigrations == DSpec => UsersSurvive
<1>1. DInv /\ [DNext]_vars =>
        [version > 0 /\ version' > 0 =>
           \A i \in Ids : users[i] # None =>
             IF users'[i] = None THEN FALSE
             ELSE /\ users'[i].username = users[i].username
                  /\ users'[i].password_hash = users[i].password_hash]_vars
  <2> SUFFICES ASSUME DInv, DNext, version > 0, version' > 0 PROVE Survive(users, users')
    BY DEF Survive
  <2>1. users \in [Ids -> UserRows \cup {None}]
    BY DEF DInv, UsersInv, Sound
  <2>2. CASE users' = users
    BY <2>2 DEF Survive
  <2>3. ASSUME NEW k \in Commands, Finish(k), Owner = k PROVE Survive(users, users')
    BY <2>3, NoneAssumption DEF Finish, Owner, DInv, LockInv
  <2>4. ASSUME NEW i \in Ids, created[i] = None, NEW row, users' = [users EXCEPT ![i] = row]
        PROVE  Survive(users, users')
    <3>1. users[i] = None
      BY <2>4 DEF DInv, UsersInv, Sound, MadeBy
    <3> QED
      BY <2>1, <2>4, <3>1 DEF Survive
  <2>5. CASE Migrate
    BY <2>2, <2>3, <2>5 DEF Migrate, Next, Advance, Connect, Revise, Refuse, Finish, Kill, RollBack,
       AddRoleCheck
  <2>6. CASE Serve
    BY <2>2, <2>4, <2>6 DEF Serve, App!ANext, App!CheckName, App!InsertUser, App!AbortCommand,
       App!Login, App!Verify, App!Authenticate, App!LoadUser, App!Answer, App!Tick, App!Rotate,
       App!Restart, App!shared
  <2> QED
    BY <2>2, <2>5, <2>6 DEF DNext, Rest, vars, mvars
<1> QED
  BY <1>1, DInvHolds, PTL DEF DSpec, UsersSurvive
=============================================================================
