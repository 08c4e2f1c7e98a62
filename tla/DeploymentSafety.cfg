\* Migrations, two at a time, while users are created and use their tokens.
SPECIFICATION DSpec
CONSTANTS
  k1 = k1
  k2 = k2
  i1 = i1
  i2 = i2
  u = u
  p = p
  q = q
  c1 = c1
  c2 = c2
  r1 = r1
  r2 = r2
  w1 = w1
  w2 = w2
  a = a
  b = b
  Commands = {k1, k2}
  Goals = {0, 3, 6}
  Ids = {i1, i2}
  MaxCommands = 4
  Usernames = {u}
  Passwords = {p, q}
  Grants = {"vendor"}
  Operators = {c1, c2}
  Requests = {r1}
  Workers = {w1, w2}
  Keys = {a, b}
  Lifetime = 1
  MaxTime = 3
  MaxTokens = 1
  None = None
SYMMETRY Symmetry
INVARIANTS
  TypeOK
  SchemaFitsVersion
  CheckLocksEveryoneOut
  TokenNamesItsUser
  TokensLiveAsPromised
  RotationEndsOldTokens
  RolesGrantedOrLost
PROPERTY
  UsersSurvive
