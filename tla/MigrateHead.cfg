\* One operator, an empty database, "alembic upgrade head".
SPECIFICATION Spec
CONSTANTS
  Commands = {"k1"}
  Goals = {6}
  Ids = {}
  MaxCommands = 1
  None = None
INVARIANT
  UpgradeHeadApplies
CHECK_DEADLOCK FALSE
