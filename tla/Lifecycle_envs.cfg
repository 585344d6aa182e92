\* agent_init, add_env and delete_env on one connection.  The environment that
\* add_env may add has no repository.
CONSTANTS
  e1 = e1
  e2 = e2
  c1 = c1
  a1 = a1
  Interval = Interval
  None = None
  Envs = {e1, e2}
  InitEnvs = {e1}
  Broken = {e2}
  Inits = {c1}
  Adds = {a1}
  Deletes = {e1}
  SlotSize = 1
  MaxDrops = 0
  MaxInFlight = 1
  MayFail = FALSE
  MayShutdown = FALSE
SPECIFICATION FairSpec
INVARIANTS
  InitConcurrencyBounded
PROPERTIES
  DeletedEnvStops
\* The process exits, or is done with the commands of the instance.
CHECK_DEADLOCK FALSE
