\* Two generations of watches of two environments under one slot.
CONSTANTS
  e1 = e1
  e2 = e2
  c1 = c1
  c2 = c2
  Interval = Interval
  None = None
  Envs = {e1, e2}
  InitEnvs = {e1, e2}
  Broken = {}
  Inits = {c1, c2}
  Adds = {}
  Deletes = {}
  SlotSize = 1
  MaxDrops = 1
  MaxInFlight = 1
  MayFail = TRUE
  MayShutdown = FALSE
SPECIFICATION Spec
SYMMETRY Symmetry
INVARIANTS
  TypeOK
  NoOrphans
  LoopUsesItsRepo
PROPERTIES
  ImplementsWatches
\* The process exits, or is done with the commands of the instance.
CHECK_DEADLOCK FALSE
