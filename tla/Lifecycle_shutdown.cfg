\* Two generations of watches of one environment under one slot, a disconnect
\* between them, and a shutdown at any moment.
CONSTANTS
  e1 = e1
  c1 = c1
  c2 = c2
  Interval = Interval
  None = None
  Envs = {e1}
  InitEnvs = {e1}
  Broken = {}
  Inits = {c1, c2}
  Adds = {}
  Deletes = {}
  SlotSize = 1
  MaxDrops = 1
  MaxInFlight = 1
  MayFail = FALSE
  MayShutdown = TRUE
SPECIFICATION FairSpec
PROPERTIES
  
  ListenersFinish
\* The process exits, or is done with the commands of the instance.
CHECK_DEADLOCK FALSE
