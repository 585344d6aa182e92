\* Two commands at a time, over two connections; listeners and loops run on.
SPECIFICATION Spec
CONSTANTS
  e1 = e1
  e2 = e2
  e3 = e3
  e4 = e4
  None = None
  Envs = {e1, e2, e3, e4}
  Named <- ThreeNamed
  Adds = {e4}
  Deletes = {e1, e4}
  MaxInits = 2
  MaxAdds = 1
  MaxInFlight = 2
  InitAlone = TRUE
INVARIANTS
  TypeOK
  NoneSkipped
  ListFollowsCommands
  ConfigNamesWatched
  WatchedIsManaged
\* The service sends no more commands, or the process has ended.
CHECK_DEADLOCK FALSE
