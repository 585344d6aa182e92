SPECIFICATION Spec
CONSTANTS
  Kinds = {"StatefulSet", "ConfigMap", "Job"}
  Labels = {"release"}
  MaxChanges = 2
  MaxErrors = 1
  MaxReSyncs = 2
  MaxStarts = 1
  ChanSize = 1
INVARIANTS TypeOK ViewIsCurrent OldLoopsAreTold
CHECK_DEADLOCK FALSE
