\* Three revisions, so that one may take back another; a restart at any step,
\* commands of the service, a sync that fails as a whole and resources that
\* fail one by one.
CONSTANTS
  Absent = Absent
  v1 = v1
  r1 = r1
  Resources = {r1}
  Versions = {v1}
  MaxRevs = 3
  MaxGens = 2
  FaultKinds = {"sync", "apply"}
  MaxFaults = 1
  ResponseCap = 1
  MayReconnect = FALSE
  MayRestart = TRUE
  MayCommand = TRUE
  MayTick = TRUE
SPECIFICATION FairSpec
INVARIANTS
  TypeOK
  SyncedMeansApplied
  NeverStranded
PROPERTIES
  Converges
  ImplementsReportLog
