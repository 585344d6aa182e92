\* Two generations, overlapping or after a crash, and faults of fetch, head,
\* push and link; what a revision holds does not matter here, and refreshes
\* come by command, at any time.
CONSTANTS
  Absent = Absent
  r1 = r1
  Resources = {r1}
  Versions = {}
  MaxRevs = 2
  MaxGens = 2
  FaultKinds = {"fetch", "head", "push", "link"}
  MaxFaults = 1
  ResponseCap = 1
  MayReconnect = TRUE
  MayRestart = TRUE
  MayCommand = TRUE
  MayTick = FALSE
SPECIFICATION Spec
PROPERTIES
  ReportedBeforeTagged
  TagNeverGoesBack
\* A loop that waits for nothing and a service that sends nothing may stop.
CHECK_DEADLOCK FALSE
