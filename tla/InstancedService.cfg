SPECIFICATION FairSpec
CONSTANTS
  Pods = {p1}
  Tolerate = FALSE
  MaxChanges = 4
  MaxErrors = 1
PROPERTY EndpointsSettle
\* Nobody has to change anything.
CHECK_DEADLOCK FALSE
