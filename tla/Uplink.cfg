\* Three responses, one of them too long to send, a channel of two places and
\* three faults: every phase of connect fails at least once.
CONSTANTS
  Packets = {p1, p2, p3}
  Oversized = {p3}
  ChanCap = 2
  MaxFaults = 3
SPECIFICATION FairSpec
INVARIANTS
  TypeOK
  ResyncBeforeResponses
PROPERTIES
  ImplementsOutbox
  EventuallyDisposed
\* After a shutdown nothing is left to do.
CHECK_DEADLOCK FALSE
