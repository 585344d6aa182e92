SPECIFICATION FairSpec
CONSTANTS
  Charts = {x, y}
  MaxEof = 1
  MaxSpecs = 2
  MaxSyncs = 3
  MaxCopies = 2
  MaxTroubles = 3
INVARIANTS TypeOK SpecIsPursued
PROPERTY SpecIsAnswered
CHECK_DEADLOCK FALSE
