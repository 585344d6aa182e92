SPECIFICATION Spec
CONSTANTS
  Kinds = {"Service", "PersistentVolumeClaim", "Certificate"}
  Names = {a}
  Files = {f1, f2}
  Versions = {v1, exist}
  ExistCert = exist
  CertManager = "1.1.1"
  MaxCommits = 3
  MaxFaults = 2
  MaxOthers = 1
SYMMETRY Symmetry
INVARIANTS TypeOK DriftIsTold PrunesRemoved
PROPERTY DeletesOnlyRemoved
\* A repository that names a resource twice is not loaded until someone commits.
CHECK_DEADLOCK FALSE
