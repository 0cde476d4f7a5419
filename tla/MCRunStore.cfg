CONSTANTS
  r1 = r1
  r2 = r2
  Runs = {r1, r2}
  Keys = {k1}
  Fingerprints = {f1}
  None = None
  Absent = Absent
  Quarantined = Quarantined
SPECIFICATION Spec
SYMMETRY Symmetry
INVARIANTS
  TypeOK
  AtMostOneGrant
  GrantIsDurable
  DiskLags
PROPERTIES
  FilesOnlyMoveForward
  RestartRunsNothing
  ImplementsExperimentRun
