CONSTANTS
  a1 = a1
  a2 = a2
  Runs = {r1, r2}
  Keys = {k1}
  Fingerprints = {f1}
  Handlers = {h1, h2}
  Addresses = {a1, a2}
  Plans <- SingleOrDual
  None = None
  Absent = Absent
  Quarantined = Quarantined
  DryRunOverlaps = FALSE
  StopsHappen = FALSE
  SessionsVanish = FALSE
  WritesFail = FALSE
  WrongRoutes = FALSE
SPECIFICATION FairSpec
INVARIANTS
  AgentFollowsSweep
  SweepOwnsItsAddresses
PROPERTIES
  RunsSettle
