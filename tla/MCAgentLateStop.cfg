CONSTANTS
  a1 = a1
  a2 = a2
  Runs = {r1}
  Keys = {k1, k2}
  Fingerprints = {f1, f2}
  Handlers = {h1, h2}
  Addresses = {a1, a2}
  Plans <- Single
  None = None
  Absent = Absent
  Quarantined = Quarantined
  DryRunOverlaps = FALSE
  StopsHappen = TRUE
  SessionsVanish = FALSE
  WritesFail = FALSE
  WrongRoutes = FALSE
SPECIFICATION Spec
INVARIANTS
  AgentFollowsSweep
