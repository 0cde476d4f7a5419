CONSTANTS
  a1 = a1
  a2 = a2
  Runs = {r1}
  Keys = {k1}
  Fingerprints = {f1, f2}
  Handlers = {h1, h2}
  Addresses = {a1, a2}
  Plans <- AnyPlan
  None = None
  Absent = Absent
  Quarantined = Quarantined
  DryRunOverlaps = FALSE
  StopsHappen = TRUE
  SessionsVanish = TRUE
  WritesFail = TRUE
  WrongRoutes = TRUE
SPECIFICATION FairSpec
INVARIANTS
  TypeOK
  AtMostOneSweep
PROPERTIES
  ImplementsRunStore
  AddressesComeFree
