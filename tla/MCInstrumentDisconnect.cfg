CONSTANTS
  a1 = a1
  a2 = a2
  Addresses = {a1, a2}
  Rank <- Alphabetical
  Resources = {r1, r2}
  Operations = {o1, o2}
  Plans <- DualAndSweep
  Clients = {c1}
  Stopper = Stopper
  None = None
SPECIFICATION Spec
SYMMETRY Symmetry
PROPERTIES
  OwnedStaysConnected
