CONSTANTS
  Addresses = {a1}
  Resources = {r1, r2, r3}
  Threads = {t1, t2, t3}
  None = None
SPECIFICATION Spec
SYMMETRY Symmetry
INVARIANTS
  TypeOK
  PublishedIsOpen
  NoneForgotten
PROPERTIES
  LeaseKeepsOpen
