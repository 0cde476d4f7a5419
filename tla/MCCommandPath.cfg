CONSTANTS
  Keys <- SmuKeys
  Unknown = Unknown
  None = None
  Address = a1
  Resources = {r1, r2}
  Clients = {c1}
  Operator = Operator
  Schema <- Keithley2600
SPECIFICATION Spec
SYMMETRY Symmetry
INVARIANTS
  TypeOK
PROPERTIES
  OutputAsValidated
