CONSTANTS
  Sessions = {s1}
  Stoppers = {t1, t2}
  Levels = 2
  Nobody = Nobody
SPECIFICATION FairSpec
INVARIANTS
  TypeOK
  OffOrReported
  OnlyOnWithLimit
  OutcomeIsHonest
PROPERTIES
  ImplementsControl
  SweepEnds
  StopEndsTheSweep
