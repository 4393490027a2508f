SPECIFICATION Spec
CONSTANTS
  D1 = D1
  D2 = D2
  C1 = C1
  G1 = G1
  S1 = S1
  Null = Null
  Ids = {D1, D2}
  Configs = {C1}
  Groups = {G1}
  Schedules = {S1}
INVARIANTS
  TypeOK
  QuietMeansSaved
PROPERTIES
  EventuallySaved
  QuietStopLosesNothing
  ImplementsWriteBehind
