SPECIFICATION Spec
CONSTANTS
  d1 = d1
  d2 = d2
  d3 = d3
  g1 = g1
  Null = Null
  Devices = {d1, d2, d3}
  Configs = {"heat", "cool", "off"}
  Groups = {g1}
  Schedules = {"s1"}
  Plans <- SomePlans
  Entries <- SomeEntries
  Fires = {1, 2}
  MaxEvents = 1
INVARIANTS
  TypeOK
PROPERTIES
  EveryFireEnds
  EveryDeviceHasItsTurn
  SchedulesWin
  OffOnlyOnStaleView
CHECK_DEADLOCK FALSE
