SPECIFICATION Spec
CONSTANTS
  S1 = S1
  Null = Null
  Schedules = {S1}
  StepLists <- SomeSteps
  Zones <- SomeZones
  Gens = {1, 2}
  DayLength = 6
  Horizon = 13
PROPERTIES
  MissedFiresAreSkipped
