SPECIFICATION Spec
CONSTANTS
  C1 = C1
  C2 = C2
  Reassert = Reassert
  Null = Null
  NoId = NoId
  Configs = {C1, C2}
  MaxPushes = 1
  MaxEvents = 1
PROPERTIES
  NoReassertOnReboot
