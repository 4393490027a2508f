SPECIFICATION Spec
CONSTANTS
  M1 = M1
  M2 = M2
  IpA = IpA
  IpB = IpB
  C1 = C1
  G1 = G1
  S1 = S1
  Null = Null
  Ids = {1, 2}
  Macs = {M1}
  Ips = {IpA}
  Configs = {C1}
  Groups = {}
  Schedules = {}
  OfflineAfter = 0
  MaxInFlight = 1
PROPERTIES
  RegisteredChipIsMigrated
