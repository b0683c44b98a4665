CONSTANTS
  Procs = {p1, p2}
  Nobody = Nobody
  NoToken = NoToken
  Unreadable = Unreadable
  Lifetime = 2
  RefreshWindow = 2
  Registrations = {9}
  Faults = {"network", "disk", "crash", "foreign"}
  MaxGrants = 2
  Horizon = 2
CHECK_DEADLOCK FALSE
SPECIFICATION FairSpec
INVARIANTS MutualExclusion
PROPERTIES CallsEnd
