CONSTANTS
  Procs = {p1, p2}
  Nobody = Nobody
  NoToken = NoToken
  Unreadable = Unreadable
  Lifetime = 2
  RefreshWindow = 2
  Registrations = {9}
  Faults = {"foreign"}
  MaxGrants = 3
  Horizon = 3
CHECK_DEADLOCK FALSE
SPECIFICATION Spec
SYMMETRY Symmetry
PROPERTIES RotatedTokenIsUsed
