CONSTANTS
  Procs = {p1, p2}
  Nobody = Nobody
  NoToken = NoToken
  Unreadable = Unreadable
  Lifetime = 2
  RefreshWindow = 2
  Registrations = {1, 9}
  Faults = {"network", "disk", "crash"}
  MaxGrants = 3
  Horizon = 3
CHECK_DEADLOCK FALSE
SPECIFICATION Spec
SYMMETRY Symmetry
INVARIANTS TypeOK LockedReadIsCurrent RefreshOnce
PROPERTIES LoginRequiredIsTrue OnlySignInFillsEmptyCache ImplementsLedger
