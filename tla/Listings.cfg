CONSTANTS
  Procs = {p1, p2}
  Scopes = {corp, lab}
  Nobody = Nobody
  Accounts = {1, 2}
  FanOut = 1
  MaxVersion = 2
SPECIFICATION Spec
SYMMETRY Symmetry
INVARIANTS TypeOK ListingIsWhole CacheIsCurrent CallsAreContained
