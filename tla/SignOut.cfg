CONSTANTS
  Procs = {p1, p2}
  Sessions = {corp, lab}
  Nobody = Nobody
  MaxGrants = 2
CHECK_DEADLOCK FALSE
SPECIFICATION Spec
SYMMETRY Symmetry
INVARIANTS TypeOK SignedOutMeansOut SweepMissesNothing
