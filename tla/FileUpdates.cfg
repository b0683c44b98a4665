CONSTANTS
  Procs = {p1, p2, p3}
  Absent = Absent
  Torn = Torn
  MaxWrites = 2
  MaxOpens = 2
CHECK_DEADLOCK FALSE
SPECIFICATION Spec
SYMMETRY Symmetry
INVARIANTS TypeOK Exclusive SecretStaysPrivate
PROPERTIES ImplementsLedger
