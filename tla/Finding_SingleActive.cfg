CONSTANTS
  Calls = {c1, c2}
  Nobody = Nobody
  MaxFaults = 0
  MaxTurns = 0
SPECIFICATION Spec
SYMMETRY Symmetry
INVARIANTS SingleActive
CHECK_DEADLOCK FALSE
