CONSTANTS
  Dists = {0, 1, 2, 3, 4}
  Contacts = {c1, c2}
  Capacity = 2
SPECIFICATION KSpec
INVARIANTS NeverOverfull
SYMMETRY Names
\* The process stops when it crashes.
CHECK_DEADLOCK FALSE
