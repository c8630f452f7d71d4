CONSTANTS
  KeyLen = 3
  Keys <- MCKeys
  Asked <- MCAsked
  Values = {v1, v2}
  Default = nothing
  Junk = junk
  MaxPuts = 4
SPECIFICATION Spec
INVARIANTS TypeOK TreeShape CursorLinked BranchArity EveryKeyLocated NeverUndercounts DriftBounded
PROPERTIES ImplementsOnceMap CallsEnd
\* The process stops when it crashes.
CHECK_DEADLOCK FALSE
