CONSTANTS
  KeyLen = 3
  Keys <- MCKeys
  Asked <- MCKeys
  Values = {v1, v2}
  Default = nothing
  Junk = junk
  MaxPuts = 3
SPECIFICATION Spec
PROPERTIES PutThenGet
\* The process stops when it crashes.
CHECK_DEADLOCK FALSE
