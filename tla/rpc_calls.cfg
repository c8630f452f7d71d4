CONSTANTS
  Callers = {t1, t2, t3}
  Addrs <- MCAddrs
  Width = 8
  MaxCalls = 3
  Nobody = nobody
  NoPeer = nopeer
SPECIFICATION Spec
INVARIANTS TypeOK ClosedAfterUse OnlyConnectionOne MutexOwned
PROPERTIES CallsEnd
\* The process stops when it crashes and when the calls are used up.
CHECK_DEADLOCK FALSE
