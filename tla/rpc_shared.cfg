CONSTANTS
  Callers = {t1, t2}
  Addrs <- MCAddrs
  Width = 8
  MaxCalls = 3
  Nobody = nobody
  NoPeer = nopeer
SPECIFICATION Spec
INVARIANTS OneCloser
\* The process stops when it crashes and when the calls are used up.
CHECK_DEADLOCK FALSE
