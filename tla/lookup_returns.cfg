CONSTANTS
  Dists = {0, 1, 2}
  Contacts = {zero, c1}
  Capacity = 2
  Threads = {t1, t2}
  Zero = zero
  Nobody = nobody
  MaxAnswer = 1
  Relock = {"proceeds"}
SPECIFICATION Spec
PROPERTIES FindReturns
\* The process stops when it crashes, when find returns and when all workers wait.
CHECK_DEADLOCK FALSE
