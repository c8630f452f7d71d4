CONSTANTS
  Dists = {0, 1, 2}
  Contacts = {zero, c1}
  Capacity = 2
  Threads = {t1, t2, t3}
  Zero = zero
  Nobody = nobody
  MaxAnswer = 1
  Relock = {"blocks", "proceeds"}
SPECIFICATION Spec
INVARIANTS TypeOK FrontIsAsked ResultIsTarget
PROPERTIES TargetStays LoopGoesOn FoundSpreads ImplementsSearch
\* The process stops when it crashes, when find returns and when all workers wait.
CHECK_DEADLOCK FALSE
