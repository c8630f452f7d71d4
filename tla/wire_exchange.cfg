CONSTANTS
  IdLen = 1
  PubLen = 2
  AddrLen = 1
  RecvSize = 9
  Known <- MCKnown
  Junk = {0, 2}
  MaxSent = 3
  MaxArrivals = 2
SPECIFICATION Spec
INVARIANTS TypeOK AnswerWhole NeverOverrun
\* The process stops when the datagrams are used up and none has arrived.
CHECK_DEADLOCK FALSE
