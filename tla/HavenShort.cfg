SPECIFICATION Spec
CONSTANTS
  LENGTH = 5
  RESERVE = 1
  SIZEAT = 1
  Sizes = {3, 6}
  MAXPKT = 6
  Readers = {"irq"}
  Master = {"tx"}
  Ready = {"tx"}
  Faults = {"short"}
  MAXSEND = 3
INVARIANTS InOrder
CHECK_DEADLOCK FALSE
