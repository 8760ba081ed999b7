SPECIFICATION FairSpec
CONSTANTS
  LENGTH = 5
  RESERVE = 1
  SIZEAT = 1
  Sizes = {3, 6}
  MAXPKT = 6
  Readers = {"irq"}
  Master = {"tx"}
  Ready = {"tx"}
  Faults = {"timeout"}
  MAXSEND = 4
INVARIANTS TypeOK NoOverrun StreamIntact RoomNotMissed DataNotMissed
PROPERTIES ChannelSpec ChannelFairSpec SendReturns
CHECK_DEADLOCK FALSE
