SPECIFICATION FairSpec
CONSTANTS
  MinBlksize = 2
  MaxBlksize = 6
  MaxTimeout = 4
  IntModulus = 16
  LongMax = 127
  UintMax = 255
  DEFAULT_BLOCKSIZE = 5
  RETRANSMISSION_TIME = 1
  p1 = p1
  p2 = p2
  ServerPorts = {p1}
  RequestFaults = {"send", "recv"}
  Jobs <- SmallJobs
  OtherDatagrams <- MCOthers
CHECK_DEADLOCK FALSE
PROPERTIES JobEnds SessionsLeaveTheirLists
