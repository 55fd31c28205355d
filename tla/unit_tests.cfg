SPECIFICATION TestSpec
CONSTANTS
  MaxBlock = 65535
  Retransmissions = 4
  Faults = {"timeout"}
  Noise = {}
  SenderBlockSize = 512
  ReceiverBlockSize = 512
  Modes = {}
  TransferFiles = {}
  MinBlksize = 8
  MaxBlksize = 65464
  MaxTimeout = 255
  IntModulus = 1073741824
  LongMax = 1073741824
  UintMax = 1073741825
  DEFAULT_BLOCKSIZE = 512
  RETRANSMISSION_TIME = 2
  ServerPorts = {"p1"}
  RequestFaults = {}
  Jobs = {}
  OtherDatagrams = {}
CHECK_DEADLOCK FALSE
INVARIANT SeesWhatIsExpected
PROPERTY TestsPass
