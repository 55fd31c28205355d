SPECIFICATION FairSpec
CONSTANTS
  MaxBlock = 2
  Retransmissions = 1
  Faults = {"timeout", "dup", "open", "write", "recv"}
  Noise <- NoNoise
  SenderBlockSize = 2
  ReceiverBlockSize = 2
  Modes = {"RRQ", "RRQ_OACK", "RRQ_DATA1", "WRQ", "WRQ_OACK", "WRQ_ACK0"}
  TransferFiles <- MCFiles
CHECK_DEADLOCK FALSE
PROPERTIES ReceiverEnds SenderEndsOnceStarted
INVARIANT NoneStranded
