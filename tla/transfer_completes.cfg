SPECIFICATION DeliveringSpec
CONSTANTS
  MaxBlock = 3
  Retransmissions = 1
  Faults = {}
  Noise <- NoNoise
  SenderBlockSize = 2
  ReceiverBlockSize = 2
  Modes = {"RRQ", "RRQ_OACK", "WRQ", "WRQ_ACK0"}
  TransferFiles <- AllFiles
CHECK_DEADLOCK FALSE
PROPERTY TransferCompletes
