SPECIFICATION Spec
CONSTANTS
  MaxBlock = 2
  Retransmissions = 1
  Faults = {"timeout"}
  Noise <- NoNoise
  SenderBlockSize = 2
  ReceiverBlockSize = 2
  Modes = {"RRQ", "WRQ"}
  TransferFiles <- SmallFiles
CHECK_DEADLOCK FALSE
PROPERTY ResendsTheCurrentBlock
