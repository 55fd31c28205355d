SPECIFICATION Spec
CONSTANTS
  MaxBlock = 2
  Retransmissions = 1
  Faults = {"timeout", "send", "recv", "open", "read", "write"}
  Noise <- RuntNoise
  SenderBlockSize = 2
  ReceiverBlockSize = 2
  Modes = {"RRQ", "RRQ_OACK", "RRQ_DATA1", "WRQ", "WRQ_OACK", "WRQ_ACK0"}
  TransferFiles <- SmallFiles
CHECK_DEADLOCK FALSE
INVARIANTS OutputIsPrefix SingleChain WaitsAreTimed
PROPERTIES ImplementsStopAndWait ReceiverReportsSuccessWhenComplete
