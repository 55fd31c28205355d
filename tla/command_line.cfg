SPECIFICATION Spec
CONSTANTS
  MinBlksize = 2
  MaxBlksize = 6
  MaxTimeout = 4
  IntModulus = 16
  LongMax = 127
  UintMax = 255
  DEFAULT_BLOCKSIZE = 5
  RETRANSMISSION_TIME = 1
  PortModulus = 6
  SERVER_LISTEN_PORT = 5
  Words <- MCWords
  Numbers <- MCNumbers
  Addresses <- MCAddresses
  CommandLines <- MCCommandLines
CHECK_DEADLOCK FALSE
INVARIANTS StartsWhatIsAsked NoValueIsReplaced ServerTakesBlksize
