SPECIFICATION Spec
CONSTANTS
  a = a
  b = b
  Endpoints = {a, b}
  SeqNumbers = 4
  CHPP_TRANSPORT_MAX_RETX = 1
  CHPP_TRANSPORT_MAX_RESET = 2
  CHPP_TX_DATAGRAM_QUEUE_LEN = 2
  Lengths <- Short
  DiscoveryClients = {}
  ShortOfMemory = {}
  ResetDuringRx = TRUE
  TroubleDuringReset = TRUE
  MaxDatagrams <- OneWay
  MaxWire = 2
  MaxTroubles = 1
  Null = Null
INVARIANT ResetTravelsAsReset
CHECK_DEADLOCK FALSE
