SPECIFICATION Spec
CONSTANTS
  a = a
  b = b
  Endpoints = {a, b}
  SeqNumbers = 4
  CHPP_TRANSPORT_MAX_RETX = 1
  CHPP_TRANSPORT_MAX_RESET = 2
  CHPP_TX_DATAGRAM_QUEUE_LEN = 2
  Lengths <- LongAndShort
  DiscoveryClients = {a}
  ShortOfMemory = {b}
  ResetDuringRx = FALSE
  TroubleDuringReset = FALSE
  MaxDatagrams <- TwoAndOne
  MaxWire = 2
  MaxTroubles = 1
  Null = Null
INVARIANT TypeOK
INVARIANT InOrderDelivery
INVARIANT AckedWasDelivered
INVARIANT SequenceNumbersAgree
CHECK_DEADLOCK FALSE
