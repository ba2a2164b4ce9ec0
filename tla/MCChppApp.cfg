CONSTANTS
  CHPP_REQUEST_TIMEOUT_DEFAULT = 2
  CHPP_TIME_MAX = 100
  CHPP_TX_DATAGRAM_QUEUE_LEN = 2
  MaxRequests = 3
  MaxResets = 1
SPECIFICATION Spec
INVARIANT NextTimeoutIsFirst
CHECK_DEADLOCK FALSE
