SPECIFICATION HalvesSpec
\* A ring of three bytes, of two values so that bytes out of order show, and
\* segments that are shorter, as long and longer than the ring.
CONSTANTS
  Bytes = {0, 1}
  NoByte = 2
  BUF_SIZE = 3
  RESULT_BUF_SIZE = 3
  MAX_SEGMENT = 4
\* Sessions: two connections that lwIP is not done with and a third, a ring of
\* two bytes.
  Connections = {1, 2, 3}
  NULL = 0
  RING_SIZE = 2
  CONNECT_POLLS = 1
  EXPIRIES = 1
INVARIANTS
  BothTypeOK
  ConnectionsAccounted
  StaleWereLeft
PROPERTIES
  ImplementsFifo
  SessionsGoOn
