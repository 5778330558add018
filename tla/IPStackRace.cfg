SPECIFICATION Spec
\* A ring of three bytes, of two values so that bytes out of order show, and
\* segments that are shorter, as long and longer than the ring.
CONSTANTS
  Bytes = {0, 1}
  NoByte = 2
  BUF_SIZE = 3
  RESULT_BUF_SIZE = 3
  MAX_SEGMENT = 4
INVARIANTS
  CountIsStored
