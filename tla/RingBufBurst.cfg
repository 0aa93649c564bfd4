\* The same buffer, two Puts between tail++ and the wrap.
CONSTANTS
  RingSize = 4
  Byte = {b1, b2}
  Burst = 2
SPECIFICATION RingFairSpec
PROPERTIES
  PutAddsOneByte
