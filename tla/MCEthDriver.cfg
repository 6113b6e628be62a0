SPECIFICATION EthFairSpec
CONSTANTS
  RINGBUFFERS = 3
  TX_SLOTS = 2
  RX_SLOTS = 2
  LITEX_COUNTER_READER_READY = 2
  MaxFrames = 4
  MaxSends = 3
INVARIANTS
  SendsAreCounted
  SlotsHoldTheirFrames
PROPERTIES
  RingSpec
  FramesArePut
CHECK_DEADLOCK FALSE
