SPECIFICATION FairReceiverSpec
CONSTANTS
  None = None
  c1 = c1
  vInv = vInv
  vAck = vAck
  vBye = vBye
  Cids = {c1}
  Vias = {vInv, vAck, vBye}
  Seqs = {1, 2}
  Requests <- MCRequests
  Responses <- MCResponses
  Malformed <- MCMalformed
  Datagrams <- MCDatagrams
  MaxSessions = 1
  LogEvents = FALSE
  MaxLength = 3
  MaxPending = 3
  MaxKept = 2
PROPERTIES
  DatagramYields
  ParserFresh
  ReplayAbsorbed
  LoopEnds
CHECK_DEADLOCK FALSE
