SPECIFICATION OrderlySpec
CONSTANTS
  None = None
  c1 = c1
  c2 = c2
  vInv = vInv
  vAck = vAck
  vBye = vBye
  vIn = vIn
  vInv2 = vInv2
  vAck2 = vAck2
  Cids = {c1, c2}
  Vias = {vInv, vAck, vInv2, vAck2}
  Seqs = {1, 2}
  Requests <- TwoCallRequests
  Responses <- TwoCallResponses
  MaxSessions = 2
  LogEvents = FALSE
INVARIANT CallsKeptApart
