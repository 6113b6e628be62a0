SPECIFICATION Spec
CONSTANTS
  None = None
  c1 = c1
  c2 = c2
  vInv = vInv
  vAck = vAck
  vBye = vBye
  vIn = vIn
  vInv2 = vInv2
  vAck2 = vAck2
  Cids = {c1, c2}
  Vias = {vInv, vAck, vBye, vIn}
  Seqs = {1, 2}
  Requests <- MCRequests
  Responses <- MCResponses
  MaxSessions = 1
  LogEvents = FALSE
INVARIANTS
  TypeOK
  BranchIndexSound
  PortsMatchCalls
PROPERTY KeepsLifecycle
