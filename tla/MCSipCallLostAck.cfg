SPECIFICATION CallSpec
CONSTANTS
  None = None
  Cid = c1
  Cids = {c1}
  Vias <- MCVias
  Seqs = {1, 2, 3}
  Requests <- Nothing
  Responses <- Nothing
  MaxSessions = 1
  LogEvents = FALSE
  CalleeSeq = 1
  Scenarios <- LossyScenarios
INVARIANT EstablishedIsTracked
CHECK_DEADLOCK FALSE
