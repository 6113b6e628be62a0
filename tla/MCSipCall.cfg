SPECIFICATION FairCallSpec
CONSTANTS
  None = None
  Cid = c1
  Cids = {c1}
  Vias <- MCVias
  Seqs = {1, 2, 3}
  Requests <- Nothing
  Responses <- Nothing
  MaxSessions = 1
  LogEvents = FALSE
  CalleeSeq = 2
  Scenarios <- MCScenarios
INVARIANTS
  MediaPaired
  AnswerRedirected
  EstablishedIsTracked
  NoForgottenCall
PROPERTIES
  HangupEnds
  Drains
CHECK_DEADLOCK FALSE
