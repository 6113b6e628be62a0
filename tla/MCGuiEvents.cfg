SPECIFICATION GuiSpec
CONSTANTS
  c1 = c1
  c2 = c2
  None = None
  Raised = Raised
  Nameless <- MCNameless
  Calls <- MCCalls
  Encrypting <- MCEncrypting
  MaxAnswers = 2
  MaxBacklog = 4
CHECK_DEADLOCK FALSE
INVARIANTS
  MuteEndsWithCalls
  SecureIsShown
