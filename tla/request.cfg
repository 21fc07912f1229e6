SPECIFICATION FairSpec
CONSTANTS
  NoTx = NoTx
  MaxEffects = 1
  MaxFaults = 1
  Requests <- MCRequests
INVARIANTS UndoneRightly PartIsAtomic AnswerIsTrue
PROPERTIES CancelIsComplete
CHECK_DEADLOCK FALSE
