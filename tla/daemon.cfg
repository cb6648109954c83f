CONSTANTS
  Workers = {w1}
  Requested <- SomeMethods
  HashLens = {2, 34}
  Fees = {1, 2}
  MaxNonce = 1
  MaxChanges = 2
  MaxAlerts = 2
  None = None
SPECIFICATION Spec
INVARIANTS TypeOK AccountNotOlderThanHead SubmittedFresh NoMisuseBeforeQuit
PROPERTY EndsOnSignal
