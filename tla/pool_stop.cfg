CONSTANTS
  Workers = {w1}
  Sockets = {s1, s2}
  Master = master
  Owner = owner
  NoSocket = NoSocket
  NoThread = NoThread
  QueueSize = 1
  Failing = {}
SPECIFICATION FairSpec
PROPERTY StopReturns
