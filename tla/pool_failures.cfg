CONSTANTS
  Workers = {w1, w2}
  Sockets = {s1, s2, s3}
  Master = master
  Owner = owner
  NoSocket = NoSocket
  NoThread = NoThread
  QueueSize = 2
  Failing = {w1, master}
SPECIFICATION Spec
INVARIANTS OneHolder
