CONSTANTS
  Shapes <- MCShapes
  HeadLen = 2
  BufSize = 4
  MaxRequests = 2
  MaxConnections = 2
SPECIFICATION Spec
INVARIANT AnswerFramed
