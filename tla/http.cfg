CONSTANTS
  Shapes <- MCShapes
  HeadLen = 2
  BufSize = 4
  MaxRequests = 3
  MaxConnections = 2
SPECIFICATION FairSpec
INVARIANTS TypeOK AssertionsHold InStep BodyIntact
PROPERTY ConnectionEnds
