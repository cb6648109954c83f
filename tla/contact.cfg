CONSTANTS
  Workers = {w1, w2}
  Keys = {k1}
  Spellings = {"lower", "mixed"}
  Messages = {m1, m2}
  Unquotable = {m2}
  MaxTime = 1
  MaxCrashes = 1
  MaxAlerts = 2
SPECIFICATION FairSpec
INVARIANTS TypeOK LogHasMessage UnloggedBound FriendHasRow LastSeenIsLatest
PROPERTY EveryMessageStored
