CONSTANTS
  c1 = c1
  c2 = c2
  b1 = b1
  b2 = b2
  b3 = b3
  b4 = b4
  t1 = t1
  t2 = t2
  NoTx = NoTx
  NoBlock = NoBlock
  ChainOf <- TwoChains
  TxOf <- Rivals
  Workers = {w1}
  Chains = {c1}
  Peers = {}
  Blocks = {b1}
  Forms = {"hex"}
  Tracked = {}
  Unquotable = {}
  IsBannedRequired = TRUE
  MaxAlerts = 1
SPECIFICATION Spec
INVARIANT RowIffFollowed
