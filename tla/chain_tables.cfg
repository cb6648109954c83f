CONSTANTS
  c1 = c1
  c2 = c2
  b1 = b1
  b2 = b2
  b3 = b3
  b4 = b4
  t1 = t1
  t2 = t2
  NoTx = NoTx
  NoBlock = NoBlock
  ChainOf <- TwoChains
  TxOf <- Rivals
  Workers = {w1}
  Chains = {c1, c2}
  Peers = {}
  Blocks = {b1, b2, b3}
  Forms = {"str"}
  Tracked = {}
  Unquotable = {c2}
  IsBannedRequired = FALSE
  MaxAlerts = 1
SPECIFICATION FairSpec
INVARIANTS TablesMirrorChain BlockHasTx HeadIsLatest
PROPERTY EveryBlockStored
