SPECIFICATION FairSpec
CONSTANTS
  Node = {n1, n2}
  Claimant = {k1, k2}
  NoOne = NoOne
  Lost = Lost
  Command <- Catalogue
  DefaultTTL = 3
  Slack = 1
INVARIANTS TypeOK HoldsLease
PROPERTIES StaleRowsFade MutexSpec
