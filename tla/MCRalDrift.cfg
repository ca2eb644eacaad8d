CONSTANTS
  Addrs = {a1, a2}
  Workers = {w1, w2}
  Ids = {1, 2, 3, 4, 5}
  Strategies = {"first"}
  Module = "http"
  RetryConf = 1
  MaxResp = 2
  DupEntries = FALSE
  MaxCount = 2
  OrderMod = 2
  NamingRes = NamingRes
  DepRes = DepRes
  NoIns = NoIns
  NoAddr = NoAddr
  Placeholder = Placeholder
SPECIFICATION Spec
SYMMETRY MCSymmetry
INVARIANT ListedInstancesReachable
