CONSTANTS
  Addrs = {a1, a2}
  Workers = {w1, w2}
  Ids = {1, 2, 3, 4, 5}
  Strategies = {"random", "order", "first", "last"}
  Module = "nmq"
  RetryConf = 1
  MaxResp = 2
  DupEntries = FALSE
  MaxCount = 2
  OrderMod = 2
  NamingRes = NamingRes
  DepRes = DepRes
  NoIns = NoIns
  NoAddr = NoAddr
  Placeholder = Placeholder
SPECIFICATION Spec
SYMMETRY MCSymmetry
INVARIANTS
  TypeOK
  CountNeverAheadOfList
  DepMirrorsNaming
  DownloadMirrorsNaming
