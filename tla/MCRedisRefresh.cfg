CONSTANTS
  Hosts = {"h1", "h2", "h3"}
  PoolIds = {1, 2, 3, 4}
  MaxArgs = 2
  DupHosts = FALSE
SPECIFICATION Spec
INVARIANTS
  TypeOK
  IndexMatchesPools
  OpenPoolsListed
PROPERTY
  ImplementsRedisHosts
