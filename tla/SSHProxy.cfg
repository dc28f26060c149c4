SPECIFICATION SSHSpec
CONSTANTS
  None = None
  Loads <- MCLoads
  Releases <- MCReleases
  Kinds = {"proxy"}
INVARIANT ProxyLasts
CHECK_DEADLOCK FALSE
