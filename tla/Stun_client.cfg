\* One NAT that changes its address, one thread 3 at a time.
SPECIFICATION FairSpec
CONSTANTS
  Unknown = Unknown
  NoKey = NoKey
  Ips = {ip1, ip2}
  LanIp = ip1
  Scenarios <- SomeScenarios
  Probers = {p1}
  NoProber = NoProber
  QuietToggles = TRUE
INVARIANTS
  KeepAlivePeriod
  NoReplay
PROPERTIES
  ComesToRest
