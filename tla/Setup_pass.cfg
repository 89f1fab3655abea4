\* Every way a run gets its settings, and two commands in a row.
CONSTANTS
  k1 = k1
  k2 = k2
  cert = cert
  Scalars <- MCScalars
  Lists <- MCLists
  Control <- MCControl
  GlobalFiles <- MCGlobal
  ProjectFiles <- MCProject
  Options <- MCOptions
  ServerKeys <- MCServerKeys
  Certificate = cert
  Machines <- MCMachines
  SshConfigs <- MCSshConfigs
  HostName <- MCHostName
  Rings <- MCRings
  MaxTries = 2
  MaxOthers = 1
  MaxRekeys = 1
  LocalOs = "Linux"
  LocalArch = "aarch64"
  OSes = {"Linux", "Darwin"}
  Arches = {"x86_64", "aarch64", "arm64"}
  Hosts <- MCHosts
  Settings <- MCSettings
  MaxRuns = 2
SPECIFICATION Spec
INVARIANTS
  HighestWins
  
  Vouched
  UsableKeyWins
  ProbeHolds
PROPERTIES
  ConnectEnds
CHECK_DEADLOCK FALSE
