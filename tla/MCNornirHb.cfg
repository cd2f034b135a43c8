SPECIFICATION FairSpec
CONSTANTS
  MaxJobs = 3
  Daemons = {d1, d2}
  Replicas = {r1}
  OrphanTimeout = 1
  NoDaemon = NoDaemon
  ListLimit = 50
  HbInterval = 1
  MaxSubmissions = 1
  MaxFaults = 1
  MaxCrashes = 0
INVARIANT HeartbeatWhileTraining
