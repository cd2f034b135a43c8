SPECIFICATION JobSpec
CONSTANTS
  MaxJobs = 3
  Daemons = {d1, d2}
  Replicas = {r1, r2}
  OrphanTimeout = 0
  NoDaemon = NoDaemon
SYMMETRY Symmetry
INVARIANTS
  OneCurrentRow
  NoSubmissionLost
  TokensOpenOneJob
PROPERTIES
  VerdictIsFinal
  ReapsOnlyStale
  ImplementsLifecycle
