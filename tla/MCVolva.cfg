SPECIFICATION FairSpec
CONSTANTS
  Models = {m1, m2}
  Rooms = {kitchen, office}
  Receivers = {r1, r2}
  Window = 2
  VoteHistory = 2
  MaxConnections = 2
  MaxSwitches = 2
  MaxFaults = 1
  NoModel = NoModel
  NoPrediction = NoPrediction
INVARIANTS
  VotesOfOneModel
  WindowsAreUnbroken
  SkipIsHarmless
PROPERTIES
  ActiveModelPredicts
