SPECIFICATION FairRegistry
CONSTANTS
  Models = {m1, m2, m3}
  Sessions = {s1, s2}
INVARIANTS
  AtMostOneActive
  DeadlockNeedsOvertaking
PROPERTIES
  NeverWithoutModel
  SuccessMeansActive
  EveryActivationAnswered
