SPECIFICATION RegistrySpec
CONSTANTS
  Models = {m1, m2}
  Sessions = {s1}
INVARIANTS
  IndexNeverViolated
