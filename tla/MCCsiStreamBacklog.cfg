SPECIFICATION IngestSpec
CONSTANTS
  Replicas = {g1, g2}
  Receivers = {kitchen}
  QueueSize = 2
  BatchSize = 2
  MaxPackets = 3
  MaxBatch = 1
  NoCursor = NoCursor
PROPERTIES
  BacklogIsDropped
