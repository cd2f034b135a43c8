SPECIFICATION FairMigrations
CONSTANTS
  geri = geri
  older = older
  edited = edited
  a = a
  b = b
  b2 = b2
  Services = {geri, older, edited}
  Contents = {a, b, b2}
  Bundle <- MCBundle
  None = None
  Free = Free
  Ghost = Ghost
  MaxFaults = 2
INVARIANTS
  PictureIsCurrent
  RecordIsTrue
PROPERTIES
  ImplementsSchemaLog
  EveryServiceStarts
