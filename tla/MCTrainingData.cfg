SPECIFICATION FairData
CONSTANTS
  Times = {1, 2, 3}
  Receivers = {1, 2}
  RoomNames = {kitchen, office}
  NoRoom = NoRoom
  Requested = {kitchen, office}
  Span = {1, 2, 3}
  PageSize = 3
  WindowSize = 2
  Start = Start
  MaxWrites = 2
INVARIANTS
  ExportInOrder
  SteadyRowsExported
  WindowsAreRuns
PROPERTIES
  ExportEnds
