SPECIFICATION LabelsSpec
CONSTANTS
  RoomNames = {kitchen, office}
  LastTime = 2
  MaxLabels = 2
  Sessions = {s1, s2}
  NoRoom = NoRoom
  Gone = Gone
SYMMETRY Symmetry
INVARIANTS
  SurvivorsStayLabelled
  SurvivorsStayTrained
  SequentialIsExact
