SPECIFICATION IteratorSpec
CONSTANTS
  Keys = {k1}
  Capacity = 1
  Chunk = 1
  IndexFaults <- CountingLast
  FillStops = FALSE
  MaxSeq = 1
  MaxPos = 3
  MaxStops = 2
  Limits <- OneOrAll
INVARIANTS
  TypeOK
  NoHoles
  AckedSurvive
  NumberingResumes
  SeenSurvive
  ReachesGoal
PROPERTIES
  ImplementsEventLog
  StartsUp
