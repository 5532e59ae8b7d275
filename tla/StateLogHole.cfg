SPECIFICATION Spec
CONSTANTS
  Keys = {k1}
  Capacity = 3
  Chunk = 1
  IndexFaults = {"delete"}
  FillStops = FALSE
  MaxSeq = 2
  MaxPos = 5
  MaxStops = 1
INVARIANT NumberingResumes
