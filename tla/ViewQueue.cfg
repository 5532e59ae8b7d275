SPECIFICATION FairSpec
CONSTANTS
  Docs = {d1}
  SaveFaults = TRUE
  Deletes = TRUE
  Databases = TRUE
  MaxEvents = 3
INVARIANTS
  TypeOK
  ViewsFollowLog
  NothingForgotten
PROPERTY EveryEventIndexed
