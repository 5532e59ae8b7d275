SPECIFICATION FairSpec
CONSTANTS
  Docs = {d1}
  SaveFaults = TRUE
  Deletes = FALSE
  Databases = FALSE
  MaxEvents = 2
PROPERTY SavedDocumentIndexed
