SPECIFICATION Spec
CONSTANTS
  Programs <- MCTried
  Meanings <- MCMeanings
  StackSize = 40
  Collation <- MCCollation
  MaxExt = 3
  FieldsPerFlush = 3
INVARIANTS
  EveryJumpLeads
CHECK_DEADLOCK FALSE
