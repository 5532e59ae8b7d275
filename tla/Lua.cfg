SPECIFICATION Spec
CONSTANTS
  Programs <- MCPrograms
  Meanings <- MCMeanings
  StackSize = 40
  Collation <- MCCollation
  MaxExt = 3
  FieldsPerFlush = 3
INVARIANTS
  SameMeaning
  CodeIsAccepted
  StackDiscipline
  EveryJumpLeads
CHECK_DEADLOCK FALSE
