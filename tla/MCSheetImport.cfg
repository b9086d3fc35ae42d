SPECIFICATION Spec
CONSTANTS
  Spelled <- MCSpelled
  MaxRow = 100
  Refused = Refused
  Absent = Absent
  Client <- MCClient
  NewTexts = {"", "b", "1"}
  NewRows = {8, 11, 13}
  Plans <- MCPlans
  MaxEdits = 2
  MaxRounds = 1
  MaxColumns = 3
CHECK_DEADLOCK FALSE
INVARIANTS
  UneditedImportsNothing
  ImportedIsAsked
  VerificationAgrees
  OnlyChangesWritten
  PlannedDefinitions
