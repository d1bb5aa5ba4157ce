SPECIFICATION Spec
CONSTANTS
  Files <- MCFiles
  MaxCrashes = 4
CHECK_DEADLOCK FALSE
INVARIANT TypeOK
INVARIANT ServesItsSchema
INVARIANT RecordedIsComplete
INVARIANT InFileOrder
PROPERTY ServesOrStuck
