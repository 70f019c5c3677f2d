CONSTANTS
  Numbers <- BoundaryNumbers
SPECIFICATION Spec
INVARIANTS TypeOK AcceptedIsLoaded LoadedAsValidated
CHECK_DEADLOCK FALSE
