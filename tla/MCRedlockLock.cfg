CONSTANTS
  Requests = {r1, r2, r3}
  Free = Free
  MaxTries = 3
SPECIFICATION Spec
INVARIANT TypeOK
PROPERTIES ImplementsLease ImplementsLeaseFairly
CHECK_DEADLOCK FALSE
