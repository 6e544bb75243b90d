CONSTANTS
  Requests = {r1, r2, r3}
  Free = Free
  Ttl = 2
  MaxWait = 4
  InitialDelay = 1
  MaxDelay = 2
SPECIFICATION Spec
INVARIANT TypeOK
PROPERTIES ImplementsLease ImplementsLeaseFairly
