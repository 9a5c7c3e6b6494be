SPECIFICATION Spec
CONSTANTS
  Tokens = {a, b}
  Admin = admin
  Nobody = nobody
  Requests = {q1, q2}
  MaxWork = 8
INVARIANTS
  ValuesAreTheOwners
  FileIsReserved
PROPERTY
  PurgeTakesItsOwn
CHECK_DEADLOCK FALSE
