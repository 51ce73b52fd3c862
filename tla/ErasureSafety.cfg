SPECIFICATION Spec
CONSTANTS
  coordinator = coordinator
  admin = admin
  admin2 = admin2
  Coordinators = {}
  Admins = {admin, admin2}
  MaxAttempts = 2
  MaxRequests = 1
SYMMETRY AdminSymmetry
INVARIANTS
  PhasesProven
  AcksEarned
PROPERTY KeepsPromise
CHECK_DEADLOCK FALSE
