SPECIFICATION FairSpec
CONSTANTS
  coordinator = coordinator
  admin = admin
  admin2 = admin2
  Coordinators = {coordinator}
  Admins = {}
  MaxAttempts = 3
  MaxRequests = 2
INVARIANT RestorableIsIntact
PROPERTY DueIsErased
CHECK_DEADLOCK FALSE
