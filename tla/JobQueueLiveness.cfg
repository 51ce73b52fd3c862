SPECIFICATION FairSpec
CONSTANTS
  NJobs = 1
  Procs = {p1}
  p1 = p1
  p2 = p2
  Serves <- Replicas
  NoWorker = NoWorker
  QuarantineMaxAttempts = 2
  MaxIncarnations = 2
INVARIANT OutcomeMatchesStatus
PROPERTIES
  OrphansReclaimed
  QueuedJobsSettle
  LoopsResume
