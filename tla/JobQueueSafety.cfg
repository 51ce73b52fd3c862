SPECIFICATION Spec
CONSTANTS
  NJobs = 1
  Procs = {p1, p2}
  p1 = p1
  p2 = p2
  Serves <- Replicas
  NoWorker = NoWorker
  QuarantineMaxAttempts = 1
  MaxIncarnations = 2
SYMMETRY ReplicaSymmetry
INVARIANTS
  SingleExecution
PROPERTIES
  SettledOnlyRevivedByItsExecution
  AbortNeverRequeued
  KeepsPromise
VIEW WithoutOutcomes
