SPECIFICATION FairSpec
CONSTANTS
  scheduler = scheduler
  handler = handler
  request1 = request1
  request2 = request2
  paper = paper
  Papers = {paper}
  Public = {paper}
  Scheduler = scheduler
  Handlers = {handler}
  Requests = {request1}
  MaxAttempts = 2
  BatchLimit = 2
  MaxEvents = 2
  MaxRequeues = 1
  MaxAborts = 1
  MaxRequests = 3
INVARIANT TypeOK ReadsCountedOnce OneActiveDeletion
PROPERTY PurgedOnlyAcknowledged CardsGoOncePerDeletion EventsSettle RetainedRowsGo
CHECK_DEADLOCK FALSE
