SPECIFICATION Spec
CONSTANTS
  first = first
  second = second
  job1 = job1
  job2 = job2
  download1 = download1
  download2 = download2
  Urls = {first, second}
  FirstUrl = first
  Jobs = {job1, job2}
  Downloads = {download1, download2}
  MaxPromotions = 2
  MaxJobs = 3
  MaxDownloads = 2
  MaxFailures = 1
  MaxCrashes = 1
  MaxLosses = 1
INVARIANT ChunkedIsComplete
CHECK_DEADLOCK FALSE
