SPECIFICATION Spec
CONSTANTS
  MaxJobs = 2
  PageSizes = {1, 2}
  FirstPageSize = 1
  Views = {"jobs", "settings"}
  TableViews = {"jobs"}
  FilterStatuses = {"all", "dead_letter"}
  MaxRetries = 1
INVARIANTS
  BusyMeansRunning
  PagesCover
PROPERTIES
  ClearedMeansDone
