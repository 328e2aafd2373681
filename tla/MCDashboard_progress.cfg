SPECIFICATION FairSpec
CONSTANTS
  Users = {u1}
  NoUser = NoUser
  ListLimit = 1
  MaxBatch = 2
  MaxChanges = 1
  MaxRefreshes = 2
  FaultKinds = {"call", "read", "stream"}
  MaxFaults = 1
INVARIANTS
  CurrentUnlessOvertaken
PROPERTIES
  ChangeIsFetched
  SpinnerStops
