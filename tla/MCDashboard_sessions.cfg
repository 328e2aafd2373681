SPECIFICATION Spec
CONSTANTS
  Users = {u1, u2}
  NoUser = NoUser
  ListLimit = 1
  MaxBatch = 1
  MaxChanges = 1
  MaxRefreshes = 2
  FaultKinds = {"call", "read", "stream", "token"}
  MaxFaults = 1
SYMMETRY Symmetry
INVARIANTS
  PageInv
  CurrentUnlessOvertaken
