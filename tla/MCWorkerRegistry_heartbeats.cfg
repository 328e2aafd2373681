SPECIFICATION FairSpec
CONSTANTS
  Processes = {1, 2}
  Ids = {"a"}
  IdOf <- SharedIds
  Uuids = {"a"}
  FaultKinds = {"database", "late", "crash"}
  MaxFaults = 2
  MaxJobs = 2
INVARIANTS
  RegistryInv
PROPERTIES
  UpIsShownOnline
  StoppedIsShownOffline
