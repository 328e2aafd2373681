SPECIFICATION Spec
CONSTANTS
  Types = {"email", "image"}
  FirstType = "email"
  Tabs = {1, 2}
  Here = 1
  DraftCap = 2
  MaxDrafts = 3
  Files <- FiveFiles
  MaxGestures = 2
  MaxSubmissions = 2
INVARIANTS
  FormInv
  DraftsSurvive
  SubmittedAsShown
