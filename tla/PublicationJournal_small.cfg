SPECIFICATION FairSpec
CONSTANTS
  MaxSaves = 2
  MaxEdits = 2
  MaxActs = 3
  MaxCrashes = 1
  None = None
INVARIANTS
  TypeOK
  NothingLost
  ConflictsAreReal
PROPERTIES
  EditsSurvive
  FileSettles
