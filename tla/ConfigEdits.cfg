CONSTANTS
  Sessions = {"corp", "lab"}
  Folded <- MCFolded
  Matched <- MCMatched
  Default = "default"
  Continued = "+"
  None = "none"
  Garbled = "garbled"
  Commands <- Everyday
  EditLines <- AnyLine
  Initial <- Texts
  OnlyRead <- MarkerTexts
  MaxRuns = 2
  MaxEdits = 1
CHECK_DEADLOCK FALSE
SPECIFICATION Spec
INVARIANTS ScanFindsBlocks FindKnowsOwner
PROPERTIES
  UserLinesKept MarkersStayWhole SecondRunIsIdle
  SessionsKept NoProfileShadowed OnlyDeadBlocksGo
  SyncedProfilesResolve OthersKeepTheirRole SelectedRoleIsUsed
