CONSTANTS
  Sessions = {"corp", "lab"}
  Folded <- MCFolded
  Matched <- MCMatched
  Default = "default"
  Continued = "+"
  None = "none"
  Garbled = "garbled"
  Commands <- NamedDefault
  EditLines <- AnyLine
  Initial <- Texts
  OnlyRead = {}
  MaxRuns = 2
  MaxEdits = 1
CHECK_DEADLOCK FALSE
SPECIFICATION Spec
PROPERTIES
  DefaultHandedOver
