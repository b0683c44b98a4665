CONSTANTS
  Sessions = {"corp"}
  Folded <- MCFolded
  Matched <- MCMatched
  Default = "default"
  Continued = "+"
  None = "none"
  Garbled = "garbled"
  Procs = {p1, p2}
  Nobody = Nobody
  Commands <- MCCommands
  EditLines <- MCLines
  Initial <- MCInitial
  EditorRaces = TRUE
  MaxEdits = 1
SPECIFICATION Spec
PROPERTIES NoEditOverwritten
