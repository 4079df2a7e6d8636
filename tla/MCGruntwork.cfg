\* One administrator, one route, two places and angles.
SPECIFICATION Spec
CONSTANTS
  GMs = {gm}
  Tables <- Tables1
  StaticIds <- Statics1
  FirstId = 19
  Places = {"home", "away"}
  Angles = {0, 90}
  Routes = {r}
  Poses <- Poses1
  NoOne = NoOne
  MaxSize = 2
  MaxCommands = 4
  MaxDynamic = 4
  MaxPoints = 2
  MaxPaths = 1
INVARIANTS
  TypeOK
  EditsSurvive
CHECK_DEADLOCK FALSE
