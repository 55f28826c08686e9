SPECIFICATION Spec
CONSTANTS
  Writers = {w1, w2}
  NoFile = NoFile
  LoadsRaceSaves = FALSE
  MaxVersions = 4
  MaxPowerLosses = 2
INVARIANTS
  WholeFiles
  ConfirmedSurvives
PROPERTIES
  ImplementsRegister
