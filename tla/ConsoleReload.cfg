SPECIFICATION Spec
CONSTANTS
  Id = {h1}
  Reads <- Tides
  Tab = {t1}
  Guide = guide
  Human = {guide}
  System = System
  None = None
  MaxDecisions = 3
  MaxIngests = 2
PROPERTY ReloadKeeps
