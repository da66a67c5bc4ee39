SPECIFICATION Spec
CONSTANTS
  Id = {h1, h2}
  Reads <- Tides
  Tab = {t1, t2}
  Guide = guide
  Human = {guide}
  System = System
  None = None
  MaxDecisions = 2
  MaxIngests = 1
PROPERTY ParkSurvives
