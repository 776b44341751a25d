SPECIFICATION Spec

CONSTANTS
  CommandTimeout = 30
  DefaultTimeout = 10
  ScreenPoints = {1, 2, 3}
  MaxDepth = 40
  Screens <- MCScreens
  Bundles = {demo, other}
  DefaultBundle = demo
  Titles = {t1, t2}
  DefaultTitle = t1
  Points = {1, 2}
  Inputs <- MCInputs
  MaxGestures = 5
  MaxSteps = 2
  MaxFailures = 1

INVARIANTS
  ExecutesTheShownLocator

CHECK_DEADLOCK FALSE
