SPECIFICATION FairSpec

CONSTANTS
  Apps = {a, b}
  NoApp = NoApp
  MaxDialogs = 2

INVARIANTS
  TypeOK
  NotFoundMeansUntouched

PROPERTIES
  SuccessMeansLanded
  TwiceOnlyForADialog
  LaunchIsAtomic
  HandlersRunDown
  HandlersEnd
