SPECIFICATION FairOnFixtures
CONSTANTS
  Places <- ReleasePlaces
  PlaceCarries <- ReleaseCarries
  Initial <- ReleaseInitial
  Finals <- ReleaseFinals
  Transitions <- ReleaseTransitions
  Relations <- ReleaseRelations
  Hidden <- ReleaseHidden
  Attested = {"AA11"}
  FreshValue <- MCFresh
  MaxChoices = 512
  Observations <- DepartedLogs
  OptionsFor <- Capped
CHECK_DEADLOCK FALSE
INVARIANTS
  TypeOK
  Accounting
  WitnessOrdered
  BoundNeverCuts
  EffectsRealized
  WitnessAuthorized
  CompletePlanesBelieved
  LongestPrefix
PROPERTIES
  Decides
  SearchReturns
