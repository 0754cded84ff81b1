SPECIFICATION Spec
CONSTANTS
  Places <- ReleasePlaces
  PlaceCarries <- ReleaseCarries
  Initial <- ReleaseInitial
  Finals <- ReleaseFinals
  Transitions <- ReleaseTransitions
  Relations <- ReleaseRelations
  Hidden <- ReleaseHidden
  Attested = {"AA11"}
  FreshValue <- MCFresh
  MaxChoices = 512
  Observations <- TestBeforeBuild
  OptionsFor <- Capped
CHECK_DEADLOCK FALSE
INVARIANTS
  ClockRespected
