SPECIFICATION Spec
CONSTANTS
  Places <- ToyPlaces
  PlaceCarries <- ToyCarries
  Initial <- ToyInitial
  Finals = {"out"}
  Transitions <- ToyTransitions
  Relations <- ToyRelations
  Hidden = {"_type", "_value"}
  Attested = {}
  FreshValue <- MCFresh
  MaxChoices = 512
  Observations <- Unproven
  OptionsFor <- ToyOptions
CHECK_DEADLOCK FALSE
INVARIANTS
  RejectionIsProof
