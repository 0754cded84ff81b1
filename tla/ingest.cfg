SPECIFICATION Spec
CONSTANTS
  Places <- ReleasePlaces
  PlaceCarries <- ReleaseCarries
  Initial <- ReleaseInitial
  Finals <- ReleaseFinals
  Transitions <- ReleaseTransitions
  Relations <- ReleaseRelations
  Hidden <- ReleaseHidden
  Attested = {}
  FreshValue <- NamedFresh
  MaxChoices = 512
  Raws <- MCRaws
  Jobs <- MCJobs
  JobKeys <- MCJobKeys
  AuditActions <- MCAudit
  RegistryActions <- MCRegistry
  RunnerPrincipal <- MCRunner
  MapPlanes <- AllPlanes
  Parts <- MCParts
  Slug <- MCSlug
  NoProvenance = "none"
  AssumedSlack = 1
CHECK_DEADLOCK FALSE
INVARIANTS
  LinksObserved
  JudgedAsHappened
