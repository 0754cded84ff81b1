SPECIFICATION FairSpec
CONSTANTS
  Requests <- MCRequests
  Loads <- MCLoads
  Names <- MCNames
  BadNames = {""}
  Workflows = {"rel", "app_v1", "app_v2", "lib_v1", "loop"}
  Unsound = {"loop"}
  Declares <- MCDeclares
  JobsMap <- MCJobsMap
  DefaultMap = "default"
  Release = "release"
  Loaded <- MCLoaded
  Cap = 2
  NoName = "none"
  Nobody = "nobody"
CHECK_DEADLOCK FALSE
INVARIANTS
  TypeOK
  WithinCap
  NeverUnavailable
  OwnMapOwnModel
PROPERTY Answered
