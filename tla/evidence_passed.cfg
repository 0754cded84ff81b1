SPECIFICATION FairSpec
CONSTANTS
  Hosts = {"build", "deploy", "laptop", "web"}
  Paths = {"p", "q"}
  Runs <- Runs0
  Specs = {"release", "lax", "nightly"}
  Keys = {"k0", "k1", "k2"}
  NoFile = NoFile
  Torn = Torn
  NoKey = NoKey
  BadKey = BadKey
  NoPath = NoPath
  SigningKey <- MCSigningKey
  Ephemeral <- MCEphemeral
  TrustedKeys <- MCTrusted
  Loads <- MCLoads
  Broken = {"garbled"}
  WorkflowOf <- MCWorkflowOf
  Records <- MCRecords
  Unlogged <- MCUnlogged
  Restored <- MCRestored
  Shown <- MCShown
  Passed <- MCPassed
  Unreal = {"~fresh0"}
  Huge = {"far"}
  MaxEdits = 1
CHECK_DEADLOCK FALSE
INVARIANT PassedBuildAndTest
