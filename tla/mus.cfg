SPECIFICATION FairSpec
CONSTANTS
  Instances <- MCInstances
  StackLimit = 6
CHECK_DEADLOCK FALSE
INVARIANTS
  TypeOK
  CallsRejected
  CoreRejected
  LocallyMinimal
  DivideSuffices
PROPERTY Returns
