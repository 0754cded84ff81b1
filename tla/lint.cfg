SPECIFICATION OnboardSpec
CONSTANTS
  Slug <- MCSlug
  Workflows <- MCWorkflows
  Nets <- ByHand
  NoWorkflow = NoWorkflow
  MaxFirings = 4
CHECK_DEADLOCK FALSE
INVARIANTS
  TypeOK
  CoverageExact
  NoFalseAlarm
  BindingsGuaranteed
  JobsFollowNeeds
