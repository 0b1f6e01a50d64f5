SPECIFICATION Spec
CONSTANTS
  e1 = e1
  e2 = e2
  e3 = e3
  Executions = {e1, e2, e3}
  Ports = {p1}
  NoPort = NoPort
  Sessions <- MCSessions
  Watched = e1
  ChunkLimit = 1
  StepConfigs <- MCStepConfigs
  StartupPlans <- MCStartupPlans
  ReleaseLabels = {"emr-7"}
  MaxStartupSteps = 1
  Requests = {r1, r2}
  Messages <- MCMessages
  RouteTables <- MCRouteTables
  Folded <- MCFolded
  TargetPrefix <- MCTargetPrefix
  Families <- MCFamilies
  Implemented <- MCImplemented
  FaultPolicies <- MCFaultPolicies
  PageSize = 1
  MaxTime = 2
  Scopes <- MCScopes
CHECK_DEADLOCK FALSE
INVARIANTS
  UiPortsAreOwned
  ShutdownSignalsEveryChild
  RecoveryLeavesNoLooseEnd
  PublishedLogIsWhole
  StreamEndsWithWholeLog
  AnswersTellTheEffect
  UpstreamIsReleased
  ListingIsComplete
  ConsoleShowsEveryCluster
