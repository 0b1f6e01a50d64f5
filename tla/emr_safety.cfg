SPECIFICATION Spec
CONSTANTS
  Clusters = {c1}
  Tasks = {t1, t2}
  Requests = {r1, r2}
  NoTask = NoTask
  MaxActiveSteps = 2
  StepBound = 3
  BootstrapBound = 1
  FailureActions = {"TERMINATE_CLUSTER", "CANCEL_AND_WAIT"}
  KeepAlives = {TRUE, FALSE}
  Protections = {TRUE}
  Visibilities = {}
SYMMETRY Symmetry
CHECK_DEADLOCK FALSE
INVARIANTS
  TypeOK
  OneOperation
  StartedStepHasRunner
  PendingStepHasTask
  CancellationReachesChild
  StepsRunInOrder
  BootstrapBeforeService
  NoTaskFails
PROPERTIES
  ClusterEndIsFinal
