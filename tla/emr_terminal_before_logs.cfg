SPECIFICATION Spec
CONSTANTS
  Clusters = {c1}
  Tasks = {t1, t2}
  Requests = {r1}
  NoTask = NoTask
  MaxActiveSteps = 2
  StepBound = 2
  BootstrapBound = 1
  FailureActions = {"TERMINATE_CLUSTER", "CANCEL_AND_WAIT"}
  KeepAlives = {TRUE, FALSE}
  Protections = {}
  Visibilities = {}
CHECK_DEADLOCK FALSE
INVARIANTS
  StepEndIsPublished
