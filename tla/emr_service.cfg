SPECIFICATION FairSpec
CONSTANTS
  Clusters = {c1}
  Tasks = {t1, t2}
  Requests = {}
  NoTask = NoTask
  MaxActiveSteps = 2
  StepBound = 2
  BootstrapBound = 1
  FailureActions = {"TERMINATE_JOB_FLOW", "CANCEL_AND_WAIT", "CONTINUE"}
  KeepAlives = {TRUE, FALSE}
  Protections = {}
  Visibilities = {TRUE}
CHECK_DEADLOCK FALSE
INVARIANTS
  StepEndIsPublished
  EndedClusterHasNoChild
PROPERTIES
  PendingStepIsTaken
  CancellationSettles
