SPECIFICATION FairSpec
CONSTANTS
  Names = {1}
  RunIds = {r1, r2}
  HistoryLimit = 1
  FailureLimit = 2
  Types = {"retention"}
  MaxConcurrent = 1
  TableBound = 1
  RevisionBound = 0
  TableFormats = {"iceberg", "other"}
  BusyStorage = TRUE
PROPERTIES
  StaleProcessIsTerminated
  CancelledProcessEnds
  DueOptimizerIsClaimed
