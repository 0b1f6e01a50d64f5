SPECIFICATION Spec
CONSTANTS
  Names = {1}
  RunIds = {r1}
  HistoryLimit = 1
  FailureLimit = 2
  Types = {"compaction"}
  MaxConcurrent = 1
  TableBound = 1
  RevisionBound = 1
  TableFormats = {"iceberg"}
  BusyStorage = FALSE
INVARIANTS
  SignalledProcessIsKilled
