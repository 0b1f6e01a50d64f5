SPECIFICATION Spec
SYMMETRY Symmetry
CONSTANTS
  Names = {1, 2}
  RunIds = {r1, r2}
  HistoryLimit = 1
  FailureLimit = 2
  Types = {"compaction"}
  MaxConcurrent = 1
  TableBound = 2
  RevisionBound = 1
  TableFormats = {"iceberg"}
  BusyStorage = FALSE
INVARIANTS
  TypeOK
  SchedulingIsConsistent
  HistoryIsSettled
  ActiveRunHasWorker
  ProcessIsReported
PROPERTIES
  RunEndIsFinal
