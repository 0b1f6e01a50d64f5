SPECIFICATION Spec
CONSTANTS
  c1 = c1
  c2 = c2
  Clients = {c1, c2}
  NoWriter = NoWriter
  CatalogSessions <- MCCatalogSessions
  RetryLimit = 1
  NoFile = NoFile
  Segments = {2}
  SegmentOf <- MCSegmentOf
  Decoded <- MCDecoded
  Likes <- MCLikes
  Null = Null
  PageSizes = {1, 2}
  NoExpression = NoExpression
  Malformed = Malformed
  Derived = {"lock"}
  FirstVersion <- MCFirstVersion
  Targets <- MCTargets
  Components = {"emr", "glue"}
  Platforms = {"amd64"}
  Exceptions <- MCExceptions
  Reports <- MCReports
  FailSeverities = {"HIGH", "CRITICAL"}
  MaxCommits = 2
  MaxReruns = 1
  MaxForeignTags = 1
SYMMETRY Symmetry
CHECK_DEADLOCK FALSE
INVARIANTS
  CatalogIsConsistent
  PagesAreComplete
  PointedMetadataIsWritten
  ReleaseIsOfOneCommit
  TaggedVersionsGrow
PROPERTIES
  CatalogIsSerial
