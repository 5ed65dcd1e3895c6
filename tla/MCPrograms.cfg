SPECIFICATION ProgramSpec
CONSTANTS
  Listing <- MCListing
  Windows <- MCWindows
  ComponentLists <- MCComponentLists
  ScoreValue <- MCScoreValue
  NoScore <- MCNoScore
  Disputed <- MCDisputed
  PerKinds <- MCPerKinds
  PerBucket <- MCPerBucket
  TotalCap = 2
  Counts <- MCCounts
  ChangeBound = 1
  Kind = {"cpu", "ram"}
  DatasetDir <- MCDatasetDir
  Expected <- MCExpected
  BackendList <- MCBackendList
  Extractions <- MCExtractions
  Latency = {1, 2}
  Item = {"a", "b", "c"}
  SampleFile <- MCSampleFile
  UploadBound = 2
  Target = 2
  Gen = {g1, g2, g3}
  Version = {"v1", "v2"}
INVARIANTS
  TypeOK
  ExitZeroOnlyIfAsked
  StartupFailureExitsOne
  StaysUp
  AdminFailureLogged
  TelemetryOutlivesAdmin
  StratifiedSample
  SurfaceSound
  ReportSound
  UploadDelivers
  OnlyOneInDoubt
  WholeWhileAlone
PROPERTIES
  Terminates
  VerdictHonest
  AtomicWhileAlone
CHECK_DEADLOCK FALSE
