SPECIFICATION Spec
CONSTANTS
  Unset <- MCUnset
  Dflt <- MCDflt
  Good <- MCGood
  Folded <- MCFolded
  Malformed <- MCMalformed
  Spelling <- MCSpelling
  EnvVar <- MCEnvVar
  DirFiles <- MCDirFiles
  Paths <- MCPaths
  Contents <- MCContents
  Flags <- MCFlags
  Env <- MCEnv
  Span = {s1, s2}
  QueueBound = 1
INVARIANTS
  TypeOK
  LayersRespected
  RefusalsJustified
  ValidatedIsUsable
  SplitAtEnd
  NothingStranded
PROPERTY ShutdownEnds
CHECK_DEADLOCK FALSE
