SPECIFICATION Spec
CONSTANTS
  Unset <- MCUnset
  Dflt <- MCDflt
  Good <- MCGood
  Folded <- MCFolded
  Malformed <- MCMalformed
  Spelling <- MCSpelling
  EnvVar <- MCEnvVar
  DirFiles <- MCDirFiles
  Paths <- MCPaths
  Contents <- MCContents
  Flags <- MCFlags
  Env <- MCEnv
  Span = {s1, s2}
  QueueBound = 1
INVARIANT ShutdownFlushes
CHECK_DEADLOCK FALSE
