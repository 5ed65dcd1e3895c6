SPECIFICATION DashgenSpec
CONSTANTS
  Target = 2
  Gen = {g1, g2}
  Version = {"v1", "v2"}
INVARIANT Whole
CHECK_DEADLOCK FALSE
