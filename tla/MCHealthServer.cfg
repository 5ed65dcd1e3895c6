CONSTANTS
  NoProbe = NoProbe
  Requests = {r1}
  Scrapers = {c1}
  Names <- MCNames
  Probes = {p1, p2}
  ProbeTimeout = 2
  DrainTimeout = 3
SPECIFICATION Spec
INVARIANT TypeOK
INVARIANT ReadyVouches
INVARIANT NoFalseAlarm
INVARIANT RequestBound
INVARIANT ClosedMeansDrained
PROPERTY ImplementsContract
