CONSTANTS
  Process = {p1, p2}
  Version <- MCVersion
  Histories <- MCHistories
  Rerunnable <- MCRerunnable
SYMMETRY ProcessesAlike
SPECIFICATION Spec
INVARIANT TypeOK
INVARIANT ServedSchema
INVARIANT UpDelivers
INVARIANT PlansAreFresh
INVARIANT UpNeverRefused
PROPERTY StackWhileAlone
