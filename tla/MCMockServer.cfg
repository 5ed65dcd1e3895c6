CONSTANTS
  None = None
  Clear = Clear
  Invalid = Invalid
  default = default
  sold = sold
  tight = tight
  unloaded = unloaded
  both = both
  missing = missing
  Client = {c1, c2}
  Default <- default
  Scenario <- MCScenario
  Item <- MCItem
  Items <- MCItems
  Searches <- MCSearches
  QuotaOf <- MCQuotaOf
  Rule <- MCRule
  Request <- MCRequest
  MaxCalls = 2
  MaxRules = 2
SYMMETRY ClientsAlike
SPECIFICATION Spec
INVARIANT TypeOK
INVARIANT FaultsJustified
INVARIANT ServesActive
INVARIANT QuotaFollowsScenario
INVARIANT QuotaCounts
INVARIANT RulesWhileAlone
