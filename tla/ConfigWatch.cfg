SPECIFICATION FairSpec
CONSTANTS
  Tokens <- MCTokens
  None = None
  Error = Error
  Proxies = {p, q}
  Namespace <- MCNamespace
  Rules <- MCRules
  ServiceKeys <- MCServiceKeys
  Ports <- MCPorts
  Subsets <- MCSubsets
  MaxChanges = 3
CHECK_DEADLOCK FALSE
INVARIANTS TypeOK NothingElseMissed SetsGoWhereRulesSay
PROPERTY EventuallyCurrent
