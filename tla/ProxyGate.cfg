SPECIFICATION FairSpec
CONSTANTS
  None = None
  Policies = {"spec", "any", "status", "none"}
  Ports = {11211, 11212}
  DefaultPort = 11211
  FailingCalls = {"updateProxy", "create"}
  MaxDisturbances = 4
  MaxGeneration = 4
INVARIANTS TypeOK GateGuardsDefaults NeverPanics UserSpecKept
PROPERTY EventuallyServed
