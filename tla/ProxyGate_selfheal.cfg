SPECIFICATION FairSpec
CONSTANTS
  None = None
  Policies = {"spec"}
  Ports = {11211}
  DefaultPort = 11211
  FailingCalls = {"updateProxy", "create", "update"}
  MaxDisturbances = 3
  MaxGeneration = 4
PROPERTY EventuallyServed
