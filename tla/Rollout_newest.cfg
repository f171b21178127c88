SPECIFICATION FairSpec
CONSTANTS
  Configs = {c1}
  Deployments = {d1, d2}
  Incarnations = {i1}
  Proxy = Proxy
  None = None
  Lag = {"deployment"}
  Disturbances = {"proxy"}
  MaxDisturbances = 1
PROPERTY AllButNewestDeleted
\* At rest, with everything rolled out, the operator waits for events.
CHECK_DEADLOCK FALSE
