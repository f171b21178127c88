SPECIFICATION FairSpec
CONSTANTS
  Configs = {c1, c2}
  Deployments = {d1, d2}
  Incarnations = {i1}
  Proxy = Proxy
  None = None
  Lag = {"replicaset"}
  Disturbances = {"endpoints", "status", "lostReply", "proxy"}
  MaxDisturbances = 4
INVARIANT TypeOK
PROPERTY HandsOver
\* At rest, with everything rolled out, the operator waits for events.
CHECK_DEADLOCK FALSE
