SPECIFICATION FairSpec
CONSTANTS
  Configs = {c1, c2}
  Deployments = {d1, d2}
  Incarnations = {i1}
  Proxy = Proxy
  None = None
  Lag = {"replicaset"}
  Disturbances = {"endpoints", "status", "restart", "lostReply", "proxy"}
  MaxDisturbances = 4
INVARIANT AtMostOneNewConfigMap
PROPERTY ImplementsConfigRollout
PROPERTY Converges
\* At rest, with everything rolled out, the operator waits for events.
CHECK_DEADLOCK FALSE
