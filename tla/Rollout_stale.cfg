SPECIFICATION Spec
CONSTANTS
  Configs = {c1, c2}
  Deployments = {d1, d2, d3}
  Incarnations = {i1}
  Proxy = Proxy
  None = None
  Lag = {"configmap", "deployment", "replicaset"}
  Disturbances = {"endpoints", "status", "restart", "lostReply", "failure", "proxy", "cleanup"}
  MaxDisturbances = 2
SYMMETRY ConfigSymmetry
INVARIANT NoOwnerlessConfigMap
PROPERTY CleanupKeepsADeployment
\* At rest, with everything rolled out, the operator waits for events.
CHECK_DEADLOCK FALSE
