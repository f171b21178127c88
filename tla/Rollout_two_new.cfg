SPECIFICATION Spec
CONSTANTS
  Configs = {c1, c2}
  Deployments = {d1, d2}
  Incarnations = {i1}
  Proxy = Proxy
  None = None
  Lag = {"configmap"}
  Disturbances = {"endpoints"}
  MaxDisturbances = 1
INVARIANT AtMostOneNewConfigMap
\* At rest, with everything rolled out, the operator waits for events.
CHECK_DEADLOCK FALSE
