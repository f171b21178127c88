SPECIFICATION FairSpec
CONSTANTS
  Configs = {c1, c2}
  Deployments = {d1, d2, d3}
  Incarnations = {i1}
  Proxy = Proxy
  None = None
  Lag = {"deployment"}
  Disturbances = {"endpoints", "delete", "proxy", "cleanup"}
  MaxDisturbances = 2
PROPERTY Redeploys
\* At rest, with everything rolled out, the operator waits for events.
CHECK_DEADLOCK FALSE
