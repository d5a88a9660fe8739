CONSTANTS
  i = i
  a = a
  b = b
  svc = svc
  p1 = p1
  p2 = p2
  x = x
  y = y
  Nil = Nil
  Ctrs = {i, a, b, svc}
  Pods = {p1, p2}
  Procs = {x, y}
  MayFail = {a, svc}
  Scenarios = {"plain", "depend", "policy", "served", "restarted"}
  Systems <- MCSystems
SPECIFICATION Spec
CHECK_DEADLOCK FALSE
INVARIANTS
  NoDeadlock
  StartOrder
  PodRemoval
  
PROPERTIES
  InfraStops
