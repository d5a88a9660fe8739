CONSTANTS
  Nil = Nil
  s1 = s1
  s2 = s2
  Sessions = {s1, s2}
  Systems <- MCResize
SPECIFICATION ExecSpec
INVARIANT
  PodmanExecReturnsCode
CHECK_DEADLOCK FALSE
