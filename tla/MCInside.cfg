CONSTANTS
  Nil = Nil
  NoUnit = NoUnit
  Systems <- MCSystems
  Configs <- MCConfigs
  NamedVolumes <- MCNamedVolumes
  MaxRestarts <- MCMaxRestarts
  s1 = s1
  s2 = s2
  Sessions = {s1, s2}
  Checks = {h1, h2}
  MaxRuns = 2
  MaxDeaths = 1
  c1 = c1
  c2 = c2
  v1 = v1
  v2 = v2
  Ctrs = {c1, c2}
  Vols = {v1, v2}
  MaxUserMounts = 1
  FaultSets = {{"mount", "network", "reboot"}, {"copyup", "die", "mount"}, {"diecleanup"}, {"umount"}, {"user"}}
SPECIFICATION MCSpec
INVARIANTS
  ExecCode
  RegistryAgrees
  ProcessIsRecorded
  Earned
  TimersMatch
  
  
  
  CopyUpOnce
PROPERTIES
  DeadIsNoticed
  OnlyUnhealthyIsStopped
  
  WaiterReturns
CHECK_DEADLOCK FALSE
