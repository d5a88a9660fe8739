CONSTANTS
  Checks = {c1}
  NoUnit = NoUnit
  MaxRuns = 2
  MaxDeaths = 0
  Configs <- MCRestarting
SPECIFICATION HealthSpec
PROPERTY
  StartupRestarts
CHECK_DEADLOCK FALSE
