SPECIFICATION FairSpec
CONSTANTS
  IntBound = 16
  KB = 2
  Second = 2
  Procs = {"child"}
  Direct = "child"
  Faults = {"early_death"}
  ExitCodes = {0, 1}
  Signals <- MCSignals
  Usages <- MCUsage
  MaxClock = 5
  Limits <- MCLimits
  StaleReads = {}
  Argcs = {4}
  Pasts <- MCNoPast
PROPERTIES EarlyDeathReported
CHECK_DEADLOCK FALSE
