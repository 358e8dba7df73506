SPECIFICATION Spec
CONSTANTS
  IntBound = 16
  KB = 2
  Second = 2
  Procs = {"child"}
  Direct = "child"
  Faults = {}
  ExitCodes = {0, 1}
  Signals <- MCSignals
  Usages <- MCUsage
  MaxClock = 5
  Limits <- MCLimits
  StaleReads <- MCStaleReads
  Argcs = {4}
  Pasts <- MCNoPast
PROPERTIES KillsMonitored
