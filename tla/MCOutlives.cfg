SPECIFICATION FairSpec
CONSTANTS
  IntBound = 16
  KB = 2
  Second = 2
  Procs = {"interactor", "executable"}
  Direct = "interactor"
  Executable = "executable"
  Faults = {}
  ExitCodes = {0, 1}
  Signals <- MCSignals
  Usages <- MCUsage
  MaxClock = 4
  Limits <- MCLimits
  StaleReads = {}
  Argcs = {6}
  Pasts <- MCNoPast
PROPERTIES ExecutableTimed
