SPECIFICATION FairSpec
CONSTANTS
  IntBound = 16
  KB = 2
  Second = 2
  Procs = {"interactor", "executable"}
  Direct = "interactor"
  Executable = "executable"
  Faults <- MCSetupFaults
  ExitCodes = {0, 1}
  Signals <- MCSignals
  Usages <- MCUsage
  MaxClock = 4
  Limits <- MCRefusedLimits
  StaleReads = {}
  Argcs = {5, 6}
  Pasts <- MCNoPast
INVARIANTS TimeoutBlamed OnlyConfinedRun
PROPERTIES PairTerminates IsJudgement
