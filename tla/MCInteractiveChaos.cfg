SPECIFICATION Spec
CONSTANTS
  IntBound = 16
  KB = 2
  Second = 2
  Procs = {"interactor", "executable"}
  Direct = "interactor"
  Executable = "executable"
  Faults <- MCAllFaults
  ExitCodes = {0, 1}
  Signals <- MCSignals
  Usages <- MCUsage
  MaxClock = 4
  Limits <- MCRefusedLimits
  StaleReads = {}
  Argcs = {6}
  Pasts <- MCNoPast
INVARIANTS JointStart PairFailureReported TimeoutEndsBoth NeverFalseOK PairInv
CHECK_DEADLOCK FALSE
