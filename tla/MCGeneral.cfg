SPECIFICATION FairSpec
CONSTANTS
  IntBound = 8
  KB = 2
  Second = 2
  Procs = {"child"}
  Direct = "child"
  Faults <- MCCallFaults
  ExitCodes = {0, 1}
  Signals <- MCFewSignals
  Usages <- MCUsages
  MaxClock = 5
  Limits <- MCAnyLimits
  StaleReads = {}
  Argcs = {3, 4}
  Pasts <- MCNoPast
INVARIANTS NeverFalseOK NoEarlyKill TimeoutBlamed KillerNotForgotten ResultDescribesChild KillEndsProgram
  TypeOK Handshake OnlyConfinedRuns SetupFailureReported NoOrphan SessionInv TimelyInv JudgementInv
PROPERTIES TerminatesDespiteFaults IsJudgement
