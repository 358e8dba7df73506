SPECIFICATION MCSpec
CONSTANTS
  WORD = 4
  MAX_EXPRESSION_DEPTH = 4
  MAX_SYSCALL_NR = 1073741823
  MAX_INCLUDE_DEPTH = 2
  MAX_COMPILES = 2
  MAX_JUMP = 7
  BPF_MEMWORDS = 2
  MAX_FILTER = 60
  Registers <- MCRegisters
  Idle <- MCIdle
INVARIANTS KafelTypeOK FilterDecides NormalizedRules NormalInv RulesBounded LevelsFit
  CachedReturns IncludesPaired RecompileAgrees
PROPERTY CompileEnds
