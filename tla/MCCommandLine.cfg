SPECIFICATION Spec
CONSTANTS
  IntBound = 16
  KB = 2
  Second = 2
  MB = 2
  Options <- MCOptions
  Expectations <- MCExpectations
  Deaths <- MCDeaths
  Mishaps <- MCMishaps
INVARIANTS VerdictReported NoProgramLeft FoldersKept LimitsMeant
