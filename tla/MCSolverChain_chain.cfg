CONSTANTS
  Var <- MCVar
  Val <- MCVal
  Zero = 0
  Cond <- MCCond
  Neg <- MCNeg
  Sat <- MCSat
  Reads <- MCReads
  Canonical <- MCCanonical
  FalseExpr = FalseExpr
  Unsat = Unsat
  None = None
  Program <- MCProgram
  OptionSets <- MCOptionSets
  MaxQueries = 3
  MaxPath = 3
SPECIFICATION Spec
INVARIANTS TypeOK CachedVerdictsAreRight CexCacheIsRight AnswersAreExact PathsAreSatisfiable TestsTakeTheirPath
PROPERTIES QueriesEnd ImplementsPathPartition
CHECK_DEADLOCK FALSE
