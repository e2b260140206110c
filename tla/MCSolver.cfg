SPECIFICATION Spec
CONSTANTS
  Sym <- MCSym
  Bits <- MCBits
  Constraint <- MCConstraint
  Expr <- MCExpr
  Folding <- MCFolding
  MaxUpto = 3
INVARIANT TypeOK
INVARIANT ModelExtends
INVARIANT SatisfiableExact
INVARIANT CheckExact
INVARIANT InfeasibleHasNoValue
INVARIANT EvaluateIsSolution
INVARIANT UptoComplete
INVARIANT DumpConsistent
