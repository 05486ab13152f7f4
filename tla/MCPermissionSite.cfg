CONSTANTS
  Key = {k1, k2}
  Actor = {a1}
  Frame = {f1, f2, f3}
  None = None
SYMMETRY Symmetry
SPECIFICATION Spec
INVARIANTS
  PendingIsRunning
  OwnDeclarationApplied
  ReturnedSitesApplied
CHECK_DEADLOCK FALSE
