CONSTANTS
  Thread = {t1, t2}
  Scope = {s1, s2}
  None = None
  Absent = Absent
  endpoint = endpoint
  object = object
  Question <- MCQuestion
  Value <- MCValue
  Config = {before, after}
  Answer <- MCAnswer
  MaxCommits = 1
SYMMETRY Symmetry
SPECIFICATION Spec
INVARIANTS
  TypeOK
  OneAnswerPerScope
  AnswersFromThisScope
  CurrentOutsideScopes
  CallerUntouched
  PrivateScope
PROPERTY KeepsPromise
