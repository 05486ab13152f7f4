CONSTANTS
  Row = {r1, r2}
  Neutral = Neutral
  AnyObject = AnyObject
  NoRow = NoRow
  None = None
  Absent = Absent
  manager = manager
  view = view
  widget = widget
  mine = mine
  none = none
  r1 = r1
  r2 = r2
  Thread = {t1}
  Scope = {s1, s2}
  Config <- Delete
  Accounts <- OneAccount
  Reg <- MCReg
  Key = {view}
  MaxCommits = 1
  MaxRequests = 1
  MaxCalls = 2
SPECIFICATION Spec
INVARIANT OpenOnlyByAnOpenRule
CHECK_DEADLOCK FALSE
