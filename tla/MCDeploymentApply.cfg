CONSTANTS
  Row = {r1, r2}
  Neutral = Neutral
  AnyObject = AnyObject
  NoRow = NoRow
  NoModel = NoModel
  None = None
  widget = widget
  crate = crate
  view = view
  mine = mine
  money = money
  price = price
  site = site
  manager = manager
  none = none
  week = week
  days = days
  pair = pair
  Json <- Tuples
  r1 = r1
  r2 = r2
  Releases <- MovingReleases
  Files <- FilesThatManage
  Role = {manager}
  Permission = {1}
  Key <- OneKey
  Label = {mine}
  Params = {none}
  MaxRules = 2
SPECIFICATION Spec
VIEW ButForTheRun
ACTION_CONSTRAINT RunsAlone
PROPERTIES
  FileIsTheTruth
  FileRevokesNothing
  ApplyingAgainIsNoOp
  AppliedRulesResolve
