CONSTANTS
  Row = {r1}
  Neutral = Neutral
  AnyObject = AnyObject
  NoRow = NoRow
  NoModel = NoModel
  None = None
  widget = widget
  crate = crate
  view = view
  mine = mine
  money = money
  price = price
  site = site
  none = none
  week = week
  r1 = r1
  s1 = s1
  s2 = s2
  Run = {s1, s2}
  Releases <- ThreeReleases
  MaxDeploys = 2
  MaxAborts = 1
SPECIFICATION Spec
PROPERTIES
  CommitMirrors
  DeployIsPublished
CHECK_DEADLOCK FALSE
