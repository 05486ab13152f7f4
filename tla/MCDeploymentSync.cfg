CONSTANTS
  Row = {r1, r2}
  Neutral = Neutral
  AnyObject = AnyObject
  NoRow = NoRow
  NoModel = NoModel
  None = None
  widget = widget
  crate = crate
  view = view
  mine = mine
  money = money
  price = price
  site = site
  manager = manager
  none = none
  week = week
  days = days
  pair = pair
  Json <- Tuples
  r1 = r1
  r2 = r2
  Releases <- SevenReleases
  Files <- NoFiles
  Role = {}
  Permission = {1}
  Key <- BothKeys
  Label = {mine}
  Params = {none}
  MaxRules = 1
SPECIFICATION Spec
VIEW ButForTheExit
INVARIANTS
  TypeOK
  CatalogueMirrorsCode
  DriftFailsClosed
PROPERTIES
  SecondSyncIsNoOp
  CleanSyncMeansUsable
