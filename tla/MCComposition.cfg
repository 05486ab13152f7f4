CONSTANTS
  Row = {r1, r2}
  Neutral = Neutral
  AnyObject = AnyObject
  NoRow = NoRow
  manager = manager
  updateWidget = updateWidget
  viewCrate = viewCrate
  widget = widget
  crate = crate
  price = price
  cost = cost
  low = low
  high = high
  money = money
  shelf = shelf
  mine = mine
  fresh = fresh
  open = open
  none = none
  r1 = r1
  r2 = r2
  Role = {manager}
  Permission = {1, 2}
  Key = {updateWidget, viewCrate}
  Reg <- MCReg
  Groups <- TwoGroups
  Values <- PriceValues
  User <- MCUser
  Data <- PriceData
  MaxRules = 2
SPECIFICATION Spec
ACTION_CONSTRAINT StaysInOnePart
INVARIANTS
  TypeOK
  RowsNeedBothTiers
  ExplainAgrees
  WritesAreFullyChecked
  OrderOnlyDecidesRaising
PROPERTIES
  MoreRulesOnlyAdd
  MoreConditionsOnlyRemove
  RevocationNarrows
