CONSTANTS
  Row = {r1, r2}
  Neutral = Neutral
  AnyObject = AnyObject
  NoRow = NoRow
  NoModel = NoModel
  widget = widget
  view = view
  mine = mine
  ours = ours
  money = money
  notes = notes
  price = price
  note = note
  site = site
  none = none
  week = week
  r1 = r1
  r2 = r2
  upper = upper
  lower = lower
  staff = staff
  blank = blank
  v1 = v1
  Json <- NoJson
  Code <- Code0
  Catalogues <- TwoCatalogues
  Raw = {upper, lower, staff, blank}
  Entered = {upper}
  Spelled <- Spelling
  Blank = Blank
  Role = {1, 2}
  Key <- OneKey
  Name = {1, 2}
  ConditionLists <- Conditions
  FieldLists <- Lists
  ValueMaps <- Values
  User = {1}
  MaxGrants = 2
SPECIFICATION Spec
INVARIANTS
  SeededGrantsNoMore
  SeededMatchesFixture
  RolesReportIsHonest
CHECK_DEADLOCK FALSE
