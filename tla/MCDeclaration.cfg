CONSTANTS
  Row = {r1, r2}
  Neutral = Neutral
  AnyObject = AnyObject
  NoRow = NoRow
  NoModel = NoModel
  NoLabel = NoLabel
  None = None
  m1 = m1
  m2 = m2
  widget = widget
  crate = crate
  view = view
  update = update
  mine = mine
  money = money
  none = none
  r1 = r1
  r2 = r2
  price = price
  note = note
  owner = owner
  box = box
  list = list
  detail = detail
  both = both
  child = child
  selector = selector
  export = export
  long = long
  short = short
  Module = {m1, m2}
  Programs <- AllPrograms
  MaxFailures = 1
SPECIFICATION Spec
INVARIANTS
  DeclarationsStayInForce
  RegistryIsTheSum
  ViewsAskTheirOwn
PROPERTIES
  EventuallyLoaded
  ImportsOnlyTighten
CHECK_DEADLOCK FALSE
