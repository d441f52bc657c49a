CONSTANTS
  ann = ann
  bob = bob
  eve = eve
  fay = fay
  sAnn = sAnn
  sAnn2 = sAnn2
  sBob = sBob
  sEve = sEve
  sFay = sFay
  gown = gown
  cap = cap
  item1 = item1
  item2 = item2
  NULL = NULL
  Users <- MCUsers
  UserOf <- MCUserOfSession
  Sessions = {sAnn, sEve, sFay}
  AdminSessions = {sEve, sFay}
  Types = {gown}
  ItemIds = {item1}
  MaxReservations = 2
  MaxWorkers = 3
SPECIFICATION Spec
PROPERTIES
  ReturnedItemsAreFree
