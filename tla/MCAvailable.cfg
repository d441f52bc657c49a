CONSTANTS
  ann = ann
  bob = bob
  eve = eve
  fay = fay
  sAnn = sAnn
  sAnn2 = sAnn2
  sBob = sBob
  sEve = sEve
  sFay = sFay
  gown = gown
  cap = cap
  item1 = item1
  item2 = item2
  NULL = NULL
  Users <- MCUsers
  UserOf <- MCUserOfSession
  Sessions = {sAnn, sBob, sEve}
  AdminSessions = {sEve}
  Types = {gown, cap}
  ItemIds = {item1}
  MaxReservations = 3
  MaxWorkers = 2
SPECIFICATION Spec
INVARIANTS
  AvailableIsFree
