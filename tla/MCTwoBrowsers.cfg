CONSTANTS
  ann = ann
  bob = bob
  eve = eve
  fay = fay
  sAnn = sAnn
  sAnn2 = sAnn2
  sBob = sBob
  sEve = sEve
  sFay = sFay
  gown = gown
  cap = cap
  item1 = item1
  item2 = item2
  NULL = NULL
  Users <- MCUsers
  UserOf <- MCUserOfSession
  Sessions = {sAnn, sAnn2, sEve}
  AdminSessions = {sEve}
  Types = {gown}
  ItemIds = {item1, item2}
  MaxReservations = 2
  MaxWorkers = 2
SPECIFICATION Spec
INVARIANTS
  OnePerType
