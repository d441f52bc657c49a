CONSTANTS
  ann = ann
  eve = eve
  sAnn = sAnn
  sEve = sEve
  gown = gown
  item1 = item1
  NULL = NULL
  Users <- MCUsers
  UserOf <- MCUserOfSession
  Sessions = {sAnn, sEve}
  AdminSessions = {sEve}
  Types = {gown}
  ItemIds = {item1}
  MaxReservations = 1
  MaxWorkers = 2
  StatusesByHand = {}
SPECIFICATION DeskSpec
INVARIANTS
  DeskTypeOK
  NoDanglingReferences
PROPERTIES
  ImplementsCustody
