CONSTANTS
  ann = ann
  eve = eve
  fay = fay
  sAnn = sAnn
  sEve = sEve
  sFay = sFay
  gown = gown
  item1 = item1
  item2 = item2
  NULL = NULL
  Users <- MCUsers
  UserOf <- MCUserOfSession
  Sessions = {sAnn, sEve, sFay}
  AdminSessions = {sEve, sFay}
  Types = {gown}
  ItemIds = {item1}
  MaxReservations = 1
  MaxWorkers = 2
SPECIFICATION FairClosetSpec
INVARIANTS
  SystemTypeOK
  NoStrandedItem
  ReservedAreCatalogued
  ReceiptsAreHonest
  VerdictsAreFinal
PROPERTIES
  ImplementsBoard
  EveryRequestEnds
