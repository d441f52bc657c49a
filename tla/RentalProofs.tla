---------------------------- MODULE RentalProofs ----------------------------
(***************************************************************************)
(* Proofs about Rental, for any set of users, sessions, items and types,   *)
(* any number of workers and any number of reservations, and about         *)
(* SerialRental, which has one worker.                                     *)
(***************************************************************************)
EXTENDS SerialRental, FiniteSetTheorems, TLAPS

\* UNCHANGED tables is said of each table; ItemlessPoints is a list of names.
USE DEF tables, ItemlessPoints

-----------------------------------------------------------------------------
(* Lemmas about the operators of Closet.                                   *)

\* A row of Inventory, or the lack of one, is told apart from NULL.
LEMMA RowIsNotNull ==
  /\ \A row \in InventoryRow : row # NULL
  /\ \A row \in ReservationRow : row # NULL
<1>1. ASSUME NEW row \in InventoryRow PROVE row # NULL
  <2>1. PICK st \in Statuses, ty \in Types, u \in Users \cup {NULL} :
          row = [status |-> st, type |-> ty, user |-> u]
    BY DEF InventoryRow
  <2> QED BY <2>1, NullAssumption
<1>2. ASSUME NEW row \in ReservationRow PROVE row # NULL
  <2>1. PICK u \in Users, i \in ItemIds : row = [user |-> u, item |-> i]
    BY DEF ReservationRow
  <2> QED BY <2>1, NullAssumption
<1> QED BY <1>1, <1>2

\* What flush() makes of the Inventory table: no row appears or goes, no type
\* changes, and no row but i's; i's status becomes the new one unless the
\* handler had loaded it as that already.
LEMMA FlushStatusEffect ==
  ASSUME inventory \in [ItemIds -> InventoryRow \cup {NULL}],
         NEW i \in ItemIds, NEW seen, NEW status \in Statuses
  PROVE  LET new == FlushStatus(i, seen, status) IN
         /\ new \in [ItemIds -> InventoryRow \cup {NULL}]
         /\ \A j \in ItemIds : new[j] = NULL <=> inventory[j] = NULL
         /\ \A j \in ItemIds : new[j].type = inventory[j].type
         /\ \A j \in ItemIds : j # i => new[j] = inventory[j]
         /\ seen = status => new = inventory
         /\ seen # status /\ inventory[i] # NULL => new[i].status = status
<1>1. CASE seen = status \/ inventory[i] = NULL
  BY <1>1 DEF FlushStatus
<1>2. CASE ~(seen = status \/ inventory[i] = NULL)
  <2> DEFINE new == [inventory EXCEPT ![i].status = status]
  <2>1. FlushStatus(i, seen, status) = new
    BY <1>2 DEF FlushStatus
  <2>2. inventory[i] \in InventoryRow
    BY <1>2
  <2>3. new[i] = [inventory[i] EXCEPT !.status = status]
    OBVIOUS
  <2>4. /\ new[i] \in InventoryRow
        /\ new[i].type = inventory[i].type
        /\ new[i].status = status
    BY <2>2, <2>3 DEF InventoryRow
  <2>5. new[i] # NULL
    BY <2>4, RowIsNotNull
  <2>6. \A j \in ItemIds : j # i => new[j] = inventory[j]
    OBVIOUS
  <2>7. new \in [ItemIds -> InventoryRow \cup {NULL}]
    BY <2>4
  <2> HIDE DEF new
  <2> QED BY <1>2, <2>1, <2>4, <2>5, <2>6, <2>7
<1> QED BY <1>1, <1>2

\* A request that has moved on, with another reservation or status in hand.
Moved(q, at, res, seen) == [q EXCEPT !.at = at, !.res = res, !.seen = seen]

LEMMA MovedRequest ==
  ASSUME NEW q \in Request, NEW at \in Points, NEW res \in ResIds \cup {NULL},
         NEW seen \in Statuses \cup {NULL}
  PROVE  /\ Moved(q, at, res, seen) \in Request
         /\ Moved(q, at, res, seen).at = at
         /\ Moved(q, at, res, seen).item = q.item
         /\ Moved(q, at, res, seen).res = res
         /\ Moved(q, at, res, seen).seen = seen
BY DEF Moved, Request

-----------------------------------------------------------------------------
(* Types.                                                                  *)

LEMMA InitTypeOK == Init => TypeOK
<1> SUFFICES ASSUME Init PROVE TypeOK
  OBVIOUS
<1>1. inventory \in [ItemIds -> InventoryRow \cup {NULL}]
  BY DEF Init, InventoryRow, Statuses
<1>2. nextReservation \in 1..(MaxReservations + 1)
  BY BoundsAssumption DEF Init
<1>3. Idle \in Request
  BY DEF Idle, Request, Points
<1> QED BY <1>1, <1>2, <1>3 DEF Init, TypeOK, ClosetTypeOK, Idle

LEMMA NextTypeOK == TypeOK /\ [Next]_closetVars => TypeOK'
<1> SUFFICES ASSUME TypeOK, [Next]_closetVars PROVE TypeOK'
  OBVIOUS
<1> USE DEF TypeOK
<1>0. Idle \in Request /\ Idle.at = "idle"
  BY DEF Idle, Request, Points
<1>a. ASSUME NEW s \in Sessions, Done(s),
             UNCHANGED <<tables, sent>>
      PROVE  TypeOK'
  BY <1>0, <1>a DEF Done, ClosetTypeOK
<1>1. ASSUME NEW s \in Sessions, NEW i \in ItemIds, RentLoad(s, i) PROVE TypeOK'
  <2>1. inventory[i] \in InventoryRow
    BY <1>1 DEF RentLoad, ClosetTypeOK
  <2>2. inventory[i].status \in Statuses /\ inventory[i].type \in Types
    BY <2>1 DEF InventoryRow
  <2> DEFINE q == [Idle EXCEPT !.at = "rentLoaded", !.item = i,
                    !.seen = inventory[i].status, !.type = inventory[i].type]
  <2>3. q \in Request /\ q.at = "rentLoaded" /\ q.item = i /\ q.seen \in Statuses
    BY <2>2 DEF Idle, Request, Points
  <2>4. request' = [request EXCEPT ![s] = q]
    BY <1>1 DEF RentLoad
  <2> HIDE DEF q
  <2>5. \A t \in Sessions : request'[t] = IF t = s THEN q ELSE request[t]
    BY <2>4 DEF ClosetTypeOK
  <2>6. request' \in [Sessions -> Request]
    BY <2>3, <2>4 DEF ClosetTypeOK
  <2>7. ClosetTypeOK'
    BY <1>1, <2>6 DEF RentLoad, ClosetTypeOK
  <2> QED BY <2>3, <2>5, <2>7
<1>2. ASSUME NEW s \in Sessions, RentCheck(s) PROVE TypeOK'
  <2>1. CASE request[s].type \in TypesHeld(UserOf[s])
    BY <1>a, <1>2, <2>1 DEF RentCheck
  <2>2. CASE request' = [request EXCEPT ![s].at = "rentChecked"]
    BY <1>2, <2>2 DEF RentCheck, ClosetTypeOK, Request, Points
  <2> QED BY <1>2, <2>1, <2>2 DEF RentCheck
<1>3. ASSUME NEW s \in Sessions, RentFlush(s) PROVE TypeOK'
  <2> DEFINE i == request[s].item
  <2>1. i \in ItemIds /\ "RENTED" \in Statuses
    BY <1>3 DEF RentFlush, ClosetTypeOK, Request, Statuses
  <2>2. inventory' \in [ItemIds -> InventoryRow \cup {NULL}]
    BY <1>3, <2>1, FlushStatusEffect DEF RentFlush, ClosetTypeOK
  <2>3. nextReservation \in ResIds /\ nextReservation' = nextReservation + 1
    BY <1>3 DEF RentFlush, Insertable
  <2>4. nextReservation' \in 1..(MaxReservations + 1)
    BY <2>3, BoundsAssumption DEF ResIds
  <2>5. [user |-> UserOf[s], item |-> i] \in ReservationRow
    BY <2>1, SessionsAssumption DEF ReservationRow
  <2>6. reservations' \in [ResIds -> ReservationRow \cup {NULL}]
    BY <1>3, <2>3, <2>5 DEF RentFlush, ClosetTypeOK
  <2> DEFINE q == Moved(request[s], "rentCommitted", nextReservation, request[s].seen)
  <2>7. request' = [request EXCEPT ![s] = q]
    BY <1>3 DEF RentFlush, Moved, ClosetTypeOK
  <2>8. /\ request[s] \in Request
        /\ request[s].seen \in Statuses
        /\ "rentCommitted" \in Points
    BY <1>3 DEF RentFlush, ClosetTypeOK, Points
  <2>9. q \in Request /\ q.at = "rentCommitted" /\ q.item = i /\ q.res = nextReservation
    BY <2>3, <2>8, MovedRequest
  <2> HIDE DEF q
  <2>10. ClosetTypeOK'
    BY <1>3, <2>2, <2>4, <2>6, <2>7, <2>9 DEF RentFlush, ClosetTypeOK
  <2>11. \A t \in Sessions : request'[t] = IF t = s THEN q ELSE request[t]
    BY <2>7 DEF ClosetTypeOK
  <2> QED BY <2>1, <2>3, <2>9, <2>10, <2>11
<1>4. ASSUME NEW s \in Sessions, RentRefused(s) PROVE TypeOK'
  BY <1>a, <1>4 DEF RentRefused
<1>5. ASSUME NEW s \in Sessions, RentMail(s) PROVE TypeOK'
  <2>1. Confirmation(s) \in Mail
    BY <1>5, SessionsAssumption DEF RentMail, Confirmation, Mail, ClosetTypeOK
  <2> QED BY <1>0, <1>5, <2>1 DEF RentMail, Send, Done, ClosetTypeOK
<1>6. ASSUME NEW s \in Sessions, NEW r \in ResIds, ReturnLoad(s, r) PROVE TypeOK'
  <2>1. reservations[r] \in ReservationRow
    BY <1>6 DEF ReturnLoad, Live, ClosetTypeOK
  <2>2. reservations[r].item \in ItemIds
    BY <2>1 DEF ReservationRow
  <2> DEFINE q == [Idle EXCEPT !.at = "returnLoaded", !.res = r,
                    !.item = reservations[r].item]
  <2>3. q \in Request /\ q.at = "returnLoaded" /\ q.item \in ItemIds /\ q.res = r
    BY <2>2 DEF Idle, Request, Points
  <2>4. request' = [request EXCEPT ![s] = q]
    BY <1>6 DEF ReturnLoad
  <2> HIDE DEF q
  <2> QED BY <1>6, <2>3, <2>4 DEF ReturnLoad, ClosetTypeOK
<1>7. ASSUME NEW s \in Sessions, ReturnTouch(s) PROVE TypeOK'
  <2>1. inventory[request[s].item].status \in Statuses
    BY <1>7 DEF ReturnTouch, ClosetTypeOK, InventoryRow
  <2> DEFINE q == Moved(request[s], "returnTouched", request[s].res,
                        inventory[request[s].item].status)
  <2>2. request' = [request EXCEPT ![s] = q]
    BY <1>7 DEF ReturnTouch, Moved, ClosetTypeOK
  <2>3. /\ request[s] \in Request /\ request[s].item \in ItemIds /\ request[s].res \in ResIds
        /\ "returnTouched" \in Points
    BY <1>7 DEF ReturnTouch, ClosetTypeOK, Points
  <2>4. /\ q \in Request /\ q.at = "returnTouched" /\ q.item \in ItemIds
        /\ q.res \in ResIds /\ q.seen \in Statuses
    BY <2>1, <2>3, MovedRequest
  <2> HIDE DEF q
  <2>5. ClosetTypeOK'
    BY <1>7, <2>2, <2>4 DEF ReturnTouch, ClosetTypeOK
  <2>6. \A t \in Sessions : request'[t] = IF t = s THEN q ELSE request[t]
    BY <2>2 DEF ClosetTypeOK
  <2> QED BY <2>4, <2>5, <2>6
<1>8. ASSUME NEW s \in Sessions, ReturnFlush(s) PROVE TypeOK'
  <2>1. request[s].item \in ItemIds /\ request[s].res \in ResIds /\ "AVAL" \in Statuses
    BY <1>8 DEF ReturnFlush, Statuses
  <2>2. inventory' \in [ItemIds -> InventoryRow \cup {NULL}]
    BY <1>8, <2>1, FlushStatusEffect DEF ReturnFlush, ClosetTypeOK
  <2>3. reservations' \in [ResIds -> ReservationRow \cup {NULL}]
    BY <1>8, <2>1 DEF ReturnFlush, ClosetTypeOK
  <2> QED BY <1>0, <1>8, <2>2, <2>3 DEF ReturnFlush, Done, ClosetTypeOK
<1>9. ASSUME NEW s \in Sessions, Abort(s) PROVE TypeOK'
  BY <1>a, <1>9 DEF Abort
<1>10. ASSUME NEW s \in Sessions, ReturnLost(s) PROVE TypeOK'
  BY <1>a, <1>10 DEF ReturnLost
<1>11. CASE UNCHANGED closetVars
  BY <1>11 DEF closetVars, ClosetTypeOK
<1> QED
  BY <1>1, <1>2, <1>3, <1>4, <1>5, <1>6, <1>7, <1>8, <1>9, <1>10, <1>11
  DEF Next, Start, Handle

\* Rental keeps every variable in its type, whatever requests interleave.
THEOREM TypesCorrect == Spec => []TypeOK
BY InitTypeOK, NextTypeOK, PTL DEF Spec

-----------------------------------------------------------------------------
(* Reservations, statuses and confirmations agree.                         *)

LEMMA InitRentalInv == Init => RentalInv
<1> SUFFICES ASSUME Init PROVE RentalInv
  OBVIOUS
<1>1. Live = {}
  BY DEF Init, Live
<1>2. \A s \in Sessions : request[s].at = "idle"
  BY DEF Init, Idle
<1>3. NoStrandedItem
  BY DEF Init, NoStrandedItem, StatusIs
<1>4. ConfirmationsAreHonest
  BY DEF Init, ConfirmationsAreHonest, Confirmations
<1> QED
  BY <1>1, <1>2, <1>3, <1>4, InitTypeOK
  DEF RentalInv, IdsIssued, Remembers, UniqueReservation

\* A step that leaves the tables alone and advances one request preserves the
\* invariant if what that request now remembers is so.
LEMMA RequestStep ==
  ASSUME RentalInv, TypeOK', NEW s \in Sessions,
         UNCHANGED <<inventory, reservations, nextReservation>>,
         \A t \in Sessions \ {s} : request'[t] = request[t],
         Remembers(s)', ConfirmationsAreHonest'
  PROVE  RentalInv'
<1>1. Live' = Live /\ \A i : Reserved(i)' = Reserved(i)
  BY DEF Live, Reserved
<1>2. IdsIssued' /\ UniqueReservation' /\ NoStrandedItem'
  BY <1>1 DEF RentalInv, IdsIssued, UniqueReservation, NoStrandedItem, StatusIs
<1>3. ASSUME NEW t \in Sessions PROVE Remembers(t)'
  <2>1. CASE t = s
    BY <2>1
  <2>2. CASE t # s
    BY <1>1, <2>2 DEF RentalInv, Remembers, StatusIs
  <2> QED BY <2>1, <2>2
<1> QED BY <1>2, <1>3 DEF RentalInv

\* So does a request that ends without having changed anything.
LEMMA DoneStep ==
  ASSUME RentalInv, TypeOK', NEW s \in Sessions, Done(s),
         UNCHANGED <<inventory, reservations, nextReservation, sent>>
  PROVE  RentalInv'
<1>1. \A t \in Sessions : request'[t] = IF t = s THEN Idle ELSE request[t]
  BY DEF Done, RentalInv, TypeOK, ClosetTypeOK
<1>2. Remembers(s)'
  BY <1>1 DEF Remembers, Idle
<1>3. ConfirmationsAreHonest'
  BY DEF RentalInv, ConfirmationsAreHonest, Confirmations, Live
<1> QED BY <1>1, <1>2, <1>3, RequestStep

\* What a rental's flush() does to the Reservation table: a new row, under an
\* id above all others, for an item that had none.
Inserts(s) ==
  /\ nextReservation \in ResIds \ Live
  /\ Live' = Live \cup {nextReservation}
  /\ \A r \in Live : reservations'[r] = reservations[r]
  /\ reservations'[nextReservation] = [user |-> UserOf[s], item |-> request[s].item]
  /\ \A r \in Live : r < nextReservation /\ r < nextReservation'
  /\ request[s].item \in ItemIds
  /\ ~Reserved(request[s].item)

LEMMA RentFlushInserts ==
  ASSUME RentalInv, NEW s \in Sessions, RentFlush(s)
  PROVE  Inserts(s)
<1> DEFINE n == nextReservation
<1>1. n \in ResIds /\ n \in Nat /\ nextReservation' = n + 1
  BY DEF RentFlush, Insertable, ResIds
<1>2. \A r \in Live : r \in Nat /\ r < n
  BY DEF RentalInv, IdsIssued, Live, ResIds
<1>3. n \notin Live
  BY <1>1, <1>2
<1>4. request[s].item \in ItemIds /\ ~Reserved(request[s].item)
  BY DEF RentalInv, TypeOK, RentFlush, Insertable, CanReserve
<1>5. [user |-> UserOf[s], item |-> request[s].item] \in ReservationRow
  BY <1>4, SessionsAssumption DEF ReservationRow
<1>6. reservations' = [reservations EXCEPT ![n] =
                         [user |-> UserOf[s], item |-> request[s].item]]
  BY DEF RentFlush
<1>7. /\ \A r \in ResIds : r # n => reservations'[r] = reservations[r]
      /\ reservations'[n] = [user |-> UserOf[s], item |-> request[s].item]
      /\ reservations'[n] # NULL
  BY <1>1, <1>5, <1>6, RowIsNotNull DEF RentalInv, TypeOK, ClosetTypeOK
<1>8. Live' = Live \cup {n}
  BY <1>1, <1>7 DEF Live
<1> QED BY <1>1, <1>2, <1>3, <1>4, <1>7, <1>8 DEF Live, Inserts

LEMMA RentFlushStep ==
  ASSUME RentalInv, TypeOK', NEW s \in Sessions, RentFlush(s)
  PROVE  RentalInv'
<1> DEFINE n == nextReservation
           i == request[s].item
<1>i. Inserts(s)
  BY RentFlushInserts
<1> USE DEF RentalInv
<1>0. /\ nextReservation' = n + 1 /\ n \in Nat
      /\ UNCHANGED sent
      /\ request[s].seen \in Statuses
      /\ inventory' = FlushStatus(i, request[s].seen, "RENTED")
  BY DEF RentFlush, Insertable, ResIds, TypeOK
<1>1. IdsIssued'
  BY <1>0, <1>i DEF Inserts, IdsIssued
<1>2. UniqueReservation'
  BY <1>i DEF Inserts, UniqueReservation, Reserved
<1>3. \A j \in ItemIds : Reserved(j)' <=> Reserved(j) \/ j = i
  BY <1>i DEF Inserts, Reserved
<1>4. \A j \in ItemIds : j # i => inventory'[j] = inventory[j]
  BY <1>0, <1>i, FlushStatusEffect DEF Inserts, TypeOK, ClosetTypeOK, Statuses
<1>5. NoStrandedItem'
  BY <1>3, <1>4 DEF NoStrandedItem, StatusIs
<1>6. ConfirmationsAreHonest'
  <2>1. ASSUME NEW m \in Confirmations
        PROVE  m.res \in Nat /\ m.res < n /\ (m.res \in Live' => m.res \in Live)
    BY <2>1, <1>i DEF Inserts, ConfirmationsAreHonest, ResIds
  <2> QED BY <1>0, <2>1, <1>i DEF Inserts, ConfirmationsAreHonest, Confirmations
<1>7. ASSUME NEW t \in Sessions PROVE Remembers(t)'
  <2>1. CASE t = s
    <3>1. request'[s] = [request[s] EXCEPT !.at = "rentCommitted", !.res = n]
      BY DEF RentFlush, TypeOK, ClosetTypeOK
    <3>2. /\ request'[s].at = "rentCommitted"
          /\ request'[s].res = n
          /\ request'[s].item = i
      BY <3>1 DEF TypeOK, ClosetTypeOK, Request
    <3> QED BY <1>0, <2>1, <3>2, <1>i DEF Inserts, Remembers
  <2>2. CASE t # s
    <3> DEFINE q == request[t]
    <3>1. request'[t] = q
      BY <2>2 DEF RentFlush, TypeOK, ClosetTypeOK
    <3>2. CASE q.at \in {"rentCommitted", "returnLoaded", "returnTouched"}
      <4>1. q.res \in ResIds /\ q.item \in ItemIds /\ q.res < n
        BY <3>2 DEF TypeOK, Remembers
      <4>2. q.res \in Nat /\ q.res < n + 1 /\ (q.res \in Live' => q.res \in Live)
        BY <1>0, <4>1, <1>i DEF Inserts, ResIds
      <4>3. q.res \in Live => q.item # i
        BY <3>2, <4>1, <1>i DEF Inserts, Remembers, Reserved
      <4>4. q.res \in Live => inventory'[q.item] = inventory[q.item]
        BY <1>4, <4>1, <4>3
      <4> HIDE DEF q
      <4>5. q.res \in Live' => reservations'[q.res] = reservations[q.res]
        BY <4>2, <1>i DEF Inserts
      <4> QED BY <1>0, <3>1, <4>2, <4>4, <4>5 DEF Remembers, StatusIs, q
    <3>3. CASE q.at \notin {"rentCommitted", "returnLoaded", "returnTouched"}
      BY <3>1, <3>3 DEF Remembers
    <3> QED BY <3>2, <3>3
  <2> QED BY <2>1, <2>2
<1> QED BY <1>1, <1>2, <1>5, <1>6, <1>7

LEMMA ReturnFlushStep ==
  ASSUME RentalInv, TypeOK', NEW s \in Sessions, ReturnFlush(s)
  PROVE  RentalInv'
<1> DEFINE r == request[s].res
           i == request[s].item
           seen == request[s].seen
<1> USE DEF RentalInv
<1>0. /\ r \in ResIds /\ i \in ItemIds
      /\ UNCHANGED <<nextReservation, sent>>
      /\ reservations' = [reservations EXCEPT ![r] = NULL]
      /\ inventory' = FlushStatus(i, seen, "AVAL")
      /\ request[s].at = "returnTouched"
  BY DEF ReturnFlush, TypeOK
<1>1. Live' = Live \ {r} /\ \A q \in Live' : reservations'[q] = reservations[q]
  BY <1>0 DEF Live, TypeOK, ClosetTypeOK
<1>2. /\ \A j \in ItemIds : j # i => inventory'[j] = inventory[j]
      /\ seen = "AVAL" => inventory' = inventory
      /\ seen # "AVAL" /\ inventory[i] # NULL => inventory'[i].status = "AVAL"
      /\ inventory[i] = NULL <=> inventory'[i] = NULL
  BY <1>0, FlushStatusEffect DEF TypeOK, ClosetTypeOK, Statuses
<1>3. \A j \in ItemIds : StatusIs(j, "RENTED")' =>
         StatusIs(j, "RENTED") /\ (j = i => seen = "AVAL")
  BY <1>2 DEF StatusIs
<1>4. r \in Live => reservations[r].item = i /\ (seen = "AVAL" => ~StatusIs(i, "RENTED"))
  BY <1>0 DEF Remembers
<1>5. NoStrandedItem'
  <2> SUFFICES ASSUME NEW j \in ItemIds, StatusIs(j, "RENTED")'
               PROVE  Reserved(j)'
    BY DEF NoStrandedItem
  <2>1. PICK q \in Live : reservations[q].item = j
    BY <1>3 DEF NoStrandedItem, Reserved
  <2>2. q # r
    BY <1>3, <1>4, <2>1
  <2> QED BY <1>1, <2>1, <2>2 DEF Reserved
<1>6. IdsIssued' /\ UniqueReservation'
  BY <1>0, <1>1 DEF IdsIssued, UniqueReservation
<1>7. ConfirmationsAreHonest'
  BY <1>0, <1>1 DEF ConfirmationsAreHonest, Confirmations
<1>8. ASSUME NEW t \in Sessions PROVE Remembers(t)'
  <2>1. CASE t = s
    BY <2>1 DEF ReturnFlush, Done, Idle, Remembers, TypeOK, ClosetTypeOK
  <2>2. CASE t # s
    <3>1. request'[t] = request[t]
      BY <2>2 DEF ReturnFlush, Done, TypeOK, ClosetTypeOK
    <3>2. request[t].at = "returnTouched" => request[t].item \in ItemIds
      BY DEF TypeOK
    <3> QED BY <1>0, <1>1, <1>3, <3>1, <3>2 DEF Remembers
  <2> QED BY <2>1, <2>2
<1> QED BY <1>5, <1>6, <1>7, <1>8

LEMMA NextRentalInv == RentalInv /\ [Next]_closetVars => RentalInv'
<1> SUFFICES ASSUME RentalInv, [Next]_closetVars PROVE RentalInv'
  OBVIOUS
<1>0. TypeOK /\ TypeOK'
  BY NextTypeOK DEF RentalInv
<1>a. ASSUME UNCHANGED <<reservations, nextReservation, sent>>
      PROVE  ConfirmationsAreHonest'
  BY <1>a DEF RentalInv, ConfirmationsAreHonest, Confirmations, Live
<1>1. ASSUME NEW s \in Sessions, NEW i \in ItemIds, RentLoad(s, i) PROVE RentalInv'
  <2>1. request'[s].at = "rentLoaded" /\ \A t \in Sessions \ {s} : request'[t] = request[t]
    BY <1>0, <1>1 DEF RentLoad, Idle, TypeOK, ClosetTypeOK
  <2>2. Remembers(s)'
    BY <2>1 DEF Remembers
  <2> QED BY <1>0, <1>a, <1>1, <2>1, <2>2, RequestStep DEF RentLoad
<1>2. ASSUME NEW s \in Sessions, RentCheck(s) PROVE RentalInv'
  <2>1. CASE Done(s)
    BY <1>0, <1>2, <2>1, DoneStep DEF RentCheck
  <2>2. CASE request' = [request EXCEPT ![s].at = "rentChecked"]
    <3>1. /\ request'[s].at = "rentChecked"
          /\ \A t \in Sessions \ {s} : request'[t] = request[t]
      BY <1>0, <2>2 DEF TypeOK, ClosetTypeOK, Request
    <3>2. Remembers(s)'
      BY <3>1 DEF Remembers
    <3> QED BY <1>0, <1>a, <1>2, <3>1, <3>2, RequestStep DEF RentCheck
  <2> QED BY <1>2, <2>1, <2>2 DEF RentCheck
<1>3. ASSUME NEW s \in Sessions, RentFlush(s) PROVE RentalInv'
  BY <1>0, <1>3, RentFlushStep
<1>4. ASSUME NEW s \in Sessions, RentRefused(s) PROVE RentalInv'
  BY <1>0, <1>4, DoneStep DEF RentRefused
<1>5. ASSUME NEW s \in Sessions, RentMail(s) PROVE RentalInv'
  <2>1. LET m == Confirmation(s) IN
          /\ m.res \in ResIds /\ m.res < nextReservation
          /\ m.res \in Live => /\ reservations[m.res].item = m.item
                               /\ reservations[m.res].user = m.to
    BY <1>0, <1>5 DEF RentMail, Confirmation, RentalInv, Remembers, TypeOK
  <2>2. /\ sent' = sent \cup {Confirmation(s)}
        /\ UNCHANGED <<inventory, reservations, nextReservation>>
        /\ Done(s)
    BY <1>5 DEF RentMail, Send
  <2>3. ConfirmationsAreHonest'
    BY <2>1, <2>2 DEF RentalInv, ConfirmationsAreHonest, Confirmations, Live
  <2>4. \A t \in Sessions : request'[t] = IF t = s THEN Idle ELSE request[t]
    BY <1>0, <2>2 DEF Done, TypeOK, ClosetTypeOK
  <2>5. Remembers(s)'
    BY <2>4 DEF Remembers, Idle
  <2> QED BY <1>0, <2>2, <2>3, <2>4, <2>5, RequestStep
<1>6. ASSUME NEW s \in Sessions, NEW r \in ResIds, ReturnLoad(s, r) PROVE RentalInv'
  <2>1. request' = [request EXCEPT ![s] = [Idle EXCEPT
           !.at = "returnLoaded", !.res = r, !.item = reservations[r].item]]
    BY <1>6 DEF ReturnLoad
  <2>2. /\ request'[s].at = "returnLoaded"
        /\ request'[s].res = r
        /\ request'[s].item = reservations[r].item
        /\ \A t \in Sessions \ {s} : request'[t] = request[t]
    BY <1>0, <2>1 DEF Idle, TypeOK, ClosetTypeOK
  <2>3. /\ r \in Live
        /\ UNCHANGED <<inventory, reservations, nextReservation, sent>>
    BY <1>6 DEF ReturnLoad
  <2>4. Remembers(s)'
    BY <2>2, <2>3 DEF Remembers, RentalInv, IdsIssued
  <2> QED BY <1>0, <1>a, <2>2, <2>3, <2>4, RequestStep
<1>7. ASSUME NEW s \in Sessions, ReturnTouch(s) PROVE RentalInv'
  <2>1. /\ request[s].at = "returnLoaded"
        /\ request' = [request EXCEPT ![s].at = "returnTouched",
                              ![s].seen = inventory[request[s].item].status]
        /\ UNCHANGED <<inventory, reservations, nextReservation, sent>>
    BY <1>7 DEF ReturnTouch
  <2>2. /\ request'[s].at = "returnTouched"
        /\ request'[s].res = request[s].res
        /\ request'[s].item = request[s].item
        /\ request'[s].seen = inventory[request[s].item].status
        /\ \A t \in Sessions \ {s} : request'[t] = request[t]
    BY <1>0, <2>1 DEF TypeOK, ClosetTypeOK, Request
  <2>3. Remembers(s)'
    BY <2>1, <2>2 DEF Remembers, RentalInv, Live, StatusIs
  <2> QED BY <1>0, <1>a, <2>1, <2>2, <2>3, RequestStep
<1>8. ASSUME NEW s \in Sessions, ReturnFlush(s) PROVE RentalInv'
  BY <1>0, <1>8, ReturnFlushStep
<1>9. ASSUME NEW s \in Sessions, Abort(s) PROVE RentalInv'
  BY <1>0, <1>9, DoneStep DEF Abort
<1>10. ASSUME NEW s \in Sessions, ReturnLost(s) PROVE RentalInv'
  BY <1>0, <1>10, DoneStep DEF ReturnLost
<1>11. CASE UNCHANGED closetVars
  BY <1>0, <1>11
  DEF closetVars, RentalInv, IdsIssued, Remembers, UniqueReservation, NoStrandedItem,
      ConfirmationsAreHonest, Confirmations, Live, Reserved, StatusIs
<1> QED
  BY <1>1, <1>2, <1>3, <1>4, <1>5, <1>6, <1>7, <1>8, <1>9, <1>10, <1>11
  DEF Next, Start, Handle

LEMMA RentalInvHolds == Spec => []RentalInv
BY InitRentalInv, NextRentalInv, PTL DEF Spec

\* However rentals, returns and aborts interleave, an item marked RENTED has a
\* reservation through which it can be returned.
THEOREM NoItemIsStranded == Spec => []NoStrandedItem
<1>1. RentalInv => NoStrandedItem
  BY DEF RentalInv
<1> QED BY <1>1, RentalInvHolds, PTL

\* Every confirmation tells of a reservation that was committed.
THEOREM MailsAreHonest == Spec => []ConfirmationsAreHonest
<1>1. RentalInv => ConfirmationsAreHonest
  BY DEF RentalInv
<1> QED BY <1>1, RentalInvHolds, PTL

-----------------------------------------------------------------------------
(* One item per type and user.                                             *)

\* No step of Rental makes or deletes an item or changes its type, and only a
\* rental's flush() makes a reservation.
ItemsStay ==
  /\ \A i \in ItemIds : inventory'[i] = NULL <=> inventory[i] = NULL
  /\ \A i \in ItemIds : inventory'[i].type = inventory[i].type

ReservationsStay ==
  /\ Live' \subseteq Live
  /\ \A r \in Live' : reservations'[r] = reservations[r]

LEMMA NoNewReservation ==
  ASSUME TypeOK, [Next]_closetVars,
         ~\E s \in Sessions : RentFlush(s)
  PROVE  ItemsStay /\ ReservationsStay
<1>1. ASSUME UNCHANGED tables PROVE ItemsStay /\ ReservationsStay
  BY <1>1 DEF ItemsStay, ReservationsStay, Live
<1>2. ASSUME NEW s \in Sessions, ReturnFlush(s)
      PROVE  ItemsStay /\ ReservationsStay
  <2>1. request[s].item \in ItemIds /\ "AVAL" \in Statuses
    BY <1>2 DEF ReturnFlush, TypeOK, Statuses
  <2>2. ItemsStay
    BY <1>2, <2>1, FlushStatusEffect DEF ReturnFlush, ItemsStay, TypeOK, ClosetTypeOK
  <2>3. ReservationsStay
    BY <1>2 DEF ReturnFlush, ReservationsStay, Live, TypeOK, ClosetTypeOK
  <2> QED BY <2>2, <2>3
<1> QED
  BY <1>1, <1>2
  DEF Next, Start, Handle, closetVars, RentLoad, RentCheck, RentRefused, RentMail, Send,
      ReturnLoad, ReturnTouch, ReturnLost, Abort

\* What is held can only get less where nothing is reserved.
LEMMA HeldShrinks ==
  ASSUME RentalInv, ItemsStay, ReservationsStay
  PROVE  \A u : TypesHeld(u)' \subseteq TypesHeld(u)
<1>1. \A r \in Live : reservations[r].item \in ItemIds
  BY DEF RentalInv, TypeOK, ClosetTypeOK, Live, ReservationRow
<1> QED BY <1>1 DEF ItemsStay, ReservationsStay, TypesHeld, ReservationsOf

\* A step that reserves nothing and advances one request.
LEMMA QuietStep ==
  ASSUME NEW U, OnePerTypeInv(U), RentalInv', ItemsStay, ReservationsStay,
         NEW s \in Sessions, CheckStands(s, U)',
         \A t \in Sessions \ {s} : request'[t] = request[t]
  PROVE  OnePerTypeInv(U)'
<1>1. \A r \in Live : reservations[r].item \in ItemIds
  BY DEF OnePerTypeInv, RentalInv, TypeOK, ClosetTypeOK, Live, ReservationRow
<1>2. ReservedAreCatalogued'
  BY <1>1 DEF OnePerTypeInv, ReservedAreCatalogued, ItemsStay, ReservationsStay
<1>3. OnePerTypeAmong(U)'
  BY <1>1 DEF OnePerTypeInv, OnePerTypeAmong, ItemsStay, ReservationsStay
<1>4. ASSUME NEW t \in Sessions PROVE CheckStands(t, U)'
  <2>1. CASE t = s
    BY <2>1
  <2>2. CASE t # s
    <3>1. request'[t] = request[t] /\ CheckStands(t, U)
      BY <2>2 DEF OnePerTypeInv
    <3>2. request[t].at \in {"rentLoaded", "rentChecked"} => request[t].item \in ItemIds
      BY DEF OnePerTypeInv, RentalInv, TypeOK
    <3>3. TypesHeld(UserOf[t])' \subseteq TypesHeld(UserOf[t])
      BY HeldShrinks DEF OnePerTypeInv
    <3> QED BY <3>1, <3>2, <3>3 DEF CheckStands, ItemsStay
  <2> QED BY <2>1, <2>2
<1> QED BY <1>2, <1>3, <1>4 DEF OnePerTypeInv

\* Of each user of U at most one request runs: what the check of rentAction needs
\* to hold until its INSERT.
NoRivals(U) ==
  \A s, t \in Sessions :
    Busy(s) /\ Busy(t) /\ UserOf[s] = UserOf[t] /\ UserOf[s] \in U => s = t

LEMMA ReserveStep ==
  ASSUME NEW U, OnePerTypeInv(U), RentalInv', NoRivals(U), NEW s \in Sessions, RentFlush(s)
  PROVE  OnePerTypeInv(U)'
<1> DEFINE n == nextReservation
           i == request[s].item
           u == UserOf[s]
<1>0. RentalInv /\ TypeOK
  BY DEF OnePerTypeInv, RentalInv
<1>1. Inserts(s)
  BY <1>0, RentFlushInserts
<1>2. /\ request[s].at = "rentChecked"
      /\ request[s].seen \in Statuses
      /\ i \in ItemIds
      /\ "RENTED" \in Statuses
      /\ inventory[i] # NULL
      /\ inventory' = FlushStatus(i, request[s].seen, "RENTED")
      /\ request' = [request EXCEPT ![s].at = "rentCommitted", ![s].res = n]
  BY <1>0 DEF RentFlush, Insertable, CanReserve, TypeOK, Statuses
<1>3. ItemsStay
  BY <1>0, <1>2, FlushStatusEffect DEF ItemsStay, TypeOK, ClosetTypeOK
<1>4. \A r \in Live : reservations[r].item \in ItemIds
  BY <1>0 DEF TypeOK, ClosetTypeOK, Live, ReservationRow
<1>5. /\ Live' = Live \cup {n} /\ n \notin Live
      /\ \A r \in Live : reservations'[r] = reservations[r]
      /\ reservations'[n].user = u
      /\ reservations'[n].item = i
  BY <1>1 DEF Inserts
<1>6. u \in U => \A r \in Live : reservations[r].user = u =>
         inventory[reservations[r].item].type # inventory[i].type
  BY <1>2 DEF OnePerTypeInv, CheckStands, TypesHeld, ReservationsOf
<1>7. ReservedAreCatalogued'
  BY <1>2, <1>3, <1>4, <1>5 DEF OnePerTypeInv, ReservedAreCatalogued, ItemsStay
<1>8. OnePerTypeAmong(U)'
  <2> SUFFICES ASSUME NEW r \in Live', NEW q \in Live',
                      reservations'[r].user = reservations'[q].user,
                      reservations'[r].user \in U,
                      inventory'[reservations'[r].item].type
                        = inventory'[reservations'[q].item].type
               PROVE  r = q
    BY DEF OnePerTypeAmong
  <2>1. CASE r \in Live /\ q \in Live
    BY <1>3, <1>4, <1>5, <2>1 DEF OnePerTypeInv, OnePerTypeAmong, ItemsStay
  <2>2. CASE r = n /\ q \in Live
    BY <1>2, <1>3, <1>4, <1>5, <1>6, <2>2 DEF ItemsStay
  <2>3. CASE r \in Live /\ q = n
    BY <1>2, <1>3, <1>4, <1>5, <1>6, <2>3 DEF ItemsStay
  <2> QED BY <1>5, <2>1, <2>2, <2>3
<1>9. ASSUME NEW t \in Sessions PROVE CheckStands(t, U)'
  <2>1. CASE t = s
    BY <1>0, <1>2, <2>1 DEF CheckStands, TypeOK, ClosetTypeOK, Request
  <2>2. CASE t # s
    <3>1. request'[t] = request[t] /\ CheckStands(t, U)
      BY <1>0, <1>2, <2>2 DEF OnePerTypeInv, TypeOK, ClosetTypeOK
    <3>2. request[t].at \in {"rentLoaded", "rentChecked"} =>
             request[t].item \in ItemIds /\ (UserOf[t] \in U => UserOf[t] # u)
      BY <1>0, <1>2, <2>2 DEF TypeOK, NoRivals, Busy
    <3>3. UserOf[t] # u => TypesHeld(UserOf[t])' = TypesHeld(UserOf[t])
      BY <1>3, <1>4, <1>5 DEF TypesHeld, ReservationsOf, ItemsStay
    <3> QED BY <1>3, <3>1, <3>2, <3>3 DEF CheckStands, ItemsStay
  <2> QED BY <2>1, <2>2
<1> QED BY <1>7, <1>8, <1>9 DEF OnePerTypeInv

LEMMA NextOnePerTypeInv ==
  ASSUME NEW U, OnePerTypeInv(U), NoRivals(U), [Next]_closetVars
  PROVE  OnePerTypeInv(U)'
<1>0. RentalInv /\ TypeOK /\ RentalInv' /\ TypeOK'
  BY NextRentalInv DEF OnePerTypeInv, RentalInv
<1>1. ASSUME NEW s \in Sessions, RentFlush(s) PROVE OnePerTypeInv(U)'
  BY <1>0, <1>1, ReserveStep
<1>2. CASE ~\E s \in Sessions : RentFlush(s)
  <2>1. ItemsStay /\ ReservationsStay
    BY <1>0, <1>2, NoNewReservation
  <2>2. ASSUME NEW s \in Sessions,
               \A t \in Sessions \ {s} : request'[t] = request[t],
               request'[s].at \notin {"rentLoaded", "rentChecked"}
        PROVE  OnePerTypeInv(U)'
    <3>1. CheckStands(s, U)'
      BY <2>2 DEF CheckStands
    <3> QED BY <1>0, <2>1, <2>2, <3>1, QuietStep
  <2>3. ASSUME NEW s \in Sessions, Done(s) PROVE OnePerTypeInv(U)'
    BY <1>0, <2>2, <2>3 DEF Done, Idle, TypeOK, ClosetTypeOK
  <2>4. ASSUME NEW s \in Sessions, NEW i \in ItemIds, RentLoad(s, i) PROVE OnePerTypeInv(U)'
    <3>1. request' = [request EXCEPT ![s] = [Idle EXCEPT !.at = "rentLoaded", !.item = i,
             !.seen = inventory[i].status, !.type = inventory[i].type]]
      BY <2>4 DEF RentLoad
    <3>2. /\ request'[s].at = "rentLoaded"
          /\ request'[s].item = i
          /\ request'[s].type = inventory[i].type
          /\ \A t \in Sessions \ {s} : request'[t] = request[t]
      BY <1>0, <3>1 DEF Idle, TypeOK, ClosetTypeOK
    <3>3. CheckStands(s, U)'
      BY <2>4, <3>2 DEF CheckStands, RentLoad
    <3> QED BY <1>0, <2>1, <3>2, <3>3, QuietStep
  <2>5. ASSUME NEW s \in Sessions, RentCheck(s) PROVE OnePerTypeInv(U)'
    <3>1. CASE request[s].type \in TypesHeld(UserOf[s])
      BY <2>3, <2>5, <3>1 DEF RentCheck
    <3>2. CASE request[s].type \notin TypesHeld(UserOf[s])
      <4>1. request' = [request EXCEPT ![s].at = "rentChecked"] /\ request[s].at = "rentLoaded"
        BY <2>5, <3>2 DEF RentCheck
      <4>2. /\ request'[s].at = "rentChecked"
            /\ request'[s].item = request[s].item
            /\ request'[s].type = request[s].type
            /\ \A t \in Sessions \ {s} : request'[t] = request[t]
        BY <1>0, <4>1 DEF TypeOK, ClosetTypeOK, Request
      <4>3. inventory' = inventory /\ TypesHeld(UserOf[s])' = TypesHeld(UserOf[s])
        BY <2>5 DEF RentCheck, TypesHeld, ReservationsOf, Live
      <4>4. CheckStands(s, U)'
        BY <3>2, <4>1, <4>2, <4>3 DEF CheckStands, OnePerTypeInv
      <4> QED BY <1>0, <2>1, <4>2, <4>4, QuietStep
    <3> QED BY <3>1, <3>2
  <2>6. ASSUME NEW s \in Sessions, NEW r \in ResIds, ReturnLoad(s, r) PROVE OnePerTypeInv(U)'
    BY <1>0, <2>2, <2>6 DEF ReturnLoad, Idle, TypeOK, ClosetTypeOK
  <2>7. ASSUME NEW s \in Sessions, ReturnTouch(s) PROVE OnePerTypeInv(U)'
    BY <1>0, <2>2, <2>7 DEF ReturnTouch, TypeOK, ClosetTypeOK, Request
  <2>8. CASE UNCHANGED closetVars
    BY <2>8
    DEF closetVars, OnePerTypeInv, RentalInv, TypeOK, ClosetTypeOK, IdsIssued, Remembers,
        UniqueReservation, NoStrandedItem, ConfirmationsAreHonest, Confirmations,
        ReservedAreCatalogued, CheckStands, OnePerTypeAmong, TypesHeld, ReservationsOf, Live,
        Reserved, StatusIs
  <2>9. ASSUME NEW s \in Sessions,
               \/ RentRefused(s) \/ RentMail(s)
               \/ ReturnLost(s) \/ ReturnFlush(s) \/ Abort(s)
        PROVE  OnePerTypeInv(U)'
    BY <2>3, <2>9 DEF RentRefused, RentMail, Send, ReturnLost, ReturnFlush, Abort
  <2> QED
    BY <1>2, <2>4, <2>5, <2>6, <2>7, <2>8, <2>9 DEF Next, Start, Handle
<1> QED BY <1>1, <1>2

LEMMA InitOnePerTypeInv ==
  ASSUME NEW U, Init
  PROVE  OnePerTypeInv(U)
<1>1. Live = {} /\ \A s \in Sessions : request[s].at = "idle"
  BY DEF Init, Live, Idle
<1> QED
  BY <1>1, InitRentalInv
  DEF OnePerTypeInv, ReservedAreCatalogued, CheckStands, OnePerTypeAmong

\* Who has one session has no rival, whatever sessions the others have.
LEMMA NoRivalsOfSingleSessions == NoRivals(SingleSession)
BY SessionsAssumption DEF NoRivals, SingleSession

\* Where each user has one session, what is said of those who do is said of all.
LEMMA AllHaveSingleSessions ==
  ASSUME OneSessionPerUser, TypeOK, OnePerTypeAmong(SingleSession)
  PROVE  OnePerType
<1>1. SingleSession = Users
  BY DEF OneSessionPerUser, SingleSession
<1>2. \A r \in Live : reservations[r].user \in Users
  BY DEF TypeOK, ClosetTypeOK, Live, ReservationRow
<1> QED BY <1>1, <1>2 DEF OnePerType, OnePerTypeAmong

\* A user who has a single session never holds two items of one type, in any
\* interleaving of requests, however many sessions others have.
THEOREM SingleSessionOnePerType == Spec => []OnePerTypeAmong(SingleSession)
<1>1. Init => OnePerTypeInv(SingleSession)
  BY InitOnePerTypeInv
<1>2. OnePerTypeInv(SingleSession) /\ [Next]_closetVars => OnePerTypeInv(SingleSession)'
  BY NoRivalsOfSingleSessions, NextOnePerTypeInv
<1>3. OnePerTypeInv(SingleSession) => OnePerTypeAmong(SingleSession)
  BY DEF OnePerTypeInv
<1> QED BY <1>1, <1>2, <1>3, PTL DEF Spec

\* When no user has two sessions, nobody ever holds two items of one type, in
\* any interleaving of the requests of different users.
THEOREM OnePerTypeWithOneSession ==
  ASSUME OneSessionPerUser
  PROVE  Spec => []OnePerType
<1>1. TypeOK /\ OnePerTypeAmong(SingleSession) => OnePerType
  BY AllHaveSingleSessions
<1> QED BY <1>1, TypesCorrect, SingleSessionOnePerType, PTL

-----------------------------------------------------------------------------
(* On a server with one worker, which is over with a request before it       *)
(* begins the next: statuses and reservations agree, and lending implements  *)
(* the abstract LoanLedger.                                                  *)

OneWorker == MaxWorkers = 1

-----------------------------------------------------------------------------
(* One request at a time.                                                  *)

\* A request is accepted when no other runs.
LEMMA AcceptedAlone ==
  ASSUME OneWorker, NEW s \in Sessions, Accept(s)
  PROVE  \A t \in Sessions : ~Busy(t)
<1> DEFINE B == {t \in Sessions : Busy(t)}
<1>1. IsFiniteSet(B)
  BY SessionsAssumption, FS_Subset
<1>2. Cardinality(B) \in Nat /\ Cardinality(B) < 1
  BY <1>1, FS_CardinalityType DEF Accept, FreeWorker, OneWorker
<1>3. B = {}
  BY <1>1, <1>2, FS_EmptySet
<1> QED BY <1>3

\* Every step is of one request, which runs already or is accepted by it.
StepOf(s) ==
  /\ Busy(s) \/ Accept(s)
  /\ \A t \in Sessions \ {s} : request'[t] = request[t]

LEMMA StepsAreOfOneRequest ==
  ASSUME TypeOK, NEW s \in Sessions, Start(s) \/ Handle(s) \/ Abort(s)
  PROVE  StepOf(s)
BY DEF StepOf, Start, Handle, Abort, RentLoad, RentCheck, RentFlush, RentRefused, RentMail,
       Send, ReturnLoad, ReturnTouch, ReturnLost, ReturnFlush, Done, Busy, TypeOK, ClosetTypeOK

\* While it makes its step all others are idle, before and after.
LEMMA OthersIdle ==
  ASSUME OneWorker, AtMostOneBusy, NEW s \in Sessions, StepOf(s)
  PROVE  /\ AtMostOneBusy'
         /\ \A t \in Sessions \ {s} : request[t].at = "idle" /\ request'[t].at = "idle"
<1>1. \A t \in Sessions \ {s} : ~Busy(t)
  BY AcceptedAlone DEF StepOf, AtMostOneBusy
<1>2. \A t \in Sessions \ {s} : request[t].at = "idle" /\ request'[t].at = "idle"
  BY <1>1 DEF StepOf, Busy
<1> QED BY <1>2 DEF AtMostOneBusy, Busy

-----------------------------------------------------------------------------
(* Statuses and reservations agree.                                        *)

LEMMA InitSerialInv == Init => SerialInv
<1> SUFFICES ASSUME Init PROVE SerialInv
  OBVIOUS
<1>1. Live = {} /\ \A s \in Sessions : request[s].at = "idle"
  BY DEF Init, Live, Idle
<1>2. OnePerTypeInv(Users) /\ NoStrandedItem
  BY InitOnePerTypeInv DEF OnePerTypeInv, RentalInv
<1> QED
  BY <1>1, <1>2
  DEF SerialInv, AtMostOneBusy, Busy, SeenIsCurrent, LedgerConsistent, AvailableIsFree, Reserved

\* A step that leaves the tables alone.
LEMMA QuietSerialStep ==
  ASSUME OneWorker, SerialInv, OnePerTypeInv(Users)', NEW s \in Sessions, StepOf(s),
         UNCHANGED tables, SeenIsCurrent(s)'
  PROVE  SerialInv'
<1>1. /\ AtMostOneBusy'
      /\ \A t \in Sessions \ {s} : request'[t].at = "idle"
  BY OthersIdle DEF SerialInv
<1>2. \A t \in Sessions : SeenIsCurrent(t)'
  BY <1>1 DEF SeenIsCurrent
<1>3. AvailableIsFree' /\ NoStrandedItem'
  BY DEF SerialInv, LedgerConsistent, AvailableIsFree, NoStrandedItem, StatusIs, Reserved, Live
<1> QED BY <1>1, <1>2, <1>3 DEF SerialInv, LedgerConsistent

\* A rental that commits finds its item on the shelf and takes it off.
LEMMA LendsFromShelf ==
  ASSUME SerialInv, NEW s \in Sessions, RentFlush(s)
  PROVE  LET i == request[s].item IN
         /\ i \in ItemIds
         /\ inventory[i] # NULL /\ inventory'[i] # NULL
         /\ inventory'[i].status = "RENTED"
         /\ \A j \in ItemIds : j # i => inventory'[j] = inventory[j]
         /\ \A j \in ItemIds : inventory'[j].type = inventory[j].type
         /\ request[s].seen # "RENTED"
         /\ StatusIs(i, request[s].seen)
<1> DEFINE i == request[s].item
           seen == request[s].seen
<1>1. RentalInv /\ TypeOK /\ NoStrandedItem
  BY DEF SerialInv, OnePerTypeInv, RentalInv
<1>2. /\ i \in ItemIds /\ ~Reserved(i) /\ inventory[i] # NULL
      /\ "RENTED" \in Statuses /\ seen \in Statuses
      /\ inventory' = FlushStatus(i, seen, "RENTED")
  BY <1>1 DEF TypeOK, RentFlush, Insertable, CanReserve, Statuses
<1>3. StatusIs(i, seen)
  BY DEF SerialInv, SeenIsCurrent, RentFlush
<1>4. seen # "RENTED"
  BY <1>1, <1>2, <1>3 DEF NoStrandedItem
<1>5. LET new == FlushStatus(i, seen, "RENTED") IN
         /\ \A j \in ItemIds : new[j] = NULL <=> inventory[j] = NULL
         /\ \A j \in ItemIds : new[j].type = inventory[j].type
         /\ \A j \in ItemIds : j # i => new[j] = inventory[j]
         /\ seen # "RENTED" /\ inventory[i] # NULL => new[i].status = "RENTED"
  BY <1>1, <1>2, FlushStatusEffect DEF TypeOK, ClosetTypeOK
<1> QED BY <1>2, <1>3, <1>4, <1>5

LEMMA RentFlushSerialStep ==
  ASSUME OneWorker, SerialInv, OnePerTypeInv(Users)', NEW s \in Sessions, RentFlush(s)
  PROVE  SerialInv'
<1> DEFINE i == request[s].item
<1>1. RentalInv /\ TypeOK
  BY DEF SerialInv, OnePerTypeInv, RentalInv
<1>2. AtMostOneBusy' /\ \A t \in Sessions \ {s} : request'[t].at = "idle"
  BY <1>1, StepsAreOfOneRequest, OthersIdle DEF SerialInv, Handle
<1>3. request'[s].at = "rentCommitted"
  BY <1>1 DEF RentFlush, TypeOK, ClosetTypeOK, Request
<1>4. \A t \in Sessions : SeenIsCurrent(t)'
  BY <1>2, <1>3 DEF SeenIsCurrent
<1>5. \A j \in ItemIds : Reserved(j)' => Reserved(j) \/ j = i
  <2>1. Inserts(s)
    BY <1>1, RentFlushInserts
  <2> QED BY <2>1 DEF Inserts, Reserved
<1>6. /\ inventory'[i].status = "RENTED"
      /\ \A j \in ItemIds : j # i => inventory'[j] = inventory[j]
  BY LendsFromShelf
<1>7. AvailableIsFree'
  BY <1>5, <1>6 DEF SerialInv, LedgerConsistent, AvailableIsFree, StatusIs
<1>8. NoStrandedItem'
  BY DEF OnePerTypeInv, RentalInv
<1> QED BY <1>2, <1>4, <1>7, <1>8 DEF SerialInv, LedgerConsistent

\* A return that commits finds its item off the shelf, out by the reservation it
\* deletes, and puts it back.
LEMMA ReturnsToShelf ==
  ASSUME SerialInv, NEW s \in Sessions, ReturnFlush(s)
  PROVE  LET i == request[s].item IN
         /\ i \in ItemIds
         /\ inventory[i] # NULL /\ inventory'[i] # NULL
         /\ inventory'[i].status = "AVAL"
         /\ \A j \in ItemIds : j # i => inventory'[j] = inventory[j]
         /\ \A j \in ItemIds : inventory'[j].type = inventory[j].type
         /\ request[s].res \in Live
         /\ reservations[request[s].res].item = i
         /\ Live' = Live \ {request[s].res}
         /\ \A r \in Live' : reservations'[r] = reservations[r]
         /\ \A r \in Live' : reservations[r].item # i
<1> DEFINE i == request[s].item
           seen == request[s].seen
           r == request[s].res
<1>1. RentalInv /\ TypeOK /\ UniqueReservation /\ AvailableIsFree
  BY DEF SerialInv, OnePerTypeInv, RentalInv, LedgerConsistent
<1>2. /\ request[s].at = "returnTouched"
      /\ i \in ItemIds /\ r \in ResIds /\ seen \in Statuses /\ "AVAL" \in Statuses
      /\ inventory' = FlushStatus(i, seen, "AVAL")
      /\ reservations' = [reservations EXCEPT ![r] = NULL]
  BY <1>1 DEF TypeOK, ReturnFlush, Statuses
<1>3. StatusIs(i, seen) /\ r \in Live
  BY <1>2 DEF SerialInv, SeenIsCurrent
<1>4. reservations[r].item = i
  BY <1>1, <1>2, <1>3 DEF RentalInv, Remembers
<1>5. seen # "AVAL"
  BY <1>1, <1>2, <1>3, <1>4 DEF AvailableIsFree, Reserved
<1>6. LET new == FlushStatus(i, seen, "AVAL") IN
         /\ \A j \in ItemIds : new[j] = NULL <=> inventory[j] = NULL
         /\ \A j \in ItemIds : new[j].type = inventory[j].type
         /\ \A j \in ItemIds : j # i => new[j] = inventory[j]
         /\ seen # "AVAL" /\ inventory[i] # NULL => new[i].status = "AVAL"
  BY <1>1, <1>2, FlushStatusEffect DEF TypeOK, ClosetTypeOK
<1>7. /\ inventory[i] # NULL /\ inventory'[i] # NULL
      /\ inventory'[i].status = "AVAL"
      /\ \A j \in ItemIds : j # i => inventory'[j] = inventory[j]
      /\ \A j \in ItemIds : inventory'[j].type = inventory[j].type
  BY <1>2, <1>3, <1>5, <1>6 DEF StatusIs
<1>8. Live' = Live \ {r} /\ \A q \in Live' : reservations'[q] = reservations[q]
  BY <1>1, <1>2 DEF Live, TypeOK, ClosetTypeOK
<1>9. \A q \in Live' : reservations[q].item # i
  BY <1>1, <1>3, <1>4, <1>8 DEF UniqueReservation
<1> QED BY <1>2, <1>3, <1>4, <1>7, <1>8, <1>9

LEMMA ReturnFlushSerialStep ==
  ASSUME OneWorker, SerialInv, OnePerTypeInv(Users)', NEW s \in Sessions, ReturnFlush(s)
  PROVE  SerialInv'
<1> DEFINE i == request[s].item
<1>1. TypeOK
  BY DEF SerialInv, OnePerTypeInv, RentalInv
<1>2. AtMostOneBusy' /\ \A t \in Sessions \ {s} : request'[t].at = "idle"
  BY <1>1, StepsAreOfOneRequest, OthersIdle DEF SerialInv, Handle
<1>3. request'[s].at = "idle"
  BY <1>1 DEF ReturnFlush, Done, Idle, TypeOK, ClosetTypeOK
<1>4. \A t \in Sessions : SeenIsCurrent(t)'
  BY <1>2, <1>3 DEF SeenIsCurrent
<1>5. \A j \in ItemIds : Reserved(j)' => Reserved(j) /\ j # i
  BY ReturnsToShelf DEF Reserved
<1>6. \A j \in ItemIds : j # i => inventory'[j] = inventory[j]
  BY ReturnsToShelf
<1>7. AvailableIsFree'
  BY <1>5, <1>6 DEF SerialInv, LedgerConsistent, AvailableIsFree, StatusIs
<1>8. NoStrandedItem'
  BY DEF OnePerTypeInv, RentalInv
<1> QED BY <1>2, <1>4, <1>7, <1>8 DEF SerialInv, LedgerConsistent

LEMMA NextSerialInv ==
  ASSUME OneWorker, SerialInv, [Next]_closetVars
  PROVE  SerialInv'
<1>1. NoRivals(Users) /\ OnePerTypeInv(Users) /\ TypeOK
  BY DEF SerialInv, AtMostOneBusy, NoRivals, OnePerTypeInv, RentalInv
<1>2. OnePerTypeInv(Users)' /\ TypeOK'
  BY <1>1, NextOnePerTypeInv DEF OnePerTypeInv, RentalInv
<1>3. ASSUME NEW s \in Sessions, Start(s) \/ Handle(s) \/ Abort(s) PROVE SerialInv'
  <2>0. StepOf(s)
    BY <1>1, <1>3, StepsAreOfOneRequest
  <2>a. ASSUME Done(s), UNCHANGED tables PROVE SerialInv'
    <3>1. request'[s].at = "idle"
      BY <1>1, <2>a DEF Done, Idle, TypeOK, ClosetTypeOK
    <3>2. SeenIsCurrent(s)'
      BY <3>1 DEF SeenIsCurrent
    <3> QED BY <1>2, <2>0, <2>a, <3>2, QuietSerialStep
  <2>1. ASSUME NEW i \in ItemIds, RentLoad(s, i) PROVE SerialInv'
    <3>1. request' = [request EXCEPT ![s] = [Idle EXCEPT !.at = "rentLoaded", !.item = i,
             !.seen = inventory[i].status, !.type = inventory[i].type]]
      BY <2>1 DEF RentLoad
    <3>2. /\ request'[s].at = "rentLoaded"
          /\ request'[s].item = i
          /\ request'[s].seen = inventory[i].status
      BY <1>1, <3>1 DEF Idle, TypeOK, ClosetTypeOK
    <3>3. SeenIsCurrent(s)'
      BY <2>1, <3>2 DEF SeenIsCurrent, StatusIs, RentLoad
    <3> QED BY <1>2, <2>0, <2>1, <3>3, QuietSerialStep DEF RentLoad
  <2>2. ASSUME RentCheck(s) PROVE SerialInv'
    <3>1. CASE request[s].type \in TypesHeld(UserOf[s])
      BY <2>2, <2>a, <3>1 DEF RentCheck
    <3>2. CASE request' = [request EXCEPT ![s].at = "rentChecked"]
      <4>1. /\ request[s].at = "rentLoaded"
            /\ request'[s].at = "rentChecked"
            /\ request'[s].item = request[s].item
            /\ request'[s].seen = request[s].seen
        BY <1>1, <2>2, <3>2 DEF RentCheck, TypeOK, ClosetTypeOK, Request
      <4>2. SeenIsCurrent(s)'
        BY <2>2, <4>1 DEF RentCheck, SerialInv, SeenIsCurrent, StatusIs
      <4> QED BY <1>2, <2>0, <2>2, <4>2, QuietSerialStep DEF RentCheck
    <3> QED BY <2>2, <3>1, <3>2 DEF RentCheck
  <2>3. ASSUME RentFlush(s) PROVE SerialInv'
    BY <1>2, <2>3, RentFlushSerialStep
  <2>4. ASSUME \/ RentRefused(s) \/ RentMail(s)
               \/ ReturnLost(s) \/ Abort(s)
        PROVE  SerialInv'
    BY <2>4, <2>a DEF RentRefused, RentMail, Send, ReturnLost, Abort
  <2>5. ASSUME NEW r \in ResIds, ReturnLoad(s, r) PROVE SerialInv'
    <3>1. request' = [request EXCEPT ![s] = [Idle EXCEPT
             !.at = "returnLoaded", !.res = r, !.item = reservations[r].item]]
      BY <2>5 DEF ReturnLoad
    <3>2. request'[s].at = "returnLoaded" /\ request'[s].res = r
      BY <1>1, <3>1 DEF Idle, TypeOK, ClosetTypeOK
    <3>3. SeenIsCurrent(s)'
      BY <2>5, <3>2 DEF SeenIsCurrent, ReturnLoad, Live
    <3> QED BY <1>2, <2>0, <2>5, <3>3, QuietSerialStep DEF ReturnLoad
  <2>6. ASSUME ReturnTouch(s) PROVE SerialInv'
    <3>1. /\ request[s].at = "returnLoaded"
          /\ inventory[request[s].item] # NULL
          /\ request' = [request EXCEPT ![s].at = "returnTouched",
                                ![s].seen = inventory[request[s].item].status]
          /\ UNCHANGED tables
      BY <2>6 DEF ReturnTouch
    <3>2. /\ request'[s].at = "returnTouched"
          /\ request'[s].item = request[s].item
          /\ request'[s].res = request[s].res
          /\ request'[s].seen = inventory[request[s].item].status
      BY <1>1, <3>1 DEF TypeOK, ClosetTypeOK, Request
    <3>3. SeenIsCurrent(s)'
      BY <3>1, <3>2 DEF SerialInv, SeenIsCurrent, StatusIs, Live
    <3> QED BY <1>2, <2>0, <3>1, <3>3, QuietSerialStep
  <2>7. ASSUME ReturnFlush(s) PROVE SerialInv'
    BY <1>2, <2>7, ReturnFlushSerialStep
  <2> QED BY <1>3, <2>1, <2>2, <2>3, <2>4, <2>5, <2>6, <2>7 DEF Start, Handle
<1>4. CASE UNCHANGED closetVars
  <2>1. /\ AtMostOneBusy'
        /\ \A s \in Sessions : SeenIsCurrent(s)'
        /\ LedgerConsistent'
    BY <1>4
    DEF closetVars, SerialInv, AtMostOneBusy, Busy, SeenIsCurrent, LedgerConsistent,
        NoStrandedItem, AvailableIsFree, StatusIs, Reserved, Live
  <2> QED BY <1>2, <2>1 DEF SerialInv
<1> QED BY <1>3, <1>4 DEF Next

LEMMA SerialInvHolds ==
  ASSUME OneWorker
  PROVE  Spec => []SerialInv
<1>1. SerialInv /\ [Next]_closetVars => SerialInv'
  BY NextSerialInv
<1> QED BY <1>1, InitSerialInv, PTL DEF Spec

\* With one request at a time an item listed as available is free and one marked
\* as rented is out, for ever.
THEOREM SerialLedgerConsistent ==
  ASSUME OneWorker
  PROVE  Spec => []LedgerConsistent
<1>1. SerialInv => LedgerConsistent
  BY DEF SerialInv
<1> QED BY <1>1, SerialInvHolds, PTL

\* The two things that requests at the same time can break, which the runs over
\* the violated properties show, hold with one request at a time: the first is
\* that what rentAction lists as available is free.
THEOREM SerialAvailableIsFree ==
  ASSUME OneWorker
  PROVE  Spec => []AvailableIsFree
<1>1. SerialInv => AvailableIsFree
  BY DEF SerialInv, LedgerConsistent
<1> QED BY <1>1, SerialInvHolds, PTL

LEMMA ReturnFreesItem ==
  ASSUME SerialInv, SerialInv', NEW s \in Sessions, ReturnFlush(s),
         NEW i \in ItemIds, request[s].item = i
  PROVE  StatusIs(i, "AVAL")' /\ ~Reserved(i)'
<1>1. StatusIs(i, "AVAL")'
  BY ReturnsToShelf DEF StatusIs
<1>2. AvailableIsFree'
  BY DEF SerialInv, LedgerConsistent
<1> QED BY <1>1, <1>2 DEF AvailableIsFree

\* The second: a return (deleteAction) leaves its item available and free, also
\* where flush() issues no UPDATE because the item was found available.
THEOREM SerialReturnsFree ==
  ASSUME OneWorker
  PROVE  Spec => ReturnedItemsAreFree
<1>1. SerialInv /\ [Next]_closetVars => SerialInv'
  BY NextSerialInv
<1>2. SerialInv /\ SerialInv' /\ [Next]_closetVars =>
        [\A s \in Sessions, i \in ItemIds :
           request[s].item = i /\ ReturnFlush(s)
             => StatusIs(i, "AVAL")' /\ ~Reserved(i)']_closetVars
  <2> SUFFICES ASSUME SerialInv, SerialInv', NEW s \in Sessions, ReturnFlush(s),
                      NEW i \in ItemIds, request[s].item = i
               PROVE  StatusIs(i, "AVAL")' /\ ~Reserved(i)'
    OBVIOUS
  <2> QED BY ReturnFreesItem
<1> QED BY <1>1, <1>2, InitSerialInv, PTL DEF Spec, ReturnedItemsAreFree

-----------------------------------------------------------------------------
(* Lending implements the ledger.                                          *)

\* No item of Rental waits for a verdict or for its arrival.
InCirculation ==
  \A i \in ItemIds : inventory[i] # NULL => inventory[i].status \in {"AVAL", "RENTED"}

LedgerInv == SerialInv /\ InCirculation

LEMMA InitLedgerInv == Init => LedgerInv
<1> SUFFICES ASSUME Init PROVE LedgerInv
  OBVIOUS
<1>1. \A i \in ItemIds : inventory[i].status = "AVAL"
  BY DEF Init
<1> QED BY <1>1, InitSerialInv DEF LedgerInv, InCirculation

\* A step that is no flush() leaves the tables alone.
LEMMA OnlyFlushWrites ==
  ASSUME [Next]_closetVars
  PROVE  \/ \E s \in Sessions : RentFlush(s)
         \/ \E s \in Sessions : ReturnFlush(s)
         \/ UNCHANGED tables
BY DEF Next, Start, Handle, closetVars, RentLoad, RentCheck, RentRefused, RentMail, Send,
       ReturnLoad, ReturnTouch, ReturnLost, Abort

LEMMA NextLedgerInv ==
  ASSUME OneWorker, LedgerInv, [Next]_closetVars
  PROVE  LedgerInv'
<1>1. SerialInv /\ SerialInv'
  BY NextSerialInv DEF LedgerInv
<1>2. ASSUME NEW s \in Sessions, RentFlush(s) PROVE InCirculation'
  BY <1>1, <1>2, LendsFromShelf DEF LedgerInv, InCirculation
<1>3. ASSUME NEW s \in Sessions, ReturnFlush(s) PROVE InCirculation'
  BY <1>1, <1>3, ReturnsToShelf DEF LedgerInv, InCirculation
<1>4. ASSUME UNCHANGED tables PROVE InCirculation'
  BY <1>4 DEF LedgerInv, InCirculation
<1> QED BY <1>1, <1>2, <1>3, <1>4, OnlyFlushWrites DEF LedgerInv

\* The holder of a reserved item is the user of its reservation, and an item
\* that is not reserved has none.
HoldersKnown ==
  /\ \A r \in Live : Holder(reservations[r].item) = reservations[r].user
  /\ \A i \in ItemIds : ~Reserved(i) => Holder(i) = NULL

LEMMA HoldersAreKnown == UniqueReservation => HoldersKnown
<1> SUFFICES ASSUME UniqueReservation, NEW r \in Live
             PROVE  Holder(reservations[r].item) = reservations[r].user
  BY DEF HoldersKnown, Holder
<1> DEFINE q == ReservationOf(reservations[r].item)
<1>1. q \in Live /\ reservations[q].item = reservations[r].item
  BY DEF ReservationOf
<1>2. q = r
  BY <1>1 DEF UniqueReservation
<1> QED BY <1>2 DEF Holder, Reserved

\* The same of the next state.
LEMMA HoldersAreKnownNext == UniqueReservation' => HoldersKnown'
BY HoldersAreKnown, PTL

LEMMA InitLedger == Init => Ledger!Init
<1> SUFFICES ASSUME Init PROVE Ledger!Init
  OBVIOUS
<1>1. \A i \in ItemIds : ~Reserved(i)
  BY DEF Init, Reserved, Live
<1>2. \A i \in ItemIds : StatusIs(i, "AVAL") /\ inventory[i].type \in Types
  <2>1. \A i \in ItemIds :
           inventory[i] \in [status : {"AVAL"}, type : Types, user : {NULL}]
    BY DEF Init
  <2>2. \A row \in [status : {"AVAL"}, type : Types, user : {NULL}] :
           row \in InventoryRow /\ row.status = "AVAL" /\ row.type \in Types
    BY DEF InventoryRow, Statuses
  <2> QED BY <2>1, <2>2, RowIsNotNull DEF StatusIs
<1>3. Loans = [i \in ItemIds |-> NULL]
  BY <1>1 DEF Loans, Holder
<1> QED BY <1>2, <1>3 DEF Ledger!Init, Shelf, Kinds

\* A rental's flush() is the ledger's Lend.
LEMMA RentFlushLends ==
  ASSUME LedgerInv, SerialInv', NEW s \in Sessions, RentFlush(s)
  PROVE  Ledger!Lend(UserOf[s], request[s].item) /\ request[s].item \in ItemIds
<1> DEFINE i == request[s].item
           u == UserOf[s]
           n == nextReservation
<1>1. RentalInv /\ UniqueReservation /\ CheckStands(s, Users) /\ UniqueReservation'
  BY DEF LedgerInv, SerialInv, OnePerTypeInv, RentalInv
<1>2. HoldersKnown /\ HoldersKnown'
  BY <1>1, HoldersAreKnown, HoldersAreKnownNext
<1>3. /\ i \in ItemIds
      /\ StatusIs(i, "AVAL")
      /\ \A j \in ItemIds : j = i => ~StatusIs(j, "AVAL")'
      /\ \A j \in ItemIds : j # i => inventory'[j] = inventory[j]
      /\ \A j \in ItemIds : inventory'[j].type = inventory[j].type
  <2>1. /\ i \in ItemIds
        /\ inventory[i] # NULL
        /\ inventory'[i].status = "RENTED"
        /\ request[s].seen # "RENTED"
        /\ StatusIs(i, request[s].seen)
        /\ \A j \in ItemIds : j # i => inventory'[j] = inventory[j]
        /\ \A j \in ItemIds : inventory'[j].type = inventory[j].type
    BY LendsFromShelf DEF LedgerInv
  <2>2. StatusIs(i, "AVAL")
    BY <2>1 DEF LedgerInv, InCirculation, StatusIs
  <2> QED BY <2>1, <2>2 DEF StatusIs
<1>4. /\ Live' = Live \cup {n}
      /\ \A r \in Live : reservations'[r] = reservations[r]
      /\ reservations'[n].user = u
      /\ reservations'[n].item = i
      /\ ~Reserved(i)
  <2>1. Inserts(s)
    BY <1>1, RentFlushInserts
  <2> QED BY <2>1 DEF Inserts
<1>5. Shelf' = Shelf \ {i} /\ i \in Shelf
  <2>1. \A j \in ItemIds : j \in Shelf' <=> j \in Shelf /\ j # i
    BY <1>3 DEF Shelf, StatusIs
  <2> QED BY <1>3, <2>1 DEF Shelf
<1>6. Kinds' = Kinds
  BY <1>3 DEF Kinds
<1>7. ASSUME NEW j \in ItemIds PROVE Holder(j)' = IF j = i THEN u ELSE Holder(j)
  <2>1. CASE j = i
    BY <1>2, <1>4, <2>1 DEF HoldersKnown
  <2>2. CASE j # i /\ Reserved(j)
    <3>1. PICK r \in Live : reservations[r].item = j
      BY <2>2 DEF Reserved
    <3>2. r \in Live' /\ reservations'[r] = reservations[r]
      BY <1>4
    <3> QED BY <1>2, <2>2, <3>1, <3>2 DEF HoldersKnown
  <2>3. CASE j # i /\ ~Reserved(j)
    <3>1. ~Reserved(j)'
      BY <1>4, <2>3 DEF Reserved
    <3> QED BY <1>2, <2>3, <3>1 DEF HoldersKnown
  <2> QED BY <2>1, <2>2, <2>3
<1>8. Loans' = [Loans EXCEPT ![i] = u]
  BY <1>3, <1>7 DEF Loans
<1>9. ASSUME NEW j \in ItemIds, Holder(j) = u
      PROVE  inventory[j].type # inventory[i].type
  <2>1. u # NULL
    BY SessionsAssumption, NullAssumption
  <2>2. PICK r \in Live : reservations[r].item = j
    BY <1>2, <1>9, <2>1 DEF HoldersKnown, Reserved
  <2>3. reservations[r].user = u
    BY <1>2, <1>9, <2>2 DEF HoldersKnown
  <2>4. inventory[i].type \notin TypesHeld(u)
    BY <1>1, <1>3, SessionsAssumption DEF CheckStands, RentFlush, StatusIs
  <2> QED BY <2>2, <2>3, <2>4 DEF TypesHeld, ReservationsOf
<1>10. \A j \in ItemIds : Loans[j] = u => Kinds[j] # Kinds[i]
  BY <1>3, <1>9 DEF Loans, Kinds
<1> QED BY <1>3, <1>5, <1>6, <1>8, <1>10 DEF Ledger!Lend

\* A return's flush() is the ledger's GiveBack.
LEMMA ReturnFlushGivesBack ==
  ASSUME LedgerInv, SerialInv', NEW s \in Sessions, ReturnFlush(s)
  PROVE  Ledger!GiveBack(request[s].item) /\ request[s].item \in ItemIds
<1> DEFINE i == request[s].item
           r == request[s].res
<1>1. UniqueReservation /\ UniqueReservation' /\ TypeOK
  BY DEF LedgerInv, SerialInv, OnePerTypeInv, RentalInv
<1>2. HoldersKnown /\ HoldersKnown'
  BY <1>1, HoldersAreKnown, HoldersAreKnownNext
<1>3. /\ i \in ItemIds
      /\ \A j \in ItemIds : j = i => StatusIs(j, "AVAL")'
      /\ \A j \in ItemIds : j # i => inventory'[j] = inventory[j]
      /\ \A j \in ItemIds : inventory'[j].type = inventory[j].type
      /\ r \in Live
      /\ reservations[r].item = i
      /\ Live' = Live \ {r}
      /\ \A q \in Live' : reservations'[q] = reservations[q]
      /\ \A q \in Live' : reservations[q].item # i
  <2>1. SerialInv
    BY DEF LedgerInv
  <2>2. LET k == request[s].item IN
          /\ k \in ItemIds
          /\ inventory'[k] # NULL /\ inventory'[k].status = "AVAL"
          /\ \A j \in ItemIds : j # k => inventory'[j] = inventory[j]
          /\ \A j \in ItemIds : inventory'[j].type = inventory[j].type
    BY <2>1, ReturnsToShelf
  <2>3. /\ \A j \in ItemIds : j = i => StatusIs(j, "AVAL")'
        /\ \A j \in ItemIds : j # i => inventory'[j] = inventory[j]
    BY <2>2 DEF StatusIs
  <2> QED BY <2>1, <2>2, <2>3, ReturnsToShelf
<1>4. Shelf' = Shelf \cup {i}
  <2>1. \A j \in ItemIds : j \in Shelf' <=> j \in Shelf \/ j = i
    BY <1>3 DEF Shelf, StatusIs
  <2> QED BY <1>3, <2>1 DEF Shelf
<1>5. Kinds' = Kinds
  BY <1>3 DEF Kinds
<1>6. Holder(i) # NULL
  <2>1. reservations[r].user \in Users
    BY <1>1, <1>3 DEF TypeOK, ClosetTypeOK, Live, ReservationRow
  <2> QED BY <1>2, <1>3, <2>1, NullAssumption DEF HoldersKnown
<1>7. ASSUME NEW j \in ItemIds PROVE Holder(j)' = IF j = i THEN NULL ELSE Holder(j)
  <2>1. CASE j = i
    <3>1. ~Reserved(j)'
      BY <1>3, <2>1 DEF Reserved
    <3> QED BY <1>2, <2>1, <3>1 DEF HoldersKnown
  <2>2. CASE j # i /\ Reserved(j)
    <3>1. PICK q \in Live : reservations[q].item = j
      BY <2>2 DEF Reserved
    <3>2. q \in Live' /\ reservations'[q] = reservations[q]
      BY <1>3, <2>2, <3>1
    <3> QED BY <1>2, <2>2, <3>1, <3>2 DEF HoldersKnown
  <2>3. CASE j # i /\ ~Reserved(j)
    <3>1. ~Reserved(j)'
      BY <1>3, <2>3 DEF Reserved
    <3> QED BY <1>2, <2>3, <3>1 DEF HoldersKnown
  <2> QED BY <2>1, <2>2, <2>3
<1>8. Loans' = [Loans EXCEPT ![i] = NULL]
  BY <1>3, <1>7 DEF Loans
<1>9. Loans[i] # NULL
  BY <1>3, <1>6 DEF Loans
<1> QED BY <1>3, <1>4, <1>5, <1>8, <1>9 DEF Ledger!GiveBack

\* With one request at a time renting implements the ledger: each loan and each
\* return is one atomic step, and nothing else a request does shows in it.
THEOREM RentalImplementsLedger ==
  ASSUME OneWorker
  PROVE  Spec => ImplementsLedger
<1>1. LedgerInv /\ [Next]_closetVars => LedgerInv'
  BY NextLedgerInv
<1>2. LedgerInv /\ LedgerInv' /\ [Next]_closetVars => [Ledger!Next]_(Ledger!vars)
  <2> SUFFICES ASSUME LedgerInv, LedgerInv', [Next]_closetVars
               PROVE  [Ledger!Next]_(Ledger!vars)
    OBVIOUS
  <2>1. ASSUME NEW s \in Sessions, RentFlush(s) PROVE Ledger!Next
    <3>1. UserOf[s] \in Users
      BY SessionsAssumption
    <3> QED BY <2>1, <3>1, RentFlushLends DEF LedgerInv, Ledger!Next
  <2>2. ASSUME NEW s \in Sessions, ReturnFlush(s) PROVE Ledger!Next
    BY <2>2, ReturnFlushGivesBack DEF LedgerInv, Ledger!Next
  <2>3. ASSUME UNCHANGED tables PROVE UNCHANGED Ledger!vars
    BY <2>3
    DEF Ledger!vars, Shelf, Loans, Kinds, Holder, ReservationOf, Reserved, StatusIs, Live
  <2> QED BY <2>1, <2>2, <2>3, OnlyFlushWrites
<1> QED BY <1>1, <1>2, InitLedgerInv, InitLedger, PTL DEF Spec, ImplementsLedger, Ledger!Spec
=============================================================================
