---------------------------- MODULE ClosetProofs ----------------------------
(***************************************************************************)
(* Proofs about WuRegalia, for any set of users, sessions, items and       *)
(* types, any number of workers and any number of reservations: rentals,   *)
(* returns, requests and verdicts, all at once.                            *)
(***************************************************************************)
EXTENDS WuRegalia, RentalProofs

USE DEF tables, ItemlessPoints

-----------------------------------------------------------------------------
(* Types.                                                                    *)

\* The points of the handlers of Rental, and those of Requests.
RentalPoints == {"rentLoaded", "rentChecked", "rentCommitted", "returnLoaded", "returnTouched"}

\* A step of Requests that does not touch the tables, and moves one request.
LEMMA MovedTypeOK ==
  ASSUME SystemTypeOK, NEW s \in Sessions, NEW q \in Request,
         q.at \notin RentalPoints,
         q.at \notin ItemlessPoints => q.item \in ItemIds,
         q.at = "submitLoaded" => q.seen \in Pending /\ q.type \in Types,
         q.at = "acceptLoaded" => q.seen \in Statuses,
         request' = [request EXCEPT ![s] = q],
         users' \subseteq Users,
         inventory' \in [ItemIds -> InventoryRow \cup {NULL}],
         UNCHANGED <<reservations, nextReservation>>,
         freshItems' \subseteq ItemIds,
         sent' \subseteq Mail
  PROVE  SystemTypeOK'
<1>1. \A t \in Sessions : request'[t] = IF t = s THEN q ELSE request[t]
  BY DEF SystemTypeOK, TypeOK, ClosetTypeOK
<1>2. ClosetTypeOK'
  BY DEF SystemTypeOK, TypeOK, ClosetTypeOK
<1>3. TypeOK'
  BY <1>1, <1>2 DEF SystemTypeOK, TypeOK, RentalPoints
<1> QED BY <1>1, <1>3 DEF SystemTypeOK

\* A step of Rental moves no request to a point of Requests.
LEMMA RentalMoves ==
  ASSUME TypeOK, [Next]_closetVars, NEW t \in Sessions
  PROVE  request'[t] = request[t] \/ request'[t].at \in RentalPoints \cup {"idle"}
<1> USE DEF RentalPoints
<1>0. Idle.at = "idle"
  BY DEF Idle
<1>a. ASSUME NEW s \in Sessions, Done(s)
      PROVE  request'[t] = request[t] \/ request'[t].at = "idle"
  BY <1>0, <1>a DEF Done, TypeOK, ClosetTypeOK
<1>1. ASSUME NEW s \in Sessions, NEW i \in ItemIds, RentLoad(s, i)
      PROVE  request'[t] = request[t] \/ request'[t].at = "rentLoaded"
  BY <1>1 DEF RentLoad, Idle, TypeOK, ClosetTypeOK
<1>2. ASSUME NEW s \in Sessions, RentCheck(s)
      PROVE  request'[t] = request[t] \/ request'[t].at \in {"rentChecked", "idle"}
  <2>1. CASE Done(s)
    BY <1>a, <2>1
  <2>2. CASE request' = [request EXCEPT ![s].at = "rentChecked"]
    BY <2>2 DEF TypeOK, ClosetTypeOK, Request
  <2> QED BY <1>2, <2>1, <2>2 DEF RentCheck
<1>3. ASSUME NEW s \in Sessions, RentFlush(s)
      PROVE  request'[t] = request[t] \/ request'[t].at = "rentCommitted"
  BY <1>3 DEF RentFlush, TypeOK, ClosetTypeOK, Request
<1>4. ASSUME NEW s \in Sessions, NEW r \in ResIds, ReturnLoad(s, r)
      PROVE  request'[t] = request[t] \/ request'[t].at = "returnLoaded"
  BY <1>4 DEF ReturnLoad, Idle, TypeOK, ClosetTypeOK
<1>5. ASSUME NEW s \in Sessions, ReturnTouch(s)
      PROVE  request'[t] = request[t] \/ request'[t].at = "returnTouched"
  BY <1>5 DEF ReturnTouch, TypeOK, ClosetTypeOK, Request
<1>6. ASSUME NEW s \in Sessions, Done(s)
             \/ RentRefused(s) \/ RentMail(s) \/ ReturnLost(s) \/ ReturnFlush(s) \/ Abort(s)
      PROVE  request'[t] = request[t] \/ request'[t].at = "idle"
  BY <1>a, <1>6 DEF RentRefused, RentMail, Send, ReturnLost, ReturnFlush, Abort
<1>7. CASE UNCHANGED closetVars
  BY <1>7 DEF closetVars
<1> QED
  BY <1>1, <1>2, <1>3, <1>4, <1>5, <1>6, <1>7 DEF Next, Start, Handle

LEMMA RentalKeepsSystemTypeOK ==
  ASSUME SystemTypeOK, [Next]_closetVars
  PROVE  SystemTypeOK'
<1>1. TypeOK'
  BY NextTypeOK DEF SystemTypeOK
<1>2. ASSUME NEW t \in Sessions
      PROVE  request'[t] = request[t] \/ request'[t].at \notin {"submitLoaded", "acceptLoaded"}
  BY RentalMoves DEF SystemTypeOK, RentalPoints
<1> QED BY <1>1, <1>2 DEF SystemTypeOK

-----------------------------------------------------------------------------
(* Items only age.                                                           *)

\* What a step may do to an item whose id has been given out.
Ages ==
  /\ freshItems' \subseteq freshItems
  /\ \A i \in freshItems' : inventory'[i] = NULL
  /\ \A i \in ItemIds \ freshItems : inventory'[i] # NULL =>
       /\ inventory[i] # NULL
       /\ inventory'[i].user = inventory[i].user /\ inventory'[i].type = inventory[i].type
       /\ inventory'[i].status \in Pending => inventory[i].status \in Pending

LEMMA AgedStays ==
  ASSUME Ages, NEW i \in ItemIds
  PROVE  /\ Decided(i) => Decided(i)'
         /\ Dropped(i) => Dropped(i)'
         /\ \A u : Belongs(i, u) => Belongs(i, u)'
BY DEF Ages, Decided, Dropped, Belongs

\* flush() leaves the user and the type of a row alone, and the statuses that the handlers
\* set are none under which a request waits.
LEMMA FlushAges ==
  ASSUME SystemTypeOK, FreshHaveNoRow, NEW i \in ItemIds, NEW seen,
         NEW status \in {"RENTED", "AVAL", "PENDING_ARRIVAL"},
         inventory' = FlushStatus(i, seen, status), UNCHANGED freshItems
  PROVE  Ages /\ \A j \in ItemIds : inventory'[j] = NULL <=> inventory[j] = NULL
<1>1. inventory \in [ItemIds -> InventoryRow \cup {NULL}] /\ status \in Statuses
  BY DEF SystemTypeOK, TypeOK, ClosetTypeOK, Statuses
<1>2. \A j \in ItemIds : inventory'[j] = NULL <=> inventory[j] = NULL
  BY <1>1, FlushStatusEffect
<1>3. freshItems \subseteq ItemIds
  BY DEF SystemTypeOK, TypeOK, ClosetTypeOK
<1>4. CASE inventory' = inventory
  BY <1>2, <1>3, <1>4 DEF Ages, FreshHaveNoRow
<1>5. CASE inventory' = [inventory EXCEPT ![i].status = status] /\ inventory[i] # NULL
  <2>1. inventory[i] \in InventoryRow
    BY <1>1, <1>5
  <2>2. /\ inventory'[i].status = status
        /\ inventory'[i].user = inventory[i].user /\ inventory'[i].type = inventory[i].type
    BY <1>1, <1>5, <2>1 DEF InventoryRow
  <2>3. \A j \in ItemIds \ {i} : inventory'[j] = inventory[j]
    BY <1>1, <1>5
  <2> QED BY <1>2, <1>3, <1>5, <2>2, <2>3 DEF Ages, FreshHaveNoRow, Pending
<1> QED BY <1>2, <1>4, <1>5 DEF FlushStatus

LEMMA RentalAges ==
  ASSUME SystemTypeOK, FreshHaveNoRow, [Next]_closetVars
  PROVE  Ages /\ \A j \in ItemIds : inventory'[j] = NULL <=> inventory[j] = NULL
<1>a. ASSUME UNCHANGED <<inventory, freshItems>>
      PROVE  Ages /\ \A j \in ItemIds : inventory'[j] = NULL <=> inventory[j] = NULL
  BY <1>a DEF Ages, FreshHaveNoRow
<1>1. ASSUME NEW s \in Sessions, RentFlush(s)
      PROVE  Ages /\ \A j \in ItemIds : inventory'[j] = NULL <=> inventory[j] = NULL
  <2>1. request[s].item \in ItemIds
    BY <1>1 DEF RentFlush, SystemTypeOK, TypeOK
  <2> QED BY <1>1, <2>1, FlushAges DEF RentFlush
<1>2. ASSUME NEW s \in Sessions, ReturnFlush(s)
      PROVE  Ages /\ \A j \in ItemIds : inventory'[j] = NULL <=> inventory[j] = NULL
  <2>1. request[s].item \in ItemIds
    BY <1>2 DEF ReturnFlush, SystemTypeOK, TypeOK
  <2> QED BY <1>2, <2>1, FlushAges DEF ReturnFlush
<1>3. ASSUME NEW s \in Sessions, Start(s) \/ (Handle(s) /\ ~RentFlush(s) /\ ~ReturnFlush(s)) \/ Abort(s)
      PROVE  UNCHANGED <<inventory, freshItems>>
  BY <1>3 DEF Start, Handle, RentLoad, ReturnLoad, RentCheck, RentRefused, RentMail, Send,
              ReturnTouch, ReturnLost, Abort
<1>4. CASE UNCHANGED closetVars
  BY <1>4, <1>a DEF closetVars
<1> QED BY <1>a, <1>1, <1>2, <1>3, <1>4 DEF Next, Handle

\* A request that does not move, and a mail that has been sent, stay right.
LEMMA InHandStays ==
  ASSUME SystemTypeOK, Ages, NEW t \in Sessions, InHand(t), request'[t] = request[t]
  PROVE  InHand(t)'
<1>1. CASE request[t].at \in ItemlessPoints
  BY <1>1 DEF InHand
<1>2. CASE request[t].at \notin ItemlessPoints
  <2>1. request[t].item \in ItemIds
    BY <1>2 DEF SystemTypeOK, TypeOK
  <2>2. request[t].item \notin freshItems'
    BY <1>2 DEF InHand, Ages
  <2> QED BY <1>2, <2>1, <2>2, AgedStays DEF InHand
<1> QED BY <1>1, <1>2

LEMMA ToldStays ==
  ASSUME SystemTypeOK, Ages, NEW m \in sent, Told(m)
  PROVE  Told(m)'
<1>1. m.item \in ItemIds
  BY DEF SystemTypeOK, TypeOK, ClosetTypeOK, Mail
<1> QED BY <1>1, AgedStays DEF Told

-----------------------------------------------------------------------------
(* The steps of Rental.                                                      *)

\* What a request of Rental has in hand exists, or was in hand before.
LEMMA RentalHands ==
  ASSUME SystemTypeOK, ReservedAreCatalogued, [Next]_closetVars, NEW t \in Sessions
  PROVE  \/ request'[t] = request[t]
         \/ request'[t].at = "idle"
         \/ /\ request'[t].at \in RentalPoints
            /\ \/ request[t].at \notin ItemlessPoints /\ request'[t].item = request[t].item
               \/ inventory[request'[t].item] # NULL /\ request'[t].item \in ItemIds
<1> USE DEF RentalPoints
<1>0. request \in [Sessions -> Request] /\ Idle.at = "idle"
  BY DEF SystemTypeOK, TypeOK, ClosetTypeOK, Idle
<1>1. ASSUME NEW s \in Sessions, NEW i \in ItemIds, RentLoad(s, i)
      PROVE  \/ request'[t] = request[t]
             \/ request'[t].at = "rentLoaded" /\ request'[t].item = i /\ inventory[i] # NULL
  BY <1>0, <1>1 DEF RentLoad, Idle
<1>2. ASSUME NEW s \in Sessions, NEW r \in ResIds, ReturnLoad(s, r)
      PROVE  \/ request'[t] = request[t]
             \/ /\ request'[t].at = "returnLoaded" /\ request'[t].item = reservations[r].item
                /\ inventory[reservations[r].item] # NULL /\ reservations[r].item \in ItemIds
  <2>1. reservations[r] \in ReservationRow /\ inventory[reservations[r].item] # NULL
    BY <1>2 DEF ReturnLoad, Live, ReservedAreCatalogued, SystemTypeOK, TypeOK, ClosetTypeOK
  <2>2. reservations[r].item \in ItemIds
    BY <2>1 DEF ReservationRow
  <2> QED BY <1>0, <1>2, <2>1, <2>2 DEF ReturnLoad, Idle
<1>3. ASSUME NEW s \in Sessions, RentCheck(s) \/ RentFlush(s) \/ ReturnTouch(s)
      PROVE  \/ request'[t] = request[t]
             \/ request'[t].at = "idle"
             \/ /\ request[t].at \notin ItemlessPoints /\ request'[t].item = request[t].item
                /\ request'[t].at \in RentalPoints
  <2>1. ASSUME NEW at \in RentalPoints, NEW res, NEW seen,
               request' = [request EXCEPT ![s] = Moved(request[s], at, res, seen)],
               request[s].at \notin ItemlessPoints
        PROVE  \/ request'[t] = request[t]
               \/ /\ request[t].at \notin ItemlessPoints /\ request'[t].item = request[t].item
                  /\ request'[t].at \in RentalPoints
    <3>1. request'[s] = Moved(request[s], at, res, seen)
      BY <1>0, <2>1
    <3>2. request[s] \in Request
      BY <1>0
    <3>3. request'[s].at = at /\ request'[s].item = request[s].item
      BY <3>1, <3>2 DEF Moved, Request
    <3>4. request'[t] = IF t = s THEN request'[s] ELSE request[t]
      BY <1>0, <2>1
    <3> QED BY <2>1, <3>3, <3>4
  <2>2. CASE Done(s)
    BY <1>0, <2>2 DEF Done
  <2>3. CASE /\ request[s].at = "rentLoaded"
             /\ request' = [request EXCEPT ![s].at = "rentChecked"]
    <3>1. request' = [request EXCEPT ![s] =
                        Moved(request[s], "rentChecked", request[s].res, request[s].seen)]
      BY <1>0, <2>3 DEF Moved, Request
    <3> QED BY <2>1, <2>3, <3>1
  <2>4. CASE RentFlush(s)
    <3>1. request' = [request EXCEPT ![s] =
                        Moved(request[s], "rentCommitted", nextReservation, request[s].seen)]
      BY <1>0, <2>4 DEF RentFlush, Moved, Request
    <3>2. request[s].at = "rentChecked"
      BY <2>4 DEF RentFlush
    <3> QED BY <2>1, <3>1, <3>2
  <2>5. CASE ReturnTouch(s)
    <3>1. request' = [request EXCEPT ![s] =
                        Moved(request[s], "returnTouched", request[s].res,
                              inventory[request[s].item].status)]
      BY <1>0, <2>5 DEF ReturnTouch, Moved, Request
    <3>2. request[s].at = "returnLoaded"
      BY <2>5 DEF ReturnTouch
    <3> QED BY <2>1, <3>1, <3>2
  <2> QED BY <1>3, <2>2, <2>3, <2>4, <2>5 DEF RentCheck
<1>4. ASSUME NEW s \in Sessions,
             \/ RentRefused(s) \/ RentMail(s) \/ ReturnLost(s) \/ ReturnFlush(s) \/ Abort(s)
      PROVE  request'[t] = request[t] \/ request'[t].at = "idle"
  BY <1>0, <1>4 DEF RentRefused, RentMail, Send, ReturnLost, ReturnFlush, Abort, Done
<1>5. CASE UNCHANGED closetVars
  BY <1>5 DEF closetVars
<1> QED BY <1>1, <1>2, <1>3, <1>4, <1>5 DEF Next, Start, Handle

LEMMA RentalKeepsReserved ==
  ASSUME SystemTypeOK, RentalInv, ReservedAreCatalogued, FreshHaveNoRow, [Next]_closetVars
  PROVE  ReservedAreCatalogued'
<1>0. \A j \in ItemIds : inventory'[j] = NULL <=> inventory[j] = NULL
  BY RentalAges
<1>1. ASSUME NEW r \in Live PROVE reservations[r].item \in ItemIds
  BY <1>1 DEF Live, ReservationRow, SystemTypeOK, TypeOK, ClosetTypeOK
<1>2. ASSUME NEW s \in Sessions, RentFlush(s) PROVE ReservedAreCatalogued'
  <2>1. Inserts(s)
    BY <1>2, RentFlushInserts
  <2>2. inventory[request[s].item] # NULL
    BY <1>2 DEF RentFlush, Insertable, CanReserve
  <2> QED BY <1>0, <1>1, <2>1, <2>2 DEF Inserts, ReservedAreCatalogued
<1>3. ASSUME NEW s \in Sessions, ReturnFlush(s) PROVE ReservedAreCatalogued'
  <2>1. \A r \in Live' : r \in Live /\ reservations'[r] = reservations[r]
    BY <1>3 DEF ReturnFlush, Live, SystemTypeOK, TypeOK, ClosetTypeOK
  <2> QED BY <1>0, <1>1, <2>1 DEF ReservedAreCatalogued
<1>4. ASSUME NEW s \in Sessions, Start(s) \/ (Handle(s) /\ ~RentFlush(s) /\ ~ReturnFlush(s)) \/ Abort(s)
      PROVE  UNCHANGED reservations
  BY <1>4 DEF Start, Handle, RentLoad, ReturnLoad, RentCheck, RentRefused, RentMail, Send,
              ReturnTouch, ReturnLost, Abort
<1>5. ASSUME UNCHANGED reservations PROVE ReservedAreCatalogued'
  BY <1>0, <1>1, <1>5 DEF ReservedAreCatalogued, Live
<1> QED BY <1>2, <1>3, <1>4, <1>5 DEF Next, Handle, closetVars

\* A step of Rental sends at most a confirmation.
LEMMA RentalMails ==
  ASSUME [Next]_closetVars
  PROVE  \A m \in sent' \ sent : m.kind = "rented"
<1>1. ASSUME NEW s \in Sessions, RentMail(s) PROVE \A m \in sent' \ sent : m.kind = "rented"
  BY <1>1 DEF RentMail, Send, Confirmation
<1>2. ASSUME NEW s \in Sessions, Start(s) \/ (Handle(s) /\ ~RentMail(s)) \/ Abort(s)
      PROVE  UNCHANGED sent
  BY <1>2 DEF Start, Handle, RentLoad, ReturnLoad, RentCheck, RentFlush, RentRefused,
              ReturnTouch, ReturnLost, ReturnFlush, Abort
<1> QED BY <1>1, <1>2 DEF Next, Handle, closetVars

LEMMA RentalStep == ClosetInv /\ [Next]_closetVars => ClosetInv'
<1> SUFFICES ASSUME ClosetInv, [Next]_closetVars PROVE ClosetInv'
  OBVIOUS
<1> USE DEF ClosetInv
<1>1. SystemTypeOK' /\ RentalInv' /\ ReservedAreCatalogued'
  BY RentalKeepsSystemTypeOK, NextRentalInv, RentalKeepsReserved
<1>2. Ages
  BY RentalAges
<1>3. FreshHaveNoRow'
  BY <1>2 DEF Ages, FreshHaveNoRow
<1>4. ASSUME NEW t \in Sessions PROVE InHand(t)'
  <2>1. CASE request'[t] = request[t]
    BY <1>2, <2>1, InHandStays
  <2>2. CASE request'[t].at = "idle"
    BY <2>2 DEF InHand
  <2>3. CASE /\ request'[t].at \in RentalPoints
             /\ \/ request[t].at \notin ItemlessPoints /\ request'[t].item = request[t].item
                \/ inventory[request'[t].item] # NULL /\ request'[t].item \in ItemIds
    <3>1. request'[t].item \notin freshItems
      BY <2>3 DEF InHand, FreshHaveNoRow
    <3>2. request'[t].item \notin freshItems'
      BY <1>2, <3>1 DEF Ages
    <3> QED BY <2>3, <3>2 DEF InHand, RentalPoints
  <2> QED BY <2>1, <2>2, <2>3, RentalHands
<1>5. \A m \in sent' : Told(m)'
  BY <1>2, ToldStays, RentalMails DEF Told
<1> QED BY <1>1, <1>3, <1>4, <1>5

-----------------------------------------------------------------------------
(* The steps of Requests. Each moves one request, to q.                      *)

\* What q has to be, of itself.
Fits(q) ==
  /\ q \in Request
  /\ q.at \notin RentalPoints
  /\ q.at \notin ItemlessPoints => q.item \in ItemIds
  /\ q.at = "submitLoaded" => q.seen \in Pending /\ q.type \in Types
  /\ q.at = "acceptLoaded" => q.seen \in Statuses

\* The mail that goes out, if one does, tells what is so.
MailsRightly ==
  \/ UNCHANGED sent
  \/ \E m \in Mail : m.kind # "rented" /\ Told(m)' /\ sent' = sent \cup {m}

\* Verdicts and new requests strand no item, put none on the shelf and lose no
\* reserved one.
LeavesReservations ==
  /\ UNCHANGED <<users, reservations, nextReservation>>
  /\ \A i \in ItemIds : StatusIs(i, "RENTED")' => StatusIs(i, "RENTED")
  /\ \A i \in ItemIds : StatusIs(i, "AVAL")' => StatusIs(i, "AVAL")
  /\ \A i \in ItemIds : Reserved(i) /\ inventory[i] # NULL => inventory'[i] # NULL

LEMMA BoardKeepsRentalInv ==
  ASSUME RentalInv, TypeOK', NEW s \in Sessions, NEW q, Fits(q),
         request' = [request EXCEPT ![s] = q],
         LeavesReservations, MailsRightly
  PROVE  RentalInv'
<1>0. \A t \in Sessions : request'[t] = IF t = s THEN q ELSE request[t]
  BY DEF RentalInv, TypeOK, ClosetTypeOK
<1>1. UNCHANGED <<reservations, nextReservation>> /\ Live' = Live
  BY DEF LeavesReservations, Live
<1>2. \A i : Reserved(i)' = Reserved(i)
  BY <1>1 DEF Reserved
<1>3. IdsIssued' /\ UniqueReservation'
  BY <1>1 DEF RentalInv, IdsIssued, UniqueReservation
<1>4. NoStrandedItem'
  BY <1>2 DEF RentalInv, NoStrandedItem, LeavesReservations
<1>5. Confirmations' = Confirmations
  BY DEF MailsRightly, Confirmations
<1>6. ConfirmationsAreHonest'
  BY <1>1, <1>5 DEF RentalInv, ConfirmationsAreHonest
<1>7. ASSUME NEW t \in Sessions PROVE Remembers(t)'
  <2>1. CASE t = s
    BY <1>0, <2>1 DEF Remembers, Fits, RentalPoints
  <2>2. CASE t # s
    <3>1. request'[t] = request[t]
      BY <1>0, <2>2
    <3>2. request[t].at = "returnTouched" => request[t].item \in ItemIds
      BY DEF RentalInv, TypeOK
    <3>3. Remembers(t)
      BY DEF RentalInv
    <3>4. \A i \in ItemIds : StatusIs(i, "RENTED")' => StatusIs(i, "RENTED")
      BY DEF LeavesReservations
    <3> QED BY <1>1, <3>1, <3>2, <3>3, <3>4 DEF Remembers
  <2> QED BY <2>1, <2>2
<1> QED BY <1>3, <1>4, <1>6, <1>7 DEF RentalInv

\* What a step of Requests is to the lemmas about Rental: it moves the request of
\* s, to a point of Requests, and items only age.
BoardOf(s) ==
  /\ Ages /\ LeavesReservations
  /\ \E q : Fits(q) /\ request' = [request EXCEPT ![s] = q]

LEMMA BoardStep ==
  ASSUME ClosetInv, NEW s \in Sessions, NEW q, Fits(q),
         request' = [request EXCEPT ![s] = q],
         inventory' \in [ItemIds -> InventoryRow \cup {NULL}],
         Ages, LeavesReservations, MailsRightly, InHand(s)'
  PROVE  ClosetInv' /\ BoardOf(s)
<1> USE DEF ClosetInv
<1>1. SystemTypeOK'
  <2>1. users' \subseteq Users /\ UNCHANGED <<reservations, nextReservation>>
    BY DEF LeavesReservations, SystemTypeOK, TypeOK, ClosetTypeOK
  <2>2. freshItems' \subseteq ItemIds
    BY DEF Ages, SystemTypeOK, TypeOK, ClosetTypeOK
  <2>3. sent' \subseteq Mail
    BY DEF MailsRightly, SystemTypeOK, TypeOK, ClosetTypeOK
  <2> QED BY <2>1, <2>2, <2>3, MovedTypeOK DEF Fits
<1>2. RentalInv'
  BY <1>1, BoardKeepsRentalInv DEF SystemTypeOK
<1>3. ReservedAreCatalogued'
  <2>1. Live' = Live /\ UNCHANGED reservations
    BY DEF LeavesReservations, Live
  <2>2. ASSUME NEW r \in Live
        PROVE  reservations[r].item \in ItemIds /\ Reserved(reservations[r].item)
    BY <2>2 DEF Live, Reserved, ReservationRow, SystemTypeOK, TypeOK, ClosetTypeOK
  <2> QED BY <2>1, <2>2 DEF ReservedAreCatalogued, LeavesReservations
<1>4. FreshHaveNoRow'
  BY DEF Ages, FreshHaveNoRow
<1>5. ASSUME NEW t \in Sessions PROVE InHand(t)'
  <2>1. t # s => request'[t] = request[t]
    BY DEF SystemTypeOK, TypeOK, ClosetTypeOK
  <2> QED BY <2>1, InHandStays
<1>6. \A m \in sent' : Told(m)'
  BY ToldStays DEF MailsRightly
<1> QED BY <1>1, <1>2, <1>3, <1>4, <1>5, <1>6 DEF BoardOf

\* A step that leaves the tables alone.
LEMMA QuietBoardStep ==
  ASSUME ClosetInv, NEW s \in Sessions, NEW q, Fits(q),
         request' = [request EXCEPT ![s] = q],
         UNCHANGED tables, MailsRightly, InHand(s)'
  PROVE  ClosetInv' /\ BoardOf(s)
<1>1. inventory' \in [ItemIds -> InventoryRow \cup {NULL}]
  BY DEF ClosetInv, SystemTypeOK, TypeOK, ClosetTypeOK
<1>2. Ages /\ LeavesReservations
  BY DEF ClosetInv, Ages, FreshHaveNoRow, LeavesReservations, StatusIs
<1> QED BY <1>1, <1>2, BoardStep

\* A request that ends, with a mail that tells what is so or without one.
LEMMA BoardDone ==
  ASSUME ClosetInv, NEW s \in Sessions, Done(s), UNCHANGED tables, MailsRightly
  PROVE  ClosetInv' /\ BoardOf(s)
<1>1. Fits(Idle)
  BY DEF Fits, Idle, Request, Points, RentalPoints
<1>2. request' = [request EXCEPT ![s] = Idle]
  BY DEF Done
<1>3. request'[s].at = "idle"
  BY <1>2 DEF ClosetInv, SystemTypeOK, TypeOK, ClosetTypeOK, Idle
<1>4. InHand(s)'
  BY <1>3 DEF InHand
<1> QED BY <1>1, <1>2, <1>4, QuietBoardStep

LEMMA SubmitLoadStep ==
  ASSUME ClosetInv, NEW s \in Sessions, NEW pending \in Pending, NEW t \in Types,
         SubmitLoad(s, pending, t)
  PROVE  ClosetInv' /\ BoardOf(s)
<1> DEFINE q == [Idle EXCEPT !.at = "submitLoaded", !.seen = pending, !.type = t,
                             !.user = UserOf[s]]
<1>1. UserOf[s] \in Users /\ pending \in Statuses
  BY SessionsAssumption DEF Pending, Statuses
<1>2. request' = [request EXCEPT ![s] = q] /\ UNCHANGED <<tables, sent>>
  BY DEF SubmitLoad
<1>3. /\ q \in Request /\ q.at = "submitLoaded" /\ q.seen = pending /\ q.type = t
      /\ q.user = UserOf[s]
  BY <1>1 DEF Idle, Request, Points
<1> HIDE DEF q
<1>4. Fits(q)
  BY <1>3 DEF Fits, RentalPoints
<1>5. request'[s] = q
  BY <1>2 DEF ClosetInv, SystemTypeOK, TypeOK, ClosetTypeOK
<1>6. InHand(s)'
  BY <1>1, <1>3, <1>5 DEF InHand
<1> QED BY <1>2, <1>4, <1>6, QuietBoardStep DEF MailsRightly

LEMMA VerdictLoadStep ==
  ASSUME ClosetInv, NEW s \in Sessions, NEW i \in ItemIds,
         AcceptLoad(s, i) \/ RejectLoad(s, i)
  PROVE  ClosetInv' /\ BoardOf(s)
<1>1. PICK at \in {"acceptLoaded", "rejectLoaded"} : VerdictLoad(s, i, at)
  BY DEF AcceptLoad, RejectLoad
<1> DEFINE q == [Idle EXCEPT !.at = at, !.item = i, !.seen = inventory[i].status]
<1>2. /\ inventory[i] # NULL /\ request' = [request EXCEPT ![s] = q]
      /\ UNCHANGED <<tables, sent>>
  BY <1>1 DEF VerdictLoad
<1>3. inventory[i].status \in Statuses
  BY <1>2 DEF ClosetInv, SystemTypeOK, TypeOK, ClosetTypeOK, InventoryRow
<1>4. q \in Request /\ q.at = at /\ q.item = i /\ q.seen = inventory[i].status
  BY <1>3 DEF Idle, Request, Points
<1> HIDE DEF q
<1>5. Fits(q)
  BY <1>3, <1>4 DEF Fits, RentalPoints
<1>6. request'[s] = q
  BY <1>2 DEF ClosetInv, SystemTypeOK, TypeOK, ClosetTypeOK
<1>7. i \notin freshItems
  BY <1>2 DEF ClosetInv, FreshHaveNoRow
<1>8. InHand(s)'
  BY <1>2, <1>4, <1>6, <1>7 DEF InHand, Decided
<1> QED BY <1>2, <1>5, <1>8, QuietBoardStep DEF MailsRightly

\* What the request of s becomes when it commits, with item i in hand.
Committed(s, at, i) == [request[s] EXCEPT !.at = at, !.item = i]

LEMMA CommittedFits ==
  ASSUME ClosetInv, NEW s \in Sessions, NEW i \in ItemIds,
         NEW at \in {"submitCommitted", "acceptCommitted", "rejectCommitted"},
         request' = [request EXCEPT ![s] = Committed(s, at, i)]
  PROVE  Fits(Committed(s, at, i)) /\ request'[s].at = at /\ request'[s].item = i
<1>1. request \in [Sessions -> Request] /\ request[s] \in Request
  BY DEF ClosetInv, SystemTypeOK, TypeOK, ClosetTypeOK
<1>2. /\ Committed(s, at, i) \in Request
      /\ Committed(s, at, i).at = at /\ Committed(s, at, i).item = i
  BY <1>1 DEF Committed, Request, Points
<1> QED BY <1>1, <1>2 DEF Fits, RentalPoints

\* What a step does to the board: a step on one item that was there, or a new
\* request, or nothing.
ShowsOnBoard ==
  /\ Ages
  /\ \/ UNCHANGED <<inventory, freshItems>>
     \/ \E i \in ItemIds \ freshItems :
          UNCHANGED freshItems /\ \A j \in ItemIds \ {i} : inventory'[j] = inventory[j]
     \/ \E i \in freshItems :
          /\ freshItems' = freshItems \ {i}
          /\ inventory'[i] # NULL /\ inventory'[i].status \in Pending
          /\ \A j \in ItemIds \ {i} : inventory'[j] = inventory[j]

LEMMA SubmitFlushStep ==
  ASSUME ClosetInv, NEW s \in Sessions, SubmitFlush(s)
  PROVE  ClosetInv' /\ BoardOf(s) /\ ShowsOnBoard
<1> DEFINE row == [status |-> request[s].seen, type |-> request[s].type, user |-> request[s].user]
<1>1. PICK i \in freshItems :
        /\ inventory' = [inventory EXCEPT ![i] = row]
        /\ freshItems' = freshItems \ {i}
        /\ request' = [request EXCEPT ![s].at = "submitCommitted", ![s].item = i]
  BY DEF SubmitFlush
<1>2. /\ request[s].at = "submitLoaded" /\ request[s] \in Request /\ i \in ItemIds
      /\ request[s].seen \in Pending /\ request[s].type \in Types
      /\ request[s].user = UserOf[s] /\ UserOf[s] \in Users
      /\ request \in [Sessions -> Request]
      /\ inventory \in [ItemIds -> InventoryRow \cup {NULL}]
  BY SessionsAssumption
  DEF SubmitFlush, ClosetInv, InHand, SystemTypeOK, TypeOK, ClosetTypeOK
<1>3. /\ row \in InventoryRow /\ row.user = UserOf[s] /\ row.status \in Pending
  BY <1>2 DEF InventoryRow, Pending, Statuses
<1> HIDE DEF row
<1>4. /\ inventory'[i] = row /\ row # NULL
      /\ \A j \in ItemIds \ {i} : inventory'[j] = inventory[j]
      /\ inventory' \in [ItemIds -> InventoryRow \cup {NULL}]
  BY <1>1, <1>2, <1>3, RowIsNotNull
<1>5. request' = [request EXCEPT ![s] = Committed(s, "submitCommitted", i)]
  BY <1>1, <1>2 DEF Committed
<1>6. /\ Fits(Committed(s, "submitCommitted", i))
      /\ request'[s].at = "submitCommitted" /\ request'[s].item = i
  BY <1>2, <1>5, CommittedFits
<1>7. Ages
  BY <1>1, <1>2, <1>4 DEF Ages, ClosetInv, FreshHaveNoRow, SystemTypeOK, TypeOK, ClosetTypeOK
<1>8. LeavesReservations
  <2>1. UNCHANGED <<users, reservations, nextReservation>>
    BY DEF SubmitFlush
  <2>2. inventory[i] = NULL
    BY <1>1 DEF ClosetInv, FreshHaveNoRow
  <2> QED BY <1>3, <1>4, <2>1, <2>2 DEF LeavesReservations, StatusIs, Pending
<1>9. InHand(s)'
  BY <1>1, <1>3, <1>4, <1>6 DEF InHand, Belongs
<1>10. MailsRightly
  BY DEF MailsRightly, SubmitFlush
<1>11. ShowsOnBoard
  BY <1>1, <1>3, <1>4, <1>7 DEF ShowsOnBoard
<1> QED BY <1>4, <1>5, <1>6, <1>7, <1>8, <1>9, <1>10, <1>11, BoardStep

LEMMA AcceptFlushStep ==
  ASSUME ClosetInv, NEW s \in Sessions, AcceptFlush(s)
  PROVE  ClosetInv' /\ BoardOf(s) /\ ShowsOnBoard
<1>i. PICK i, seen : i = request[s].item /\ seen = request[s].seen
  OBVIOUS
<1>1. /\ request[s].at = "acceptLoaded"
      /\ inventory' = FlushStatus(i, seen, "PENDING_ARRIVAL")
      /\ request' = [request EXCEPT ![s].at = "acceptCommitted"]
      /\ UNCHANGED <<users, reservations, nextReservation, freshItems, sent>>
  BY <1>i DEF AcceptFlush
<1>2. /\ i \in ItemIds /\ i \notin freshItems /\ seen \in Statuses /\ request[s] \in Request
      /\ request \in [Sessions -> Request]
      /\ inventory \in [ItemIds -> InventoryRow \cup {NULL}]
      /\ seen \notin Pending => Decided(i)
  BY <1>1, <1>i DEF ClosetInv, InHand, SystemTypeOK, TypeOK, ClosetTypeOK
<1>3. "PENDING_ARRIVAL" \in Statuses /\ "PENDING_ARRIVAL" \notin Pending
      /\ "PENDING_ARRIVAL" # "RENTED"
  BY DEF Statuses, Pending
<1>4. /\ inventory' \in [ItemIds -> InventoryRow \cup {NULL}]
      /\ \A j \in ItemIds : inventory'[j] = NULL <=> inventory[j] = NULL
      /\ \A j \in ItemIds : j # i => inventory'[j] = inventory[j]
      /\ seen = "PENDING_ARRIVAL" => inventory' = inventory
      /\ seen # "PENDING_ARRIVAL" /\ inventory[i] # NULL =>
           inventory'[i].status = "PENDING_ARRIVAL"
  BY <1>1, <1>2, <1>3, FlushStatusEffect
<1>5. Ages
  BY <1>1, <1>2, FlushAges DEF ClosetInv
<1>6. request' = [request EXCEPT ![s] = Committed(s, "acceptCommitted", i)]
  BY <1>1, <1>2, <1>i DEF Committed, Request
<1>7. /\ Fits(Committed(s, "acceptCommitted", i))
      /\ request'[s].at = "acceptCommitted" /\ request'[s].item = i
  BY <1>2, <1>6, CommittedFits
<1>8. LeavesReservations
  BY <1>1, <1>3, <1>4 DEF LeavesReservations, StatusIs
<1>9. Decided(i)'
  <2>1. CASE seen = "PENDING_ARRIVAL"
    BY <1>1, <1>2, <1>3, <1>4, <2>1 DEF Decided
  <2>2. CASE seen # "PENDING_ARRIVAL"
    BY <1>1, <1>2, <1>3, <1>4, <2>2 DEF Decided
  <2> QED BY <2>1, <2>2
<1>10. InHand(s)'
  BY <1>1, <1>2, <1>7, <1>9 DEF InHand
<1>11. ShowsOnBoard
  BY <1>1, <1>2, <1>4, <1>5 DEF ShowsOnBoard
<1> QED BY <1>1, <1>4, <1>5, <1>6, <1>7, <1>8, <1>10, <1>11, BoardStep DEF MailsRightly

LEMMA RejectFlushStep ==
  ASSUME ClosetInv, NEW s \in Sessions, RejectFlush(s)
  PROVE  ClosetInv' /\ BoardOf(s) /\ ShowsOnBoard
<1> DEFINE i == request[s].item
<1>1. /\ request[s].at = "rejectLoaded" /\ ~Reserved(i)
      /\ inventory' = [inventory EXCEPT ![i] = NULL]
      /\ request' = [request EXCEPT ![s].at = "rejectCommitted"]
      /\ UNCHANGED <<users, reservations, nextReservation, freshItems, sent>>
  BY DEF RejectFlush
<1>2. /\ i \in ItemIds /\ i \notin freshItems /\ request[s] \in Request
      /\ request \in [Sessions -> Request]
      /\ inventory \in [ItemIds -> InventoryRow \cup {NULL}]
  BY <1>1 DEF ClosetInv, InHand, SystemTypeOK, TypeOK, ClosetTypeOK
<1>3. request' = [request EXCEPT ![s] = Committed(s, "rejectCommitted", i)]
  BY <1>1, <1>2 DEF Committed, Request
<1>4. /\ Fits(Committed(s, "rejectCommitted", i))
      /\ request'[s].at = "rejectCommitted" /\ request'[s].item = i
  BY <1>2, <1>3, CommittedFits
<1> HIDE DEF i
<1>5. /\ inventory'[i] = NULL
      /\ \A j \in ItemIds \ {i} : inventory'[j] = inventory[j]
      /\ inventory' \in [ItemIds -> InventoryRow \cup {NULL}]
  BY <1>1, <1>2
<1>6. Ages
  BY <1>1, <1>5 DEF Ages, ClosetInv, FreshHaveNoRow, SystemTypeOK, TypeOK, ClosetTypeOK
<1>7. LeavesReservations
  BY <1>1, <1>5 DEF LeavesReservations, StatusIs
<1>8. InHand(s)'
  BY <1>1, <1>2, <1>4, <1>5 DEF InHand, Dropped
<1>9. ShowsOnBoard
  BY <1>1, <1>2, <1>5, <1>6 DEF ShowsOnBoard
<1> QED BY <1>1, <1>3, <1>4, <1>5, <1>6, <1>7, <1>8, <1>9, BoardStep DEF MailsRightly

LEMMA NoticeStep ==
  ASSUME ClosetInv, NEW s \in Sessions, SubmitMail(s) \/ AcceptMail(s) \/ RejectMail(s)
  PROVE  ClosetInv' /\ BoardOf(s)
<1>1. PICK kind \in {"received", "accepted", "rejected"} :
        /\ Send(s, Notice(s, kind))
        /\ kind = "received" => request[s].at = "submitCommitted"
        /\ kind = "accepted" => request[s].at = "acceptCommitted"
        /\ kind = "rejected" => request[s].at = "rejectCommitted"
  BY DEF SubmitMail, AcceptMail, RejectMail
<1>m. PICK m : m = Notice(s, kind)
  OBVIOUS
<1>2. request[s].item \in ItemIds /\ UserOf[s] \in Users
  BY <1>1, SessionsAssumption DEF ClosetInv, SystemTypeOK, TypeOK
<1>3. m \in Mail /\ m.kind = kind /\ m.item = request[s].item /\ m.to = UserOf[s]
  BY <1>2, <1>m DEF Notice, Mail
<1>4. UNCHANGED tables /\ sent' = sent \cup {m} /\ Done(s)
  BY <1>1, <1>m DEF Send
<1>5. InHand(s)
  BY DEF ClosetInv
<1>6. Told(m)
  BY <1>1, <1>3, <1>5 DEF InHand, Told
<1>7. Told(m)'
  BY <1>4, <1>6 DEF Told, Belongs, Decided, Dropped
<1>8. MailsRightly
  BY <1>3, <1>4, <1>7 DEF MailsRightly
<1> QED BY <1>4, <1>8, BoardDone

LEMMA BoardRefusedStep ==
  ASSUME ClosetInv, NEW s \in Sessions, SubmitRefused(s) \/ RejectRefused(s)
  PROVE  ClosetInv' /\ BoardOf(s)
BY BoardDone DEF SubmitRefused, RejectRefused, MailsRightly

LEMMA InitClosetInv == ClosetInit => ClosetInv
<1> SUFFICES ASSUME ClosetInit PROVE ClosetInv
  OBVIOUS
<1>1. Live = {} /\ sent = {}
  BY DEF ClosetInit, Live
<1>2. \A s \in Sessions : request[s].at = "idle"
  BY DEF ClosetInit, Idle
<1>3. \A i \in ItemIds : inventory[i] # NULL => inventory[i].status = "AVAL"
  BY DEF ClosetInit
<1>4. SystemTypeOK
  <2>1. inventory \in [ItemIds -> InventoryRow \cup {NULL}]
    BY DEF ClosetInit, InventoryRow, Statuses
  <2>2. nextReservation \in 1..(MaxReservations + 1)
    BY BoundsAssumption DEF ClosetInit
  <2>3. Idle \in Request
    BY DEF Idle, Request, Points
  <2> QED BY <1>2, <2>1, <2>2, <2>3 DEF ClosetInit, SystemTypeOK, TypeOK, ClosetTypeOK
<1>5. NoStrandedItem
  BY <1>3 DEF NoStrandedItem, StatusIs
<1>6. RentalInv
  BY <1>1, <1>2, <1>4, <1>5
  DEF RentalInv, SystemTypeOK, IdsIssued, Remembers, UniqueReservation,
      ConfirmationsAreHonest, Confirmations
<1>7. FreshHaveNoRow
  BY DEF ClosetInit, FreshHaveNoRow
<1> QED BY <1>1, <1>2, <1>4, <1>6, <1>7 DEF ClosetInv, ReservedAreCatalogued, InHand

LEMMA NextClosetInv == ClosetInv /\ [ClosetNext]_closetVars => ClosetInv'
BY RentalStep, SubmitLoadStep, VerdictLoadStep, SubmitFlushStep, AcceptFlushStep,
   RejectFlushStep, NoticeStep, BoardRefusedStep
DEF ClosetNext, RequestsStart, RequestsHandle

LEMMA ClosetInvHolds == ClosetSpec => []ClosetInv
BY InitClosetInv, NextClosetInv, PTL DEF ClosetSpec

\* Every variable has its type, and each request what its handler needs.
THEOREM ClosetTypesCorrect == ClosetSpec => []SystemTypeOK
<1>1. ClosetInv => SystemTypeOK
  BY DEF ClosetInv
<1> QED BY <1>1, ClosetInvHolds, PTL

\* However rentals, returns, requests and verdicts interleave, an item marked
\* RENTED has a reservation through which it can be returned.
THEOREM NoItemOfTheClosetIsStranded == ClosetSpec => []NoStrandedItem
<1>1. ClosetInv => NoStrandedItem
  BY DEF ClosetInv, RentalInv
<1> QED BY <1>1, ClosetInvHolds, PTL

\* An item is not rejected while it is reserved, nor reserved once it is.
THEOREM ReservedStayCatalogued == ClosetSpec => []ReservedAreCatalogued
<1>1. ClosetInv => ReservedAreCatalogued
  BY DEF ClosetInv
<1> QED BY <1>1, ClosetInvHolds, PTL

\* Whoever is told that a request was received owns its row, as long as it exists
\* (indexAction of both request controllers).
THEOREM ReceiptsStayHonest == ClosetSpec => []ReceiptsAreHonest
<1>1. ClosetInv => ReceiptsAreHonest
  BY DEF ClosetInv, Told, Belongs, ReceiptsAreHonest, Notices
<1> QED BY <1>1, ClosetInvHolds, PTL

\* What a mail says of a verdict stays so.
THEOREM VerdictsStayFinal == ClosetSpec => []VerdictsAreFinal
<1>1. ClosetInv => VerdictsAreFinal
  BY DEF ClosetInv, Told, Decided, Dropped, VerdictsAreFinal, Notices
<1> QED BY <1>1, ClosetInvHolds, PTL

-----------------------------------------------------------------------------
(* What Rental keeps under a condition, with requests and verdicts as well.  *)

\* Where the handlers of Requests leave a request.
LEMMA BoardMoves ==
  ASSUME ClosetInv, NEW s \in Sessions, BoardOf(s)
  PROVE  /\ request'[s].at \notin RentalPoints
         /\ \A t \in Sessions \ {s} : request'[t] = request[t]
BY DEF BoardOf, Fits, ClosetInv, SystemTypeOK, TypeOK, ClosetTypeOK

\* No item that is reserved, or that a request is about, changes its type.
LEMMA BoardKeepsOnePerType ==
  ASSUME NEW U, ClosetInv, ClosetInv', OnePerTypeInv(U), NEW s \in Sessions, BoardOf(s)
  PROVE  OnePerTypeInv(U)'
<1>1. /\ request'[s].at \notin RentalPoints
      /\ \A t \in Sessions \ {s} : request'[t] = request[t]
  BY BoardMoves
<1>2. Live' = Live /\ UNCHANGED reservations
  BY DEF BoardOf, LeavesReservations, Live
<1>3. ASSUME NEW i \in ItemIds \ freshItems, inventory'[i] # NULL
      PROVE  inventory[i] # NULL /\ inventory'[i].type = inventory[i].type
  BY <1>3 DEF BoardOf, Ages
<1>4. ASSUME NEW r \in Live
      PROVE  /\ reservations[r].item \in ItemIds
             /\ inventory'[reservations[r].item].type = inventory[reservations[r].item].type
  <2>1. reservations[r].item \in ItemIds
    BY DEF ClosetInv, SystemTypeOK, TypeOK, ClosetTypeOK, Live, ReservationRow
  <2>2. inventory[reservations[r].item] # NULL /\ inventory'[reservations[r].item] # NULL
    BY <1>2 DEF ClosetInv, ReservedAreCatalogued
  <2>3. reservations[r].item \notin freshItems
    BY <2>2 DEF ClosetInv, FreshHaveNoRow
  <2> QED BY <1>3, <2>1, <2>2, <2>3
<1>5. \A u : TypesHeld(u)' = TypesHeld(u)
  BY <1>2, <1>4 DEF TypesHeld, ReservationsOf
<1>6. OnePerTypeAmong(U)'
  BY <1>2, <1>4 DEF OnePerTypeInv, OnePerTypeAmong
<1>7. ASSUME NEW t \in Sessions PROVE CheckStands(t, U)'
  <2>1. CASE t = s
    BY <1>1, <2>1 DEF CheckStands, RentalPoints
  <2>2. CASE t # s
    <3>1. request'[t] = request[t] /\ CheckStands(t, U)
      BY <1>1, <2>2 DEF OnePerTypeInv
    <3>2. request[t].at \in {"rentLoaded", "rentChecked"} =>
            request[t].item \in ItemIds \ freshItems
      BY DEF ClosetInv, SystemTypeOK, TypeOK, InHand
    <3> QED BY <1>3, <1>5, <3>1, <3>2 DEF CheckStands
  <2> QED BY <2>1, <2>2
<1> QED BY <1>6, <1>7 DEF ClosetInv, OnePerTypeInv

\* Every step of the closet is one of Rental or one of Requests.
LEMMA ClosetSteps ==
  ASSUME ClosetInv, [ClosetNext]_closetVars
  PROVE  \/ [Next]_closetVars
         \/ \E s \in Sessions : (RequestsStart(s) \/ RequestsHandle(s)) /\ BoardOf(s)
BY SubmitLoadStep, VerdictLoadStep, SubmitFlushStep, AcceptFlushStep,
   RejectFlushStep, NoticeStep, BoardRefusedStep
DEF ClosetNext, RequestsStart, RequestsHandle

LEMMA ClosetKeepsOnePerType ==
  ASSUME NEW U, ClosetInv, OnePerTypeInv(U), NoRivals(U), [ClosetNext]_closetVars
  PROVE  OnePerTypeInv(U)'
<1>1. ClosetInv'
  BY NextClosetInv
<1> QED BY <1>1, ClosetSteps, NextOnePerTypeInv, BoardKeepsOnePerType

LEMMA InitClosetOnePerType ==
  ASSUME NEW U, ClosetInit
  PROVE  OnePerTypeInv(U)
<1>1. Live = {} /\ \A s \in Sessions : request[s].at = "idle"
  BY DEF ClosetInit, Live, Idle
<1>2. RentalInv
  BY InitClosetInv DEF ClosetInv
<1> QED BY <1>1, <1>2 DEF OnePerTypeInv, ReservedAreCatalogued, CheckStands, OnePerTypeAmong

\* A user who has a single session never holds two items of one type, also where
\* verdicts change or delete the item that a rental has just loaded: what the
\* check of rentAction has found stands until its INSERT, or that is refused.
THEOREM ClosetSingleSessionOnePerType == ClosetSpec => []OnePerTypeAmong(SingleSession)
<1>1. ClosetInit => ClosetInv /\ OnePerTypeInv(SingleSession)
  BY InitClosetInv, InitClosetOnePerType
<1>2. ClosetInv /\ OnePerTypeInv(SingleSession) /\ [ClosetNext]_closetVars
        => (ClosetInv /\ OnePerTypeInv(SingleSession))'
  BY NoRivalsOfSingleSessions, NextClosetInv, ClosetKeepsOnePerType
<1>3. OnePerTypeInv(SingleSession) => OnePerTypeAmong(SingleSession)
  BY DEF OnePerTypeInv
<1> QED BY <1>1, <1>2, <1>3, PTL DEF ClosetSpec

\* When no user has two sessions nobody ever holds two items of one type, also
\* beside requests and verdicts.
THEOREM ClosetOnePerTypeWithOneSession ==
  ASSUME OneSessionPerUser
  PROVE  ClosetSpec => []OnePerType
<1>1. TypeOK /\ OnePerTypeAmong(SingleSession) => OnePerType
  BY AllHaveSingleSessions
<1>2. SystemTypeOK => TypeOK
  BY DEF SystemTypeOK
<1> QED BY <1>1, <1>2, ClosetTypesCorrect, ClosetSingleSessionOnePerType, PTL

-----------------------------------------------------------------------------
(* One request at a time.                                                    *)

\* A step of Requests is of a request that runs or is accepted.
LEMMA BoardIsOfOneRequest ==
  ASSUME ClosetInv, NEW s \in Sessions, RequestsStart(s) \/ RequestsHandle(s), BoardOf(s)
  PROVE  StepOf(s)
<1>1. \A t \in Sessions \ {s} : request'[t] = request[t]
  BY BoardMoves
<1>2. Busy(s) \/ Accept(s)
  BY DEF Busy, RequestsStart, RequestsHandle, SubmitLoad, AcceptLoad, RejectLoad, VerdictLoad,
         SubmitFlush, SubmitRefused, SubmitMail, AcceptFlush, AcceptMail, RejectFlush,
         RejectRefused, RejectMail
<1> QED BY <1>1, <1>2 DEF StepOf

LEMMA BoardKeepsSerial ==
  ASSUME OneWorker, ClosetInv, ClosetInv', SerialInv, NEW s \in Sessions,
         RequestsStart(s) \/ RequestsHandle(s), BoardOf(s)
  PROVE  SerialInv'
<1>1. OnePerTypeInv(Users)'
  BY BoardKeepsOnePerType DEF SerialInv
<1>2. AtMostOneBusy' /\ \A t \in Sessions \ {s} : request'[t].at = "idle"
  BY BoardIsOfOneRequest, OthersIdle DEF SerialInv
<1>3. request'[s].at \notin RentalPoints
  BY BoardMoves
<1>4. \A t \in Sessions : SeenIsCurrent(t)'
  BY <1>2, <1>3 DEF SeenIsCurrent, RentalPoints
<1>5. \A i : Reserved(i)' = Reserved(i)
  BY DEF BoardOf, LeavesReservations, Reserved, Live
<1>6. \A i \in ItemIds : StatusIs(i, "AVAL")' => StatusIs(i, "AVAL")
  BY DEF BoardOf, LeavesReservations
<1>7. AvailableIsFree'
  BY <1>5, <1>6 DEF SerialInv, LedgerConsistent, AvailableIsFree
<1>8. NoStrandedItem'
  BY <1>1 DEF OnePerTypeInv, RentalInv
<1> QED BY <1>1, <1>2, <1>4, <1>7, <1>8 DEF SerialInv, LedgerConsistent

SerialClosetInv == ClosetInv /\ SerialInv

LEMMA InitSerialCloset == ClosetInit => SerialClosetInv
<1> SUFFICES ASSUME ClosetInit PROVE SerialClosetInv
  OBVIOUS
<1>1. Live = {} /\ \A s \in Sessions : request[s].at = "idle"
  BY DEF ClosetInit, Live, Idle
<1>2. OnePerTypeInv(Users) /\ ClosetInv /\ NoStrandedItem
  BY InitClosetOnePerType, InitClosetInv DEF OnePerTypeInv, RentalInv
<1> QED
  BY <1>1, <1>2
  DEF SerialClosetInv, SerialInv, AtMostOneBusy, Busy, SeenIsCurrent, LedgerConsistent,
      AvailableIsFree, Reserved

LEMMA NextSerialCloset ==
  ASSUME OneWorker, SerialClosetInv, [ClosetNext]_closetVars
  PROVE  SerialClosetInv'
<1>1. ClosetInv' /\ ClosetInv /\ SerialInv
  BY NextClosetInv DEF SerialClosetInv
<1> QED BY <1>1, ClosetSteps, NextSerialInv, BoardKeepsSerial DEF SerialClosetInv

\* With one request at a time the statuses say exactly which items are out, also
\* where requests are accepted and rejected by links that may be old: an item on
\* loan that is "accepted" leaves the shelf, one that is reserved is not deleted.
THEOREM SerialClosetLedgerConsistent ==
  ASSUME OneWorker
  PROVE  ClosetSpec => []LedgerConsistent
<1>1. SerialClosetInv /\ [ClosetNext]_closetVars => SerialClosetInv'
  BY NextSerialCloset
<1>2. SerialClosetInv => LedgerConsistent
  BY DEF SerialClosetInv, SerialInv
<1> QED BY <1>1, <1>2, InitSerialCloset, PTL DEF ClosetSpec

\* And a return leaves its item available and free, whatever verdicts there were
\* while it was out.
THEOREM SerialClosetReturnsFree ==
  ASSUME OneWorker
  PROVE  ClosetSpec => ReturnedItemsAreFree
<1>1. SerialClosetInv /\ [ClosetNext]_closetVars => SerialClosetInv'
  BY NextSerialCloset
<1>2. SerialClosetInv /\ SerialClosetInv' /\ [ClosetNext]_closetVars =>
        [\A s \in Sessions, i \in ItemIds :
           request[s].item = i /\ ReturnFlush(s)
             => StatusIs(i, "AVAL")' /\ ~Reserved(i)']_closetVars
  <2> SUFFICES ASSUME SerialInv, SerialInv', NEW s \in Sessions, ReturnFlush(s),
                      NEW i \in ItemIds, request[s].item = i
               PROVE  StatusIs(i, "AVAL")' /\ ~Reserved(i)'
    BY DEF SerialClosetInv
  <2> QED BY ReturnFreesItem
<1> QED BY <1>1, <1>2, InitSerialCloset, PTL DEF ClosetSpec, ReturnedItemsAreFree

-----------------------------------------------------------------------------
(* WuRegalia implements RequestBoard.                                        *)

LEMMA RentalShows ==
  ASSUME ClosetInv, [Next]_closetVars
  PROVE  ShowsOnBoard
<1>1. Ages
  BY RentalAges DEF ClosetInv
<1>2. ASSUME NEW s \in Sessions, RentFlush(s) \/ ReturnFlush(s)
      PROVE  ShowsOnBoard
  <2>i. PICK i, seen : i = request[s].item /\ seen = request[s].seen
    OBVIOUS
  <2>1. PICK status \in Statuses : inventory' = FlushStatus(i, seen, status)
    BY <1>2, <2>i DEF RentFlush, ReturnFlush, Statuses
  <2>2. i \in ItemIds /\ i \notin freshItems /\ UNCHANGED freshItems
    BY <1>2, <2>i DEF RentFlush, ReturnFlush, ClosetInv, InHand, SystemTypeOK, TypeOK
  <2>3. inventory \in [ItemIds -> InventoryRow \cup {NULL}]
    BY DEF ClosetInv, SystemTypeOK, TypeOK, ClosetTypeOK
  <2>4. \A j \in ItemIds \ {i} : inventory'[j] = inventory[j]
    BY <2>1, <2>2, <2>3, FlushStatusEffect
  <2> QED BY <1>1, <2>2, <2>4 DEF ShowsOnBoard
<1>3. ASSUME NEW s \in Sessions, Start(s) \/ (Handle(s) /\ ~RentFlush(s) /\ ~ReturnFlush(s)) \/ Abort(s)
      PROVE  UNCHANGED <<inventory, freshItems>>
  BY <1>3 DEF Start, Handle, RentLoad, ReturnLoad, RentCheck, RentRefused, RentMail, Send,
              ReturnTouch, ReturnLost, Abort
<1> QED BY <1>1, <1>2, <1>3 DEF ShowsOnBoard, Next, Handle, closetVars

LEMMA ClosetShows == ClosetInv /\ [ClosetNext]_closetVars => ShowsOnBoard
<1> SUFFICES ASSUME ClosetInv, [ClosetNext]_closetVars PROVE ShowsOnBoard
  OBVIOUS
<1>1. CASE [Next]_closetVars
  BY <1>1, RentalShows
<1>2. ASSUME NEW s \in Sessions, SubmitFlush(s) \/ AcceptFlush(s) \/ RejectFlush(s)
      PROVE  ShowsOnBoard
  BY <1>2, SubmitFlushStep, AcceptFlushStep, RejectFlushStep
<1>3. ASSUME NEW s \in Sessions, RequestsStart(s) \/ RequestsHandle(s),
             ~SubmitFlush(s), ~AcceptFlush(s), ~RejectFlush(s)
      PROVE  ShowsOnBoard
  <2>1. UNCHANGED <<inventory, freshItems>>
    BY <1>3 DEF RequestsStart, RequestsHandle, SubmitLoad, AcceptLoad, RejectLoad, VerdictLoad,
                SubmitRefused, RejectRefused, SubmitMail, AcceptMail, RejectMail, Send
  <2> QED BY <2>1 DEF ClosetInv, FreshHaveNoRow, Ages, ShowsOnBoard
<1> QED BY <1>1, <1>2, <1>3 DEF ClosetNext

\* Whatever a step does to an item shows as a move on the board, or not at all.
LEMMA PhaseMoves ==
  ASSUME ClosetInv, ShowsOnBoard
  PROVE  [Board!Next]_([i \in ItemIds |-> Phase(i)])
<1> DEFINE phase == [i \in ItemIds |-> Phase(i)]
<1>1. ASSUME NEW i \in ItemIds, \A j \in ItemIds \ {i} : Phase(j)' = Phase(j)
      PROVE  phase' = [phase EXCEPT ![i] = Phase(i)']
  BY <1>1
<1>2. ASSUME NEW j \in ItemIds, inventory'[j] = inventory[j],
             j \in freshItems' <=> j \in freshItems
      PROVE  Phase(j)' = Phase(j)
  BY <1>2 DEF Phase
<1>3. CASE UNCHANGED <<inventory, freshItems>>
  <2>1. phase' = phase
    BY <1>2, <1>3
  <2> QED BY <2>1
<1>4. ASSUME NEW i \in ItemIds \ freshItems,
             UNCHANGED freshItems, \A j \in ItemIds \ {i} : inventory'[j] = inventory[j]
      PROVE  Board!Next \/ UNCHANGED phase
  <2>1. phase' = [phase EXCEPT ![i] = Phase(i)'] /\ phase[i] = Phase(i)
    BY <1>1, <1>2, <1>4
  <2>2. /\ Phase(i) \in {"gone", "open", "settled"}
        /\ Phase(i)' \in {Phase(i), "gone"} \/ (Phase(i) = "open" /\ Phase(i)' = "settled")
        /\ Phase(i) = "gone" => Phase(i)' = "gone"
    BY <1>4 DEF Phase, ShowsOnBoard, Ages
  <2>3. CASE Phase(i)' = Phase(i)
    BY <2>1, <2>3
  <2>4. CASE Phase(i) = "open" /\ Phase(i)' = "settled"
    BY <2>1, <2>4 DEF Board!Next, Board!Settle, Board!Move
  <2>5. CASE Phase(i) \in {"open", "settled"} /\ Phase(i)' = "gone"
    BY <2>1, <2>5 DEF Board!Next, Board!Drop, Board!Move
  <2> QED BY <2>2, <2>3, <2>4, <2>5
<1>5. ASSUME NEW i \in freshItems,
             freshItems' = freshItems \ {i},
             inventory'[i] # NULL, inventory'[i].status \in Pending,
             \A j \in ItemIds \ {i} : inventory'[j] = inventory[j]
      PROVE  Board!Next
  <2>0. i \in ItemIds
    BY DEF ClosetInv, SystemTypeOK, TypeOK, ClosetTypeOK
  <2>1. phase' = [phase EXCEPT ![i] = Phase(i)'] /\ phase[i] = Phase(i)
    BY <2>0, <1>1, <1>2, <1>5
  <2>2. Phase(i) = "unborn" /\ Phase(i)' = "open"
    BY <1>5 DEF Phase
  <2> QED BY <2>0, <2>1, <2>2 DEF Board!Next, Board!Ask, Board!Move
<1> QED BY <1>3, <1>4, <1>5 DEF ShowsOnBoard

LEMMA ClosetInitBoard == ClosetInit => Board!Init
BY DEF ClosetInit, Board!Init, Phase, Pending

\* No request reappears once it has been dealt with, and no rejected row comes
\* back: each step is a move of RequestBoard or none.
THEOREM ClosetImplementsBoard == ClosetSpec => ImplementsBoard
<1>1. ClosetInv /\ [ClosetNext]_closetVars => [Board!Next]_([i \in ItemIds |-> Phase(i)])
  BY ClosetShows, PhaseMoves
<1> QED BY <1>1, ClosetInitBoard, ClosetInvHolds, PTL DEF ClosetSpec, ImplementsBoard, Board!Spec
=============================================================================
