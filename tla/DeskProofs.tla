----------------------------- MODULE DeskProofs -----------------------------
(***************************************************************************)
(* Proofs about Desk: what holds of the tables however the administrators' *)
(* forms, deletions, rentals, returns, requests and verdicts interleave.   *)
(***************************************************************************)
EXTENDS Desk, ClosetProofs

USE DEF tables, ItemlessPoints

-----------------------------------------------------------------------------
(* What a step may do to the tables. In each case reservations stay unique   *)
(* and references keep what they refer to.                                   *)

References == UniqueReservation /\ NoDanglingReferences

\* The same rows of Inventory, with the same owners.
SameItems ==
  \A i \in ItemIds : /\ inventory'[i] = NULL <=> inventory[i] = NULL
                     /\ inventory'[i].user = inventory[i].user

\* A reservation is made or changed, as the constraints allow.
ReserveRow(n, row) ==
  /\ n \in ResIds /\ row \in ReservationRow
  /\ reservations' = [reservations EXCEPT ![n] = row]
  /\ row.user \in users
  /\ inventory[row.item] # NULL
  /\ \A r \in Live \ {n} : reservations[r].item # row.item
  /\ SameItems /\ UNCHANGED users

LEMMA RowsOfReservations ==
  ASSUME ClosetTypeOK, NEW r \in Live
  PROVE  reservations[r].user \in Users /\ reservations[r].item \in ItemIds
BY DEF ClosetTypeOK, Live, ReservationRow

LEMMA SameItemsStep ==
  ASSUME ClosetTypeOK, References, SameItems, users \subseteq users',
         Live' \subseteq Live, \A r \in Live' : reservations'[r] = reservations[r]
  PROVE  References'
<1>1. UniqueReservation'
  BY DEF References, UniqueReservation
<1>2. ReservedAreCatalogued'
  BY RowsOfReservations DEF References, NoDanglingReferences, ReservedAreCatalogued, SameItems
<1> QED BY <1>1, <1>2 DEF References, NoDanglingReferences, SameItems

LEMMA ReserveRowStep ==
  ASSUME ClosetTypeOK, References, NEW n, NEW row, ReserveRow(n, row)
  PROVE  References'
<1>1. row # NULL /\ row.item \in ItemIds
  BY RowIsNotNull DEF ReserveRow, ReservationRow
<1>2. /\ Live' = Live \cup {n} /\ reservations'[n] = row
      /\ \A r \in Live \ {n} : reservations'[r] = reservations[r]
  BY <1>1 DEF ReserveRow, Live, ClosetTypeOK
<1>3. UniqueReservation'
  BY <1>2 DEF ReserveRow, References, UniqueReservation
<1>4. ReservedAreCatalogued'
  BY <1>1, <1>2, RowsOfReservations
  DEF ReserveRow, References, NoDanglingReferences, ReservedAreCatalogued, SameItems
<1>5. \A r \in Live' : reservations'[r].user \in users'
  BY <1>2 DEF ReserveRow, References, NoDanglingReferences
<1>6. \A i \in ItemIds : inventory'[i] # NULL => inventory'[i].user \in users' \cup {NULL}
  BY DEF ReserveRow, References, NoDanglingReferences, SameItems
<1> QED BY <1>3, <1>4, <1>5, <1>6 DEF References, NoDanglingReferences

\* A row of Inventory is written, with an owner who exists.
LEMMA CatalogueStep ==
  ASSUME ClosetTypeOK, References, NEW i \in ItemIds, NEW row \in InventoryRow,
         row.user \in users \cup {NULL},
         inventory' = [inventory EXCEPT ![i] = row],
         UNCHANGED <<users, reservations>>
  PROVE  References'
<1>1. inventory'[i] = row /\ row # NULL /\ \A j \in ItemIds \ {i} : inventory'[j] = inventory[j]
  BY RowIsNotNull DEF ClosetTypeOK
<1>2. Live' = Live
  BY DEF Live
<1>3. UniqueReservation'
  BY <1>2 DEF References, UniqueReservation
<1>4. ReservedAreCatalogued'
  BY <1>1, <1>2, RowsOfReservations DEF References, NoDanglingReferences, ReservedAreCatalogued
<1> QED BY <1>1, <1>2, <1>3, <1>4 DEF References, NoDanglingReferences

\* A row of Inventory without a reservation goes.
LEMMA RemoveStep ==
  ASSUME ClosetTypeOK, References, NEW i \in ItemIds, ~Reserved(i),
         inventory' = [inventory EXCEPT ![i] = NULL],
         UNCHANGED <<users, reservations>>
  PROVE  References'
<1>1. inventory'[i] = NULL /\ \A j \in ItemIds \ {i} : inventory'[j] = inventory[j]
  BY DEF ClosetTypeOK
<1>2. Live' = Live
  BY DEF Live
<1>3. UniqueReservation'
  BY <1>2 DEF References, UniqueReservation
<1>4. ReservedAreCatalogued'
  BY <1>1, <1>2, RowsOfReservations
  DEF References, NoDanglingReferences, ReservedAreCatalogued, Reserved
<1> QED BY <1>1, <1>2, <1>3, <1>4 DEF References, NoDanglingReferences

\* A user to whom nothing refers goes.
LEMMA UserDropStep ==
  ASSUME ClosetTypeOK, References, NEW u, ~Owned(u), users' = users \ {u},
         UNCHANGED <<inventory, reservations>>
  PROVE  References'
<1>1. Live' = Live /\ \A r \in Live : reservations[r].user # u
  BY DEF Live, Owned, ReservationsOf
<1>2. \A i \in ItemIds : inventory[i] # NULL => inventory[i].user # u
  BY DEF Owned
<1> QED BY <1>1, <1>2
  DEF References, UniqueReservation, NoDanglingReferences, ReservedAreCatalogued

LEMMA FlushSameItems ==
  ASSUME ClosetTypeOK, NEW i \in ItemIds, NEW seen, NEW status \in Statuses,
         inventory' = FlushStatus(i, seen, status)
  PROVE  SameItems
<1>1. \A j \in ItemIds : inventory'[j] = NULL <=> inventory[j] = NULL
  BY FlushStatusEffect DEF ClosetTypeOK
<1>2. CASE inventory' = inventory
  BY <1>2 DEF SameItems
<1>3. CASE inventory' = [inventory EXCEPT ![i].status = status] /\ inventory[i] # NULL
  <2>1. inventory[i] \in InventoryRow
    BY <1>3 DEF ClosetTypeOK
  <2>2. inventory'[i].user = inventory[i].user
    BY <1>3, <2>1 DEF ClosetTypeOK, InventoryRow
  <2> QED BY <1>1, <1>3, <2>2 DEF SameItems, ClosetTypeOK
<1> QED BY <1>2, <1>3 DEF FlushStatus

-----------------------------------------------------------------------------
(* The steps of Rental and Requests, with the forms untouched.               *)

LEMMA RentalKeepsReferences ==
  ASSUME TypeOK, References, [Next]_closetVars
  PROVE  References'
<1>0. ClosetTypeOK
  BY DEF TypeOK
<1>1. ASSUME NEW s \in Sessions, RentFlush(s) PROVE References'
  <2> DEFINE row == [user |-> UserOf[s], item |-> request[s].item]
  <2>1. request[s].item \in ItemIds /\ UserOf[s] \in Users /\ "RENTED" \in Statuses
    BY <1>1, SessionsAssumption DEF RentFlush, TypeOK, Statuses
  <2>2. row \in ReservationRow /\ row.user = UserOf[s] /\ row.item = request[s].item
    BY <2>1 DEF ReservationRow
  <2>3. SameItems
    BY <1>0, <1>1, <2>1, FlushSameItems DEF RentFlush
  <2>4. /\ nextReservation \in ResIds /\ CanReserve(UserOf[s], request[s].item)
        /\ reservations' = [reservations EXCEPT ![nextReservation] = row]
        /\ UNCHANGED users
    BY <1>1 DEF RentFlush, Insertable
  <2> HIDE DEF row
  <2>5. ReserveRow(nextReservation, row)
    BY <2>2, <2>3, <2>4 DEF ReserveRow, CanReserve, Reserved
  <2> QED BY <1>0, <2>5, ReserveRowStep
<1>2. ASSUME NEW s \in Sessions, ReturnFlush(s) PROVE References'
  <2>1. request[s].item \in ItemIds /\ request[s].res \in ResIds /\ "AVAL" \in Statuses
    BY <1>2 DEF ReturnFlush, TypeOK, Statuses
  <2>2. SameItems
    BY <1>0, <1>2, <2>1, FlushSameItems DEF ReturnFlush
  <2>3. Live' \subseteq Live /\ \A r \in Live' : reservations'[r] = reservations[r]
    BY <1>0, <1>2, <2>1 DEF ReturnFlush, Live, ClosetTypeOK
  <2> QED BY <1>0, <1>2, <2>2, <2>3, SameItemsStep DEF ReturnFlush
<1>3. ASSUME UNCHANGED <<users, inventory, reservations>> PROVE References'
  BY <1>3 DEF References, UniqueReservation, NoDanglingReferences, ReservedAreCatalogued, Live
<1>4. ASSUME NEW s \in Sessions, Start(s) \/ (Handle(s) /\ ~RentFlush(s) /\ ~ReturnFlush(s)) \/ Abort(s)
      PROVE  UNCHANGED <<users, inventory, reservations>>
  BY <1>4 DEF Start, Handle, RentLoad, ReturnLoad, RentCheck, RentRefused, RentMail, Send,
              ReturnTouch, ReturnLost, Abort
<1> QED BY <1>1, <1>2, <1>3, <1>4 DEF Next, Handle, closetVars

\* A request moves to q, and the tables that changed are of their types.
LEMMA MovedTo ==
  ASSUME SystemTypeOK, NEW s \in Sessions, NEW q, Fits(q),
         request' = [request EXCEPT ![s] = q],
         inventory' \in [ItemIds -> InventoryRow \cup {NULL}],
         UNCHANGED <<users, reservations, nextReservation>>,
         freshItems' \subseteq freshItems,
         sent' \subseteq Mail
  PROVE  /\ SystemTypeOK'
         /\ \A t \in Sessions : request'[t] = IF t = s THEN q ELSE request[t]
<1>1. users' \subseteq Users /\ freshItems' \subseteq ItemIds
  BY DEF SystemTypeOK, TypeOK, ClosetTypeOK
<1>2. SystemTypeOK'
  BY <1>1, MovedTypeOK DEF Fits
<1>3. \A t \in Sessions : request'[t] = IF t = s THEN q ELSE request[t]
  BY DEF SystemTypeOK, TypeOK, ClosetTypeOK
<1> QED BY <1>2, <1>3

\* A request ends.
LEMMA EndedTypeOK ==
  ASSUME SystemTypeOK, NEW s \in Sessions, Done(s),
         inventory' \in [ItemIds -> InventoryRow \cup {NULL}],
         UNCHANGED <<users, reservations, nextReservation>>,
         freshItems' \subseteq freshItems,
         sent' \subseteq Mail
  PROVE  /\ SystemTypeOK'
         /\ \A t \in Sessions : request'[t] = request[t] \/ request'[t].at = "idle"
<1>1. Fits(Idle) /\ Idle.at = "idle"
  BY DEF Fits, Idle, Request, Points, RentalPoints
<1>2. request' = [request EXCEPT ![s] = Idle]
  BY DEF Done
<1>3. SystemTypeOK' /\ \A t \in Sessions : request'[t] = IF t = s THEN Idle ELSE request[t]
  BY <1>1, <1>2, MovedTo
<1> QED BY <1>1, <1>3

RequestsPoints == {"submitLoaded", "submitCommitted", "acceptLoaded", "acceptCommitted",
                   "rejectLoaded", "rejectCommitted", "idle"}

LEMMA CommittedIs ==
  ASSUME SystemTypeOK, NEW s \in Sessions, NEW i \in ItemIds,
         NEW at \in {"submitCommitted", "acceptCommitted", "rejectCommitted"}
  PROVE  Fits(Committed(s, at, i)) /\ Committed(s, at, i).at = at
<1>1. request[s] \in Request
  BY DEF SystemTypeOK, TypeOK, ClosetTypeOK
<1>2. /\ Committed(s, at, i) \in Request
      /\ Committed(s, at, i).at = at /\ Committed(s, at, i).item = i
  BY <1>1 DEF Committed, Request, Points
<1> QED BY <1>2 DEF Fits, RentalPoints

LEMMA RequestsKeep ==
  ASSUME SystemTypeOK, References, NEW s \in Sessions, RequestsStart(s) \/ RequestsHandle(s)
  PROVE  /\ SystemTypeOK' /\ References'
         /\ \A t \in Sessions : request'[t] = request[t] \/ request'[t].at \in RequestsPoints
<1> USE DEF RequestsPoints
<1> DEFINE Kept == /\ SystemTypeOK'
                   /\ \A t \in Sessions : request'[t] = request[t] \/ request'[t].at \in RequestsPoints
<1>0. /\ ClosetTypeOK /\ request[s] \in Request /\ UserOf[s] \in Users
      /\ inventory \in [ItemIds -> InventoryRow \cup {NULL}] /\ sent \subseteq Mail
      /\ request[s].at \notin ItemlessPoints => request[s].item \in ItemIds
      /\ request \in [Sessions -> Request]
  BY SessionsAssumption DEF SystemTypeOK, TypeOK, ClosetTypeOK
<1>a. ASSUME UNCHANGED <<users, inventory, reservations>> PROVE References'
  BY <1>a DEF References, UniqueReservation, NoDanglingReferences, ReservedAreCatalogued, Live
<1>b. ASSUME Done(s), UNCHANGED tables, sent' \subseteq Mail PROVE Kept /\ References'
  BY <1>0, <1>a, <1>b, EndedTypeOK
<1>1. ASSUME NEW pending \in Pending, NEW t \in Types, SubmitLoad(s, pending, t)
      PROVE  Kept /\ References'
  <2> DEFINE q == [Idle EXCEPT !.at = "submitLoaded", !.seen = pending, !.type = t,
                               !.user = UserOf[s]]
  <2>1. UserOf[s] \in Users /\ pending \in Statuses
    BY <1>0 DEF Pending, Statuses
  <2>2. request' = [request EXCEPT ![s] = q] /\ UNCHANGED <<tables, sent>>
    BY <1>1 DEF SubmitLoad
  <2>3. q \in Request /\ q.at = "submitLoaded" /\ q.seen = pending /\ q.type = t
    BY <2>1 DEF Idle, Request, Points
  <2> HIDE DEF q
  <2>4. Fits(q)
    BY <2>3 DEF Fits, RentalPoints
  <2> QED BY <1>0, <1>a, <2>2, <2>3, <2>4, MovedTo
<1>2. ASSUME NEW i \in ItemIds, AcceptLoad(s, i) \/ RejectLoad(s, i)
      PROVE  Kept /\ References'
  <2>1. PICK at \in {"acceptLoaded", "rejectLoaded"} : VerdictLoad(s, i, at)
    BY <1>2 DEF AcceptLoad, RejectLoad
  <2> DEFINE q == [Idle EXCEPT !.at = at, !.item = i, !.seen = inventory[i].status]
  <2>2. /\ inventory[i] # NULL /\ request' = [request EXCEPT ![s] = q]
        /\ UNCHANGED <<tables, sent>>
    BY <2>1 DEF VerdictLoad
  <2>3. inventory[i].status \in Statuses
    BY <1>0, <2>2 DEF InventoryRow
  <2>4. q \in Request /\ q.at = at /\ q.item = i /\ q.seen = inventory[i].status
    BY <2>3 DEF Idle, Request, Points
  <2> HIDE DEF q
  <2>5. Fits(q)
    BY <2>3, <2>4 DEF Fits, RentalPoints
  <2> QED BY <1>0, <1>a, <2>2, <2>4, <2>5, MovedTo
<1>3. CASE SubmitFlush(s)
  <2> DEFINE row == [status |-> request[s].seen, type |-> request[s].type, user |-> request[s].user]
  <2>1. PICK i \in freshItems :
          /\ inventory' = [inventory EXCEPT ![i] = row]
          /\ freshItems' = freshItems \ {i}
          /\ request' = [request EXCEPT ![s].at = "submitCommitted", ![s].item = i]
    BY <1>3 DEF SubmitFlush
  <2>2. /\ i \in ItemIds /\ request[s].seen \in Pending /\ request[s].type \in Types
        /\ request[s].user \in users \cup {NULL} /\ users \subseteq Users
        /\ UNCHANGED <<users, reservations, nextReservation, sent>>
    BY <1>3 DEF SubmitFlush, Submittable, SystemTypeOK, TypeOK, ClosetTypeOK
  <2>3. row \in InventoryRow /\ row.user \in users \cup {NULL}
    BY <2>2 DEF InventoryRow, Pending, Statuses
  <2> HIDE DEF row
  <2>4. inventory' \in [ItemIds -> InventoryRow \cup {NULL}]
    BY <1>0, <2>1, <2>2, <2>3
  <2>5. request' = [request EXCEPT ![s] = Committed(s, "submitCommitted", i)]
    BY <1>0, <2>1 DEF Committed
  <2>6. Kept
    <3>1. PICK q : q = Committed(s, "submitCommitted", i)
      OBVIOUS
    <3>2. Fits(q) /\ q.at = "submitCommitted"
      BY <2>2, <3>1, CommittedIs
    <3>3. request' = [request EXCEPT ![s] = q] /\ freshItems' \subseteq freshItems
      BY <2>1, <2>5, <3>1
    <3> QED BY <1>0, <2>2, <2>4, <3>2, <3>3, MovedTo
  <2>7. References'
    BY <1>0, <2>1, <2>2, <2>3, CatalogueStep
  <2> QED BY <2>6, <2>7
<1>4. CASE AcceptFlush(s)
  <2>1. PICK i, seen : i = request[s].item /\ seen = request[s].seen
    OBVIOUS
  <2>2. /\ i \in ItemIds /\ inventory' = FlushStatus(i, seen, "PENDING_ARRIVAL")
        /\ request' = [request EXCEPT ![s].at = "acceptCommitted"]
        /\ UNCHANGED <<users, reservations, nextReservation, freshItems, sent>>
    BY <1>0, <1>4, <2>1 DEF AcceptFlush
  <2>3. "PENDING_ARRIVAL" \in Statuses
    BY DEF Statuses
  <2>4. inventory' \in [ItemIds -> InventoryRow \cup {NULL}]
    BY <1>0, <2>2, <2>3, FlushStatusEffect
  <2>5. request' = [request EXCEPT ![s] = Committed(s, "acceptCommitted", i)]
    BY <1>0, <2>1, <2>2 DEF Committed, Request
  <2>6. Kept
    <3>1. PICK q : q = Committed(s, "acceptCommitted", i)
      OBVIOUS
    <3>2. Fits(q) /\ q.at = "acceptCommitted"
      BY <2>2, <3>1, CommittedIs
    <3>3. request' = [request EXCEPT ![s] = q]
      BY <2>5, <3>1
    <3> QED BY <1>0, <2>2, <2>4, <3>2, <3>3, MovedTo
  <2>7. References'
    BY <1>0, <2>2, <2>3, FlushSameItems, SameItemsStep DEF Live
  <2> QED BY <2>6, <2>7
<1>5. CASE RejectFlush(s)
  <2>1. PICK i : i = request[s].item
    OBVIOUS
  <2>2. /\ i \in ItemIds /\ inventory' = [inventory EXCEPT ![i] = NULL] /\ ~Reserved(i)
        /\ request' = [request EXCEPT ![s].at = "rejectCommitted"]
        /\ UNCHANGED <<users, reservations, nextReservation, freshItems, sent>>
    BY <1>0, <1>5, <2>1 DEF RejectFlush
  <2>3. inventory' \in [ItemIds -> InventoryRow \cup {NULL}]
    BY <1>0, <2>2
  <2>4. request' = [request EXCEPT ![s] = Committed(s, "rejectCommitted", i)]
    BY <1>0, <2>1, <2>2 DEF Committed, Request
  <2>5. Kept
    <3>1. PICK q : q = Committed(s, "rejectCommitted", i)
      OBVIOUS
    <3>2. Fits(q) /\ q.at = "rejectCommitted"
      BY <2>2, <3>1, CommittedIs
    <3>3. request' = [request EXCEPT ![s] = q]
      BY <2>4, <3>1
    <3> QED BY <1>0, <2>2, <2>3, <3>2, <3>3, MovedTo
  <2> QED BY <1>0, <2>2, <2>5, RemoveStep
<1>6. CASE SubmitMail(s) \/ AcceptMail(s) \/ RejectMail(s)
  <2>1. PICK kind \in {"received", "accepted", "rejected"} :
          Send(s, Notice(s, kind)) /\ request[s].item \in ItemIds
    BY <1>0, <1>6 DEF SubmitMail, AcceptMail, RejectMail
  <2>2. Notice(s, kind) \in Mail
    BY <1>0, <2>1 DEF Notice, Mail
  <2> QED BY <1>0, <1>b, <2>1, <2>2 DEF Send
<1>7. CASE SubmitRefused(s) \/ RejectRefused(s)
  BY <1>0, <1>b, <1>7 DEF SubmitRefused, RejectRefused
<1> QED
  BY <1>1, <1>2, <1>3, <1>4, <1>5, <1>6, <1>7 DEF RequestsStart, RequestsHandle

LEMMA ClosetKeeps ==
  ASSUME DeskInv, [ClosetNext]_closetVars, UNCHANGED form
  PROVE  DeskInv'
<1>0. SystemTypeOK /\ TypeOK /\ References
  BY DEF DeskInv, DeskTypeOK, References, SystemTypeOK
<1>1. CASE [Next]_closetVars
  <2>1. SystemTypeOK' /\ References'
    BY <1>0, <1>1, RentalKeepsSystemTypeOK, RentalKeepsReferences
  <2>2. \A t \in Sessions : request'[t] = request[t] \/ request'[t].at \notin DeskPoints
    BY <1>0, <1>1, RentalMoves DEF DeskPoints, RentalPoints
  <2> QED BY <2>1, <2>2 DEF DeskInv, DeskTypeOK, DeskReady, References, DeskPoints
<1>2. ASSUME NEW s \in Sessions, RequestsStart(s) \/ RequestsHandle(s) PROVE DeskInv'
  <2>1. SystemTypeOK' /\ References'
    BY <1>0, <1>2, RequestsKeep
  <2>2. \A t \in Sessions : request'[t] = request[t] \/ request'[t].at \notin DeskPoints
    BY <1>0, <1>2, RequestsKeep DEF DeskPoints, RequestsPoints
  <2> QED BY <2>1, <2>2 DEF DeskInv, DeskTypeOK, DeskReady, References, DeskPoints
<1> QED BY <1>1, <1>2 DEF ClosetNext
-----------------------------------------------------------------------------
(* The steps of the desk.                                                    *)

\* What a submitted form, and a request that has bound one, must have.
Complete(s) ==
  /\ request[s].at = "editLoaded" => form[s].status \in Statuses /\ form[s].type \in Types
  /\ request[s].at = "resEditLoaded" => form[s].item \in ItemIds /\ form[s].user \in Users
  /\ DeskReady(s)

\* A step of one session.
LEMMA DeskMoved ==
  ASSUME DeskInv, NEW s \in Sessions,
         SystemTypeOK', References',
         \A t \in Sessions \ {s} : request'[t] = request[t] /\ form'[t] = form[t],
         form' \in [Sessions -> Form],
         Complete(s)'
  PROVE  DeskInv'
<1>1. ASSUME NEW t \in Sessions PROVE Complete(t)'
  <2>1. CASE t = s
    BY <2>1
  <2>2. CASE t # s
    <3>1. Complete(t)
      BY DEF Complete, DeskInv, DeskTypeOK
    <3> QED BY <2>2, <3>1 DEF Complete, DeskReady
  <2> QED BY <2>1, <2>2
<1> QED BY <1>1 DEF DeskInv, DeskTypeOK, Complete, References

\* A request that ends.
LEMMA DeskEnded ==
  ASSUME DeskInv, NEW s \in Sessions, Done(s), SystemTypeOK', References',
         form' = form \/ form' = [form EXCEPT ![s] = NoForm]
  PROVE  DeskInv'
<1>1. Idle.at = "idle" /\ NoForm \in Form /\ NoForm.shown = NULL
  BY DEF Idle, NoForm, Form
<1>2. request \in [Sessions -> Request] /\ form \in [Sessions -> Form]
  BY DEF DeskInv, DeskTypeOK, SystemTypeOK, TypeOK, ClosetTypeOK
<1>3. /\ \A t \in Sessions \ {s} : request'[t] = request[t] /\ form'[t] = form[t]
      /\ request'[s] = Idle /\ form'[s] \in {form[s], NoForm}
      /\ form' \in [Sessions -> Form]
  BY <1>1, <1>2 DEF Done
<1>4. DeskReady(s)
  BY DEF DeskInv
<1>5. Complete(s)'
  BY <1>1, <1>3, <1>4 DEF Complete, DeskReady
<1> QED BY <1>3, <1>5, DeskMoved

\* A request that starts, and writes nothing.
LEMMA DeskStarted ==
  ASSUME DeskInv, NEW s \in Sessions, NEW q, Fits(q),
         request' = [request EXCEPT ![s] = q], UNCHANGED <<tables, sent, form>>,
         q.at \notin {"editLoaded", "resEditLoaded"},
         q.at = "itemNewLoaded" => q.seen \in Statuses /\ q.type \in Types
  PROVE  DeskInv'
<1>1. SystemTypeOK /\ inventory \in [ItemIds -> InventoryRow \cup {NULL}] /\ sent \subseteq Mail
  BY DEF DeskInv, DeskTypeOK, SystemTypeOK, TypeOK, ClosetTypeOK
<1>2. SystemTypeOK' /\ \A t \in Sessions : request'[t] = IF t = s THEN q ELSE request[t]
  BY <1>1, MovedTo
<1>3. References'
  BY DEF DeskInv, References, UniqueReservation, NoDanglingReferences, ReservedAreCatalogued, Live
<1>4. DeskReady(s) /\ form \in [Sessions -> Form]
  BY DEF DeskInv, DeskTypeOK
<1>5. Complete(s)'
  BY <1>2, <1>4 DEF Complete, DeskReady
<1> QED BY <1>2, <1>3, <1>4, <1>5, DeskMoved

LEMMA InvIs ==
  ASSUME DeskInv, NEW s \in Sessions
  PROVE  /\ SystemTypeOK /\ TypeOK /\ ClosetTypeOK /\ References
         /\ request[s] \in Request /\ form[s] \in Form /\ Complete(s)
         /\ request \in [Sessions -> Request] /\ form \in [Sessions -> Form]
         /\ request[s].at \notin ItemlessPoints => request[s].item \in ItemIds
         /\ inventory \in [ItemIds -> InventoryRow \cup {NULL}]
         /\ reservations \in [ResIds -> ReservationRow \cup {NULL}]
         /\ users \subseteq Users /\ freshItems \subseteq ItemIds /\ sent \subseteq Mail
BY DEF DeskInv, DeskTypeOK, SystemTypeOK, TypeOK, ClosetTypeOK, References, Complete

LEMMA FormOpenKeeps ==
  ASSUME DeskInv, NEW s \in Sessions, NEW i \in ItemIds, FormOpen(s, i)
  PROVE  DeskInv'
<1> DEFINE f == [item   |-> i,
                 shown  |-> inventory[i].status,
                 status |-> inventory[i].status,
                 type   |-> inventory[i].type,
                 user   |-> inventory[i].user]
<1>1. /\ inventory[i] \in InventoryRow /\ request[s].at = "idle"
      /\ form' = [form EXCEPT ![s] = f] /\ UNCHANGED closetVars
  BY InvIs DEF FormOpen, Accept, Busy
<1>2. f \in Form /\ f.item = i
  BY <1>1 DEF Form, InventoryRow
<1> HIDE DEF f
<1>3. /\ form' \in [Sessions -> Form] /\ form'[s] = f
      /\ \A t \in Sessions \ {s} : form'[t] = form[t]
  BY <1>1, <1>2, InvIs
<1>4. SystemTypeOK'
  BY <1>1, InvIs, RentalKeepsSystemTypeOK
<1>5. References' /\ request' = request
  BY <1>1, InvIs, RentalKeepsReferences DEF closetVars
<1>6. Complete(s)'
  BY <1>1, <1>2, <1>3, <1>5 DEF Complete, DeskReady
<1> QED BY <1>3, <1>4, <1>5, <1>6, DeskMoved

LEMMA EditPostKeeps ==
  ASSUME DeskInv, NEW s \in Sessions, NEW status \in Statuses, NEW t \in Types,
         NEW u \in Users \cup {NULL}, EditPost(s, status, t, u)
  PROVE  DeskInv'
<1>1. PICK i, row : i = form[s].item /\ row = inventory[i]
  OBVIOUS
<1> DEFINE q == [Idle EXCEPT !.at   = "editLoaded",
                             !.item = i,
                             !.seen = row.status,
                             !.type = row.type,
                             !.user = row.user]
           f == [form[s] EXCEPT !.status = status, !.type = t, !.user = u]
<1>2. i \in ItemIds /\ row # NULL
  BY <1>1, InvIs DEF EditPost, Complete, DeskReady
<1>3. row \in InventoryRow
  BY <1>1, <1>2, InvIs
<1>4. q \in Request /\ q.at = "editLoaded" /\ q.item = i
  BY <1>2, <1>3 DEF Idle, Request, Points, InventoryRow
<1>5. f \in Form /\ f.status = status /\ f.type = t /\ f.shown = form[s].shown /\ f.item = i
  BY <1>1, InvIs DEF Form
<1>6. request' = [request EXCEPT ![s] = q] /\ UNCHANGED <<tables, sent>>
  BY <1>1 DEF EditPost
<1>7. form' = [form EXCEPT ![s] = f]
  BY InvIs DEF EditPost, Form
<1> HIDE DEF q, f
<1>8. Fits(q)
  BY <1>2, <1>4 DEF Fits, RentalPoints
<1>9. SystemTypeOK' /\ \A v \in Sessions : request'[v] = IF v = s THEN q ELSE request[v]
  BY <1>6, <1>8, InvIs, MovedTo
<1>10. References'
  BY <1>6 DEF DeskInv, References, UniqueReservation, NoDanglingReferences, ReservedAreCatalogued, Live
<1>11. /\ form' \in [Sessions -> Form] /\ form'[s] = f
       /\ \A v \in Sessions \ {s} : form'[v] = form[v]
  BY <1>5, <1>7, InvIs
<1>12. Complete(s)'
  BY <1>2, <1>4, <1>5, <1>9, <1>11 DEF Complete, DeskReady
<1> QED BY <1>9, <1>10, <1>11, <1>12, DeskMoved

LEMMA PostKeeps ==
  ASSUME DeskInv, NEW s \in Sessions
  PROVE  /\ \A status \in Statuses, t \in Types, u \in Users \cup {NULL} :
              ItemNewPost(s, status, t, u) => DeskInv'
         /\ \A i \in ItemIds : DropLoad(s, i) => DeskInv'
         /\ \A u \in Users : UserDropLoad(s, u) => DeskInv'
         /\ \A u \in Users, i \in ItemIds : ResNewPost(s, u, i) => DeskInv'
<1>1. ASSUME NEW status \in Statuses, NEW t \in Types, NEW u \in Users \cup {NULL},
             ItemNewPost(s, status, t, u)
      PROVE  DeskInv'
  <2>1. PICK q : q = [Idle EXCEPT !.at = "itemNewLoaded", !.seen = status, !.type = t, !.user = u]
    OBVIOUS
  <2>2. q \in Request /\ q.at = "itemNewLoaded" /\ q.seen = status /\ q.type = t
    BY <2>1 DEF Idle, Request, Points
  <2>3. Fits(q)
    BY <2>2 DEF Fits, RentalPoints
  <2>4. request' = [request EXCEPT ![s] = q] /\ UNCHANGED <<tables, sent, form>>
    BY <1>1, <2>1 DEF ItemNewPost
  <2> QED BY <2>2, <2>3, <2>4, DeskStarted
<1>2. ASSUME NEW i \in ItemIds, DropLoad(s, i) PROVE DeskInv'
  <2>1. PICK q : q = [Idle EXCEPT !.at = "dropLoaded", !.item = i]
    OBVIOUS
  <2>2. q \in Request /\ q.at = "dropLoaded" /\ q.item = i
    BY <2>1 DEF Idle, Request, Points
  <2>3. Fits(q)
    BY <2>2 DEF Fits, RentalPoints
  <2>4. request' = [request EXCEPT ![s] = q] /\ UNCHANGED <<tables, sent, form>>
    BY <1>2, <2>1 DEF DropLoad
  <2> QED BY <2>2, <2>3, <2>4, DeskStarted
<1>3. ASSUME NEW u \in Users, UserDropLoad(s, u) PROVE DeskInv'
  <2>1. PICK q : q = [Idle EXCEPT !.at = "userDropLoaded", !.user = u]
    OBVIOUS
  <2>2. q \in Request /\ q.at = "userDropLoaded"
    BY <2>1 DEF Idle, Request, Points
  <2>3. Fits(q)
    BY <2>2 DEF Fits, RentalPoints
  <2>4. request' = [request EXCEPT ![s] = q] /\ UNCHANGED <<tables, sent, form>>
    BY <1>3, <2>1 DEF UserDropLoad
  <2> QED BY <2>2, <2>3, <2>4, DeskStarted
<1>4. ASSUME NEW u \in Users, NEW i \in ItemIds, ResNewPost(s, u, i) PROVE DeskInv'
  <2>1. PICK q : q = [Idle EXCEPT !.at = "resNewLoaded", !.user = u, !.item = i]
    OBVIOUS
  <2>2. q \in Request /\ q.at = "resNewLoaded" /\ q.item = i
    BY <2>1 DEF Idle, Request, Points
  <2>3. Fits(q)
    BY <2>2 DEF Fits, RentalPoints
  <2>4. request' = [request EXCEPT ![s] = q] /\ UNCHANGED <<tables, sent, form>>
    BY <1>4, <2>1 DEF ResNewPost
  <2> QED BY <2>2, <2>3, <2>4, DeskStarted
<1> QED BY <1>1, <1>2, <1>3, <1>4

LEMMA ResEditPostKeeps ==
  ASSUME DeskInv, NEW s \in Sessions, NEW r \in ResIds, NEW u \in Users, NEW i \in ItemIds,
         ResEditPost(s, r, u, i)
  PROVE  DeskInv'
<1>1. PICK q, f : /\ q = [Idle EXCEPT !.at   = "resEditLoaded",
                                     !.res  = r,
                                     !.user = reservations[r].user,
                                     !.item = reservations[r].item]
                  /\ f = [NoForm EXCEPT !.user = u, !.item = i]
  OBVIOUS
<1>2. reservations[r] \in ReservationRow
  BY InvIs DEF ResEditPost, Live
<1>3. q \in Request /\ q.at = "resEditLoaded" /\ q.item \in ItemIds
  BY <1>1, <1>2 DEF Idle, Request, Points, ReservationRow
<1>4. f \in Form /\ f.user = u /\ f.item = i
  BY <1>1 DEF Form, NoForm
<1>5. /\ request' = [request EXCEPT ![s] = q] /\ UNCHANGED <<tables, sent>>
      /\ form' = [form EXCEPT ![s] = f]
  BY <1>1 DEF ResEditPost
<1>6. Fits(q)
  BY <1>3 DEF Fits, RentalPoints
<1>7. SystemTypeOK' /\ \A v \in Sessions : request'[v] = IF v = s THEN q ELSE request[v]
  BY <1>5, <1>6, InvIs, MovedTo
<1>8. References'
  BY <1>5 DEF DeskInv, References, UniqueReservation, NoDanglingReferences, ReservedAreCatalogued, Live
<1>9. /\ form' \in [Sessions -> Form] /\ form'[s] = f
      /\ \A v \in Sessions \ {s} : form'[v] = form[v]
  BY <1>4, <1>5, InvIs
<1>10. Complete(s)'
  BY <1>3, <1>4, <1>7, <1>9 DEF Complete, DeskReady
<1> QED BY <1>7, <1>8, <1>9, <1>10, DeskMoved

\* A step that changes only who has a row in User, and may end a request.
LEMMA UsersChange ==
  ASSUME DeskInv, NEW s \in Sessions, users' \subseteq Users, References',
         UNCHANGED <<inventory, reservations, nextReservation, freshItems, sent, form>>,
         request' = request \/ Done(s)
  PROVE  DeskInv'
<1>1. SystemTypeOK'
  <2>1. CASE request' = request
    BY <2>1 DEF DeskInv, DeskTypeOK, SystemTypeOK, TypeOK, ClosetTypeOK
  <2>2. CASE Done(s)
    <3>1. PICK q : q = Idle
      OBVIOUS
    <3>2. q \in Request /\ q.at = "idle"
      BY <3>1 DEF Idle, Request, Points
    <3>3. request' = [request EXCEPT ![s] = q]
      BY <2>2, <3>1 DEF Done
    <3> QED BY <3>2, <3>3, InvIs, MovedTypeOK DEF RentalPoints, ItemlessPoints
  <2> QED BY <2>1, <2>2
<1>2. CASE request' = request
  BY <1>1, <1>2, InvIs, DeskMoved DEF Complete, DeskReady
<1>3. CASE Done(s)
  BY <1>1, <1>3, DeskEnded
<1> QED BY <1>2, <1>3

LEMMA StartKeeps ==
  ASSUME DeskInv, NEW s \in Sessions, DeskStart(s)
  PROVE  DeskInv'
<1>1. ASSUME NEW u \in Users, UserNew(s, u) PROVE DeskInv'
  <2>1. SameItems /\ users \subseteq users' /\ users' \subseteq Users
    BY <1>1, InvIs DEF UserNew, SameItems
  <2>2. References'
    BY <1>1, <2>1, InvIs, SameItemsStep DEF UserNew, Live
  <2> QED BY <1>1, <2>1, <2>2, UsersChange DEF UserNew
<1> QED
  BY <1>1, FormOpenKeeps, EditPostKeeps, PostKeeps, ResEditPostKeeps DEF DeskStart

\* A flush that writes the tables it says, and ends the request.
LEMMA FlushKeeps ==
  ASSUME DeskInv, NEW s \in Sessions, Done(s), References',
         inventory' \in [ItemIds -> InventoryRow \cup {NULL}],
         reservations' \in [ResIds -> ReservationRow \cup {NULL}],
         nextReservation' \in 1..(MaxReservations + 1),
         freshItems' \subseteq freshItems,
         form' = form \/ form' = [form EXCEPT ![s] = NoForm],
         UNCHANGED <<users, sent>>
  PROVE  DeskInv'
<1>1. Idle \in Request /\ Idle.at = "idle"
  BY DEF Idle, Request, Points
<1>2. \A t \in Sessions : request'[t] = request[t] \/ request'[t].at = "idle"
  BY <1>1, InvIs DEF Done
<1>3. ClosetTypeOK'
  BY <1>1, InvIs DEF Done, ClosetTypeOK
<1>4. SystemTypeOK'
  BY <1>2, <1>3, InvIs DEF SystemTypeOK, TypeOK, ItemlessPoints
<1> QED BY <1>4, DeskEnded

\* What a handler writes in place of what it loaded.
LEMMA SavedIn ==
  ASSUME NEW S, NEW submitted \in S, NEW now \in S, NEW loaded
  PROVE  Saved(submitted, loaded, now) \in S
BY DEF Saved

LEMMA EditFlushKeeps ==
  ASSUME DeskInv, NEW s \in Sessions, EditFlush(s)
  PROVE  DeskInv'
<1>1. PICK i : i = request[s].item
  OBVIOUS
<1>2. i \in ItemIds /\ request[s].at = "editLoaded"
  BY <1>1, InvIs DEF EditFlush
<1>3. /\ Done(s) /\ form' = [form EXCEPT ![s] = NoForm]
      /\ UNCHANGED <<users, reservations, nextReservation, freshItems, sent>>
  BY DEF EditFlush
<1>4. nextReservation \in 1..(MaxReservations + 1)
  BY InvIs DEF ClosetTypeOK
<1>5. CASE inventory[i] = NULL
  <2>1. UNCHANGED inventory
    BY <1>1, <1>5 DEF EditFlush
  <2>2. References'
    BY <1>3, <2>1
    DEF DeskInv, References, UniqueReservation, NoDanglingReferences, ReservedAreCatalogued, Live
  <2> QED BY <1>3, <1>4, <2>1, <2>2, InvIs, FlushKeeps
<1>6. CASE inventory[i] # NULL
  <2>1. PICK row : row = EditedRow(s)
    OBVIOUS
  <2>2. inventory' = [inventory EXCEPT ![i] = row] /\ row.user \in users \cup {NULL}
    BY <1>1, <1>6, <2>1 DEF EditFlush, EditPermitted
  <2>3. inventory[i] \in InventoryRow
    BY <1>2, <1>6, InvIs
  <2>4. form[s].status \in Statuses /\ form[s].type \in Types /\ form[s].user \in Users \cup {NULL}
    BY <1>2, InvIs DEF Complete, Form
  <2>5. row \in InventoryRow
    BY <1>1, <2>1, <2>3, <2>4, SavedIn DEF EditedRow, InventoryRow
  <2>6. inventory' \in [ItemIds -> InventoryRow \cup {NULL}]
    BY <1>2, <2>2, <2>5, InvIs
  <2>7. References'
    BY <1>2, <1>3, <2>2, <2>5, InvIs, CatalogueStep
  <2> QED BY <1>3, <1>4, <2>6, <2>7, InvIs, FlushKeeps
<1> QED BY <1>5, <1>6

LEMMA ItemNewFlushKeeps ==
  ASSUME DeskInv, NEW s \in Sessions, ItemNewFlush(s)
  PROVE  DeskInv'
<1>1. PICK row : row = [status |-> request[s].seen, type |-> request[s].type, user |-> request[s].user]
  OBVIOUS
<1>2. PICK i \in freshItems :
        inventory' = [inventory EXCEPT ![i] = row] /\ freshItems' = freshItems \ {i}
  BY <1>1 DEF ItemNewFlush
<1>3. /\ request[s].at = "itemNewLoaded" /\ Done(s)
      /\ request[s].user \in users \cup {NULL}
      /\ UNCHANGED <<users, reservations, nextReservation, sent, form>>
  BY DEF ItemNewFlush, ItemNewPermitted
<1>4. i \in ItemIds /\ request[s].user \in Users \cup {NULL}
  BY <1>2, <1>3, InvIs
<1>5. row \in InventoryRow /\ row.user \in users \cup {NULL}
  BY <1>1, <1>3, <1>4, InvIs DEF Complete, DeskReady, InventoryRow
<1>6. inventory' \in [ItemIds -> InventoryRow \cup {NULL}]
  BY <1>2, <1>4, <1>5, InvIs
<1>7. References'
  BY <1>2, <1>3, <1>4, <1>5, InvIs, CatalogueStep
<1>8. nextReservation \in 1..(MaxReservations + 1)
  BY InvIs DEF ClosetTypeOK
<1> QED BY <1>2, <1>3, <1>6, <1>7, <1>8, InvIs, FlushKeeps

LEMMA DropFlushKeeps ==
  ASSUME DeskInv, NEW s \in Sessions, DropFlush(s)
  PROVE  DeskInv'
<1>1. PICK i : i = request[s].item
  OBVIOUS
<1>2. i \in ItemIds
  BY <1>1, InvIs DEF DropFlush
<1>3. /\ Done(s) /\ ~Reserved(i) /\ inventory' = [inventory EXCEPT ![i] = NULL]
      /\ UNCHANGED <<users, reservations, nextReservation, freshItems, sent, form>>
  BY <1>1 DEF DropFlush
<1>4. inventory' \in [ItemIds -> InventoryRow \cup {NULL}]
  BY <1>2, <1>3, InvIs
<1>5. References'
  BY <1>2, <1>3, InvIs, RemoveStep
<1>6. nextReservation \in 1..(MaxReservations + 1)
  BY InvIs DEF ClosetTypeOK
<1> QED BY <1>3, <1>4, <1>5, <1>6, InvIs, FlushKeeps

LEMMA UserDropFlushKeeps ==
  ASSUME DeskInv, NEW s \in Sessions, UserDropFlush(s)
  PROVE  DeskInv'
<1>1. PICK u : u = request[s].user
  OBVIOUS
<1>2. /\ ~Owned(u) /\ users' = users \ {u} /\ Done(s)
      /\ UNCHANGED <<inventory, reservations, nextReservation, freshItems, sent, form>>
  BY <1>1 DEF UserDropFlush
<1>3. References'
  BY <1>2, InvIs, UserDropStep
<1> QED BY <1>2, <1>3, InvIs, UsersChange

LEMMA ResNewFlushKeeps ==
  ASSUME DeskInv, NEW s \in Sessions, ResNewFlush(s)
  PROVE  DeskInv'
<1>1. PICK row : row = [user |-> request[s].user, item |-> request[s].item]
  OBVIOUS
<1>2. /\ request[s].at = "resNewLoaded" /\ nextReservation \in ResIds
      /\ CanReserve(request[s].user, request[s].item)
      /\ reservations' = [reservations EXCEPT ![nextReservation] = row]
      /\ nextReservation' = nextReservation + 1 /\ Done(s)
      /\ UNCHANGED <<users, inventory, freshItems, sent, form>>
  BY <1>1 DEF ResNewFlush, ResNewPermitted
<1>3. request[s].item \in ItemIds /\ request[s].user \in users /\ users \subseteq Users
  BY <1>2, InvIs DEF CanReserve
<1>4. row \in ReservationRow /\ row.user = request[s].user /\ row.item = request[s].item
  BY <1>1, <1>3 DEF ReservationRow
<1>5. ReserveRow(nextReservation, row)
  BY <1>2, <1>4 DEF ReserveRow, CanReserve, Reserved, SameItems
<1>6. References'
  BY <1>5, InvIs, ReserveRowStep
<1>7. reservations' \in [ResIds -> ReservationRow \cup {NULL}]
  BY <1>2, <1>4, InvIs
<1>8. nextReservation' \in 1..(MaxReservations + 1)
  BY <1>2, BoundsAssumption DEF ResIds
<1> QED BY <1>2, <1>6, <1>7, <1>8, InvIs, FlushKeeps

LEMMA ResEditFlushKeeps ==
  ASSUME DeskInv, NEW s \in Sessions, ResEditFlush(s)
  PROVE  DeskInv'
<1>1. PICK r, row : r = request[s].res /\ row = EditedReservation(s)
  OBVIOUS
<1>2. /\ request[s].at = "resEditLoaded" /\ Done(s) /\ form' = [form EXCEPT ![s] = NoForm]
      /\ UNCHANGED <<users, inventory, nextReservation, freshItems, sent>>
  BY DEF ResEditFlush
<1>3. nextReservation \in 1..(MaxReservations + 1)
  BY InvIs DEF ClosetTypeOK
<1>4. CASE r \notin Live
  <2>1. UNCHANGED reservations
    BY <1>1, <1>4 DEF ResEditFlush
  <2>2. References'
    BY <1>2, <2>1
    DEF DeskInv, References, UniqueReservation, NoDanglingReferences, ReservedAreCatalogued, Live
  <2> QED BY <1>2, <1>3, <2>1, <2>2, InvIs, FlushKeeps
<1>5. CASE r \in Live
  <2>1. /\ r \in ResIds /\ reservations' = [reservations EXCEPT ![r] = row]
        /\ row.user \in users /\ inventory[row.item] # NULL
        /\ \A n \in Live \ {r} : reservations[n].item # row.item
    BY <1>1, <1>5 DEF ResEditFlush, ResEditPermitted, Live
  <2>2. reservations[r] \in ReservationRow
    BY <1>5, <2>1, InvIs DEF Live
  <2>3. form[s].item \in ItemIds /\ form[s].user \in Users
    BY <1>2, InvIs DEF Complete
  <2>4. row \in ReservationRow
    BY <1>1, <2>2, <2>3, SavedIn DEF EditedReservation, ReservationRow
  <2>5. ReserveRow(r, row)
    BY <1>2, <2>1, <2>4 DEF ReserveRow, SameItems
  <2>6. References'
    BY <2>5, InvIs, ReserveRowStep
  <2>7. reservations' \in [ResIds -> ReservationRow \cup {NULL}]
    BY <2>1, <2>4, InvIs
  <2> QED BY <1>2, <1>3, <2>6, <2>7, InvIs, FlushKeeps
<1> QED BY <1>4, <1>5

\* A request that ends and has written nothing.
LEMMA NothingWritten ==
  ASSUME DeskInv, NEW s \in Sessions, Done(s), UNCHANGED <<tables, sent, form>>
  PROVE  DeskInv'
<1>1. References'
  BY DEF DeskInv, References, UniqueReservation, NoDanglingReferences, ReservedAreCatalogued, Live
<1>2. nextReservation \in 1..(MaxReservations + 1)
  BY InvIs DEF ClosetTypeOK
<1> QED BY <1>1, <1>2, InvIs, FlushKeeps

LEMMA HandleKeeps ==
  ASSUME DeskInv, NEW s \in Sessions, DeskHandle(s)
  PROVE  DeskInv'
BY EditFlushKeeps, ItemNewFlushKeeps, DropFlushKeeps, UserDropFlushKeeps,
   ResNewFlushKeeps, ResEditFlushKeeps, NothingWritten
DEF DeskHandle, DeskRefused

-----------------------------------------------------------------------------
LEMMA InitDeskInv == DeskInit => DeskInv
<1> SUFFICES ASSUME DeskInit PROVE DeskInv
  OBVIOUS
<1>1. ClosetInv
  BY InitClosetInv DEF DeskInit
<1>2. NoForm \in Form /\ NoForm.shown = NULL /\ Idle.at = "idle"
  BY DEF NoForm, Form, Idle
<1>3. \A s \in Sessions : request[s] = Idle /\ form[s] = NoForm
  BY DEF DeskInit, ClosetInit
<1>4. Live = {} /\ users = Users
  BY DEF DeskInit, ClosetInit, Live
<1>5. \A i \in ItemIds : inventory[i] # NULL => inventory[i].user \in users \cup {NULL}
  <2> SUFFICES ASSUME NEW i \in ItemIds, inventory[i] # NULL
               PROVE  inventory[i].user = NULL
    OBVIOUS
  <2>1. inventory[i] \in [status : {"AVAL"}, type : Types, user : {NULL}]
    BY DEF DeskInit, ClosetInit
  <2> QED BY <2>1
<1>6. form \in [Sessions -> Form]
  BY <1>2 DEF DeskInit
<1>7. DeskTypeOK /\ \A s \in Sessions : DeskReady(s)
  BY <1>1, <1>2, <1>3, <1>6 DEF DeskTypeOK, DeskReady, ClosetInv
<1>8. UniqueReservation /\ NoDanglingReferences
  BY <1>4, <1>5 DEF UniqueReservation, NoDanglingReferences, ReservedAreCatalogued
<1> QED BY <1>7, <1>8 DEF DeskInv

LEMMA NextDeskInv == DeskInv /\ [DeskNext]_deskVars => DeskInv'
<1> SUFFICES ASSUME DeskInv, [DeskNext]_deskVars PROVE DeskInv'
  OBVIOUS
<1>1. ASSUME NEW s \in Sessions, RentNobody(s) PROVE DeskInv'
  BY <1>1, NothingWritten DEF RentNobody
<1>2. ASSUME NEW s \in AdminSessions, DeskStart(s) \/ DeskHandle(s) PROVE DeskInv'
  <2>1. s \in Sessions
    BY SessionsAssumption
  <2> QED BY <1>2, <2>1, StartKeeps, HandleKeeps
<1> QED BY <1>1, <1>2, ClosetKeeps DEF DeskNext, deskVars

LEMMA DeskInvHolds == DeskSpec => []DeskInv
<1> QED BY InitDeskInv, NextDeskInv, PTL DEF DeskSpec

\* However the administrators' forms and deletions overlap with rentals,
\* returns, requests and verdicts, each variable has its type, and every form
\* that a handler of InventoryController or ReservationController has bound is
\* complete when it is flushed.
THEOREM DeskTypesCorrect == DeskSpec => []DeskTypeOK
<1>1. DeskInv => DeskTypeOK
  BY DEF DeskInv
<1> QED BY <1>1, DeskInvHolds, PTL

\* A reservation has its user and its item, and an item the user who asked for
\* it, for any users, sessions and administrators and however deletions by the
\* desk fall between the reads and the writes of the other handlers.
THEOREM ReferencesNeverDangle == DeskSpec => []NoDanglingReferences
<1>1. DeskInv => NoDanglingReferences
  BY DEF DeskInv
<1> QED BY <1>1, DeskInvHolds, PTL

-----------------------------------------------------------------------------
(* Who has what. Every step of every handler is one of these as far as       *)
(* custody goes.                                                             *)

Rests ==
  UNCHANGED <<users, reservations, nextReservation, freshItems>> /\ Stock' = Stock

\* A reservation is made, ended, or changed.
Makes(row) ==
  /\ nextReservation \in ResIds /\ row \in ReservationRow
  /\ row.user \in users /\ row.item \in Stock /\ ~Reserved(row.item)
  /\ reservations' = [reservations EXCEPT ![nextReservation] = row]
  /\ nextReservation' = nextReservation + 1
  /\ UNCHANGED <<users, freshItems>> /\ Stock' = Stock

Ends(r) ==
  /\ r \in ResIds
  /\ reservations' = [reservations EXCEPT ![r] = NULL]
  /\ UNCHANGED <<users, nextReservation, freshItems>> /\ Stock' = Stock

Edits(r, row) ==
  /\ r \in Live /\ row \in ReservationRow
  /\ row.user \in users /\ row.item \in Stock
  /\ \A q \in Live \ {r} : reservations[q].item # row.item
  /\ reservations' = [reservations EXCEPT ![r] = row]
  /\ UNCHANGED <<users, nextReservation, freshItems>> /\ Stock' = Stock

\* An item, or a user, comes or goes.
Enters(i) ==
  /\ i \in freshItems /\ freshItems' = freshItems \ {i} /\ Stock' = Stock \cup {i}
  /\ UNCHANGED <<users, reservations, nextReservation>>

Drops(i) ==
  /\ i \in ItemIds /\ ~Reserved(i) /\ Stock' = Stock \ {i}
  /\ UNCHANGED <<users, reservations, nextReservation, freshItems>>

Joins(u) ==
  /\ u \in Users /\ users' = users \cup {u}
  /\ UNCHANGED <<reservations, nextReservation, freshItems>> /\ Stock' = Stock

Leaves(u) ==
  /\ u \in Users /\ ReservationsOf(u) = {} /\ users' = users \ {u}
  /\ UNCHANGED <<reservations, nextReservation, freshItems>> /\ Stock' = Stock

HandsOver ==
  \/ Rests
  \/ \E row \in ReservationRow : Makes(row)
  \/ \E r \in ResIds : Ends(r)
  \/ \E r \in Live, row \in ReservationRow : Edits(r, row)
  \/ \E i \in ItemIds : Enters(i) \/ Drops(i)
  \/ \E u \in Users : Joins(u) \/ Leaves(u)

\* A flush() of a status neither makes nor removes a row.
LEMMA FlushKeepsStock ==
  ASSUME ClosetTypeOK, NEW i \in ItemIds, NEW seen, NEW status \in Statuses,
         inventory' = FlushStatus(i, seen, status)
  PROVE  Stock' = Stock
<1>1. SameItems
  BY FlushSameItems
<1> QED BY <1>1 DEF SameItems, Stock

LEMMA RowWritten ==
  ASSUME ClosetTypeOK, NEW i \in ItemIds, NEW row
  PROVE  /\ inventory' = [inventory EXCEPT ![i] = row] /\ row # NULL => Stock' = Stock \cup {i}
         /\ inventory' = [inventory EXCEPT ![i] = NULL] => Stock' = Stock \ {i}
BY DEF Stock, ClosetTypeOK

LEMMA RentalHandsOver ==
  ASSUME TypeOK, [Next]_closetVars
  PROVE  HandsOver
<1>0. ClosetTypeOK /\ "RENTED" \in Statuses /\ "AVAL" \in Statuses
  BY DEF TypeOK, Statuses
<1>1. ASSUME NEW s \in Sessions, RentFlush(s) PROVE HandsOver
  <2> DEFINE row == [user |-> UserOf[s], item |-> request[s].item]
  <2>1. request[s].item \in ItemIds /\ UserOf[s] \in Users
    BY <1>1, SessionsAssumption DEF RentFlush, TypeOK
  <2>2. row \in ReservationRow /\ row.user = UserOf[s] /\ row.item = request[s].item
    BY <2>1 DEF ReservationRow
  <2>3. Stock' = Stock
    BY <1>0, <1>1, <2>1, FlushKeepsStock DEF RentFlush
  <2>4. /\ nextReservation \in ResIds /\ CanReserve(UserOf[s], request[s].item)
        /\ reservations' = [reservations EXCEPT ![nextReservation] = row]
        /\ nextReservation' = nextReservation + 1
        /\ UNCHANGED <<users, freshItems>>
    BY <1>1 DEF RentFlush, Insertable
  <2> HIDE DEF row
  <2>5. Makes(row)
    BY <2>1, <2>2, <2>3, <2>4 DEF Makes, CanReserve, Stock
  <2> QED BY <2>2, <2>5 DEF HandsOver
<1>2. ASSUME NEW s \in Sessions, ReturnFlush(s) PROVE HandsOver
  <2>1. request[s].item \in ItemIds /\ request[s].res \in ResIds
    BY <1>2 DEF ReturnFlush, TypeOK
  <2>2. Stock' = Stock
    BY <1>0, <1>2, <2>1, FlushKeepsStock DEF ReturnFlush
  <2>3. Ends(request[s].res)
    BY <1>2, <2>1, <2>2 DEF ReturnFlush, Ends
  <2> QED BY <2>1, <2>3 DEF HandsOver
<1>3. ASSUME UNCHANGED tables PROVE HandsOver
  BY <1>3 DEF HandsOver, Rests, Stock
<1> QED BY <1>1, <1>2, <1>3, OnlyFlushWrites

LEMMA RequestsHandOver ==
  ASSUME SystemTypeOK, NEW s \in Sessions, RequestsStart(s) \/ RequestsHandle(s)
  PROVE  HandsOver
<1>0. /\ ClosetTypeOK
      /\ request[s].at \notin ItemlessPoints => request[s].item \in ItemIds
  BY DEF SystemTypeOK, TypeOK
<1>1. CASE SubmitFlush(s)
  <2> DEFINE row == [status |-> request[s].seen, type |-> request[s].type, user |-> request[s].user]
  <2>1. PICK i \in freshItems :
          inventory' = [inventory EXCEPT ![i] = row] /\ freshItems' = freshItems \ {i}
    BY <1>1 DEF SubmitFlush
  <2>2. /\ i \in ItemIds /\ request[s].seen \in Pending /\ request[s].type \in Types
        /\ request[s].user \in Users \cup {NULL}
        /\ UNCHANGED <<users, reservations, nextReservation>>
    BY <1>1 DEF SubmitFlush, Submittable, SystemTypeOK, TypeOK, ClosetTypeOK
  <2>3. row \in InventoryRow
    BY <2>2 DEF InventoryRow, Pending, Statuses
  <2> HIDE DEF row
  <2>4. Enters(i)
    BY <1>0, <2>1, <2>2, <2>3, RowIsNotNull, RowWritten DEF Enters
  <2> QED BY <2>2, <2>4 DEF HandsOver
<1>2. CASE AcceptFlush(s)
  <2>1. request[s].item \in ItemIds /\ "PENDING_ARRIVAL" \in Statuses
    BY <1>0, <1>2 DEF AcceptFlush, Statuses
  <2> QED BY <1>0, <1>2, <2>1, FlushKeepsStock DEF AcceptFlush, HandsOver, Rests
<1>3. CASE RejectFlush(s)
  <2>1. request[s].item \in ItemIds
    BY <1>0, <1>3 DEF RejectFlush
  <2>2. Drops(request[s].item)
    BY <1>0, <1>3, <2>1, RowWritten DEF RejectFlush, Drops
  <2> QED BY <2>1, <2>2 DEF HandsOver
<1>4. CASE UNCHANGED tables
  BY <1>4 DEF HandsOver, Rests, Stock
<1> QED
  BY <1>1, <1>2, <1>3, <1>4
  DEF RequestsStart, RequestsHandle, SubmitLoad, AcceptLoad, RejectLoad, VerdictLoad,
      SubmitRefused, RejectRefused, SubmitMail, AcceptMail, RejectMail, Send

LEMMA DeskHandsOver ==
  ASSUME DeskInv, NEW s \in Sessions, DeskStart(s) \/ DeskHandle(s)
  PROVE  HandsOver
<1>0. ClosetTypeOK /\ request[s].at \notin ItemlessPoints => request[s].item \in ItemIds
  BY InvIs
<1>1. CASE EditFlush(s)
  <2>1. PICK i, row : i = request[s].item /\ row = EditedRow(s)
    OBVIOUS
  <2>2. /\ i \in ItemIds /\ UNCHANGED <<users, reservations, nextReservation, freshItems>>
        /\ inventory' = IF inventory[i] = NULL THEN inventory
                        ELSE [inventory EXCEPT ![i] = row]
    BY <1>1, <2>1, InvIs DEF EditFlush
  <2>3. CASE inventory[i] = NULL
    BY <2>2, <2>3 DEF HandsOver, Rests, Stock
  <2>4. CASE inventory[i] # NULL
    <3>1. inventory[i] \in InventoryRow
      BY <2>2, <2>4, InvIs DEF ClosetTypeOK
    <3>2. form[s].status \in Statuses /\ form[s].type \in Types /\ form[s].user \in Users \cup {NULL}
      BY <1>1, InvIs DEF EditFlush, Complete, Form
    <3>3. row \in InventoryRow
      BY <2>1, <3>1, <3>2, SavedIn DEF EditedRow, InventoryRow
    <3>4. Stock' = Stock \cup {i} /\ i \in Stock
      BY <2>2, <2>4, <3>3, InvIs, RowIsNotNull, RowWritten DEF Stock
    <3> QED BY <2>2, <3>4 DEF HandsOver, Rests
  <2> QED BY <2>3, <2>4
<1>2. CASE ItemNewFlush(s)
  <2>1. PICK row : row = [status |-> request[s].seen, type |-> request[s].type, user |-> request[s].user]
    OBVIOUS
  <2>2. PICK i \in freshItems :
          inventory' = [inventory EXCEPT ![i] = row] /\ freshItems' = freshItems \ {i}
    BY <1>2, <2>1 DEF ItemNewFlush
  <2>3. /\ i \in ItemIds /\ request[s].at = "itemNewLoaded"
        /\ request[s].user \in Users \cup {NULL}
        /\ UNCHANGED <<users, reservations, nextReservation>>
    BY <1>2, InvIs DEF ItemNewFlush, ItemNewPermitted, ClosetTypeOK
  <2>4. row \in InventoryRow
    BY <2>1, <2>3, InvIs DEF Complete, DeskReady, InventoryRow
  <2>5. Enters(i)
    BY <2>2, <2>3, <2>4, InvIs, RowIsNotNull, RowWritten DEF Enters
  <2> QED BY <2>3, <2>5 DEF HandsOver
<1>3. CASE DropFlush(s)
  <2>1. request[s].item \in ItemIds
    BY <1>3, InvIs DEF DropFlush
  <2>2. Drops(request[s].item)
    BY <1>3, <2>1, InvIs, RowWritten DEF DropFlush, Drops
  <2> QED BY <2>1, <2>2 DEF HandsOver
<1>4. CASE UserDropFlush(s)
  <2>1. CASE request[s].user \in Users
    <3>1. Leaves(request[s].user)
      BY <1>4, <2>1 DEF UserDropFlush, Leaves, Owned, Stock
    <3> QED BY <2>1, <3>1 DEF HandsOver
  <2>2. CASE request[s].user \notin Users
    <3>1. users' = users
      BY <1>4, <2>2, InvIs DEF UserDropFlush, ClosetTypeOK
    <3> QED BY <1>4, <3>1 DEF UserDropFlush, HandsOver, Rests, Stock
  <2> QED BY <2>1, <2>2
<1>5. CASE ResNewFlush(s)
  <2>1. PICK row : row = [user |-> request[s].user, item |-> request[s].item]
    OBVIOUS
  <2>2. /\ request[s].item \in ItemIds /\ CanReserve(request[s].user, request[s].item)
        /\ nextReservation \in ResIds
        /\ reservations' = [reservations EXCEPT ![nextReservation] = row]
        /\ nextReservation' = nextReservation + 1
        /\ UNCHANGED <<users, inventory, freshItems>>
    BY <1>5, <2>1, InvIs DEF ResNewFlush, ResNewPermitted
  <2>3. row \in ReservationRow /\ row.user = request[s].user /\ row.item = request[s].item
    BY <2>1, <2>2, InvIs DEF ReservationRow, CanReserve, ClosetTypeOK
  <2>4. Makes(row)
    BY <2>2, <2>3 DEF Makes, CanReserve, Stock
  <2> QED BY <2>3, <2>4 DEF HandsOver
<1>6. CASE ResEditFlush(s)
  <2>1. PICK r, row : r = request[s].res /\ row = EditedReservation(s)
    OBVIOUS
  <2>2. CASE r \notin Live
    BY <1>6, <2>1, <2>2 DEF ResEditFlush, HandsOver, Rests, Stock
  <2>3. CASE r \in Live
    <3>1. /\ reservations' = [reservations EXCEPT ![r] = row]
          /\ row.user \in users /\ inventory[row.item] # NULL
          /\ \A q \in Live \ {r} : reservations[q].item # row.item
          /\ UNCHANGED <<users, inventory, nextReservation, freshItems>>
      BY <1>6, <2>1, <2>3 DEF ResEditFlush, ResEditPermitted
    <3>2. reservations[r] \in ReservationRow
      BY <2>3, InvIs DEF ClosetTypeOK, Live
    <3>3. form[s].item \in ItemIds /\ form[s].user \in Users
      BY <1>6, InvIs DEF ResEditFlush, Complete
    <3>4. row \in ReservationRow
      BY <2>1, <3>2, <3>3, SavedIn DEF EditedReservation, ReservationRow
    <3>5. row.item \in Stock
      BY <3>1, <3>4 DEF Stock, ReservationRow
    <3>6. Edits(r, row)
      BY <2>3, <3>1, <3>4, <3>5 DEF Edits, Stock
    <3> QED BY <2>3, <3>4, <3>6 DEF HandsOver
  <2> QED BY <2>2, <2>3
<1>7. ASSUME NEW u \in Users, UserNew(s, u) PROVE HandsOver
  <2>1. Joins(u)
    BY <1>7 DEF UserNew, Joins, Stock
  <2> QED BY <2>1 DEF HandsOver
<1>8. CASE UNCHANGED tables
  BY <1>8 DEF HandsOver, Rests, Stock
<1>9. DeskStart(s) => UNCHANGED tables \/ \E u \in Users : UserNew(s, u)
  BY DEF DeskStart, FormOpen, closetVars, DropLoad, EditPost, ItemNewPost, UserDropLoad,
         ResNewPost, ResEditPost
<1> QED
  BY <1>1, <1>2, <1>3, <1>4, <1>5, <1>6, <1>7, <1>8, <1>9 DEF DeskHandle, DeskRefused

LEMMA EveryStepHandsOver ==
  ASSUME DeskInv, [DeskNext]_deskVars
  PROVE  HandsOver
<1>0. SystemTypeOK /\ TypeOK
  BY DEF DeskInv, DeskTypeOK, SystemTypeOK
<1>1. CASE [ClosetNext]_closetVars
  BY <1>0, <1>1, RentalHandsOver, RequestsHandOver DEF ClosetNext
<1>2. ASSUME NEW s \in Sessions, RentNobody(s) PROVE HandsOver
  BY <1>2 DEF RentNobody, HandsOver, Rests, Stock
<1>3. ASSUME NEW s \in AdminSessions, DeskStart(s) \/ DeskHandle(s) PROVE HandsOver
  BY <1>3, SessionsAssumption, DeskHandsOver
<1> QED BY <1>1, <1>2, <1>3 DEF DeskNext, deskVars

-----------------------------------------------------------------------------
(* The desk implements Custody.                                              *)

CustodyInv == DeskInv /\ IdsIssued

\* The loans are the reservations: an item is out with the user of its
\* reservation, and with nobody if it has none.
LoansAre ==
  /\ \A r \in Live : /\ reservations[r].item \in ItemIds
                     /\ reservations[r].user \in Users
                     /\ reservations[r].user # NULL
                     /\ Loans[reservations[r].item] = reservations[r].user
  /\ \A i \in ItemIds : ~Reserved(i) => Loans[i] = NULL
  /\ Loans = [i \in ItemIds |-> Loans[i]]

LEMMA LoansAreReservations == ClosetTypeOK /\ UniqueReservation => LoansAre
<1> SUFFICES ASSUME ClosetTypeOK, UniqueReservation PROVE LoansAre
  OBVIOUS
<1>1. HoldersKnown
  BY HoldersAreKnown
<1>2. ASSUME NEW r \in Live
      PROVE  reservations[r].item \in ItemIds /\ reservations[r].user \in Users
  BY <1>2, RowsOfReservations
<1> QED BY <1>1, <1>2, NullAssumption DEF HoldersKnown, LoansAre, Loans

LEMMA LoansAreReservationsNext ==
  (ClosetTypeOK /\ UniqueReservation)' => LoansAre'
BY LoansAreReservations, PTL

\* Only the reservations make the loans.
LEMMA SameLoans == reservations' = reservations => Loans' = Loans
BY DEF Loans, Holder, Reserved, ReservationOf, Live

\* An item that no reservation of the next state is of, or that one is of.
LEMMA NextLoan ==
  ASSUME LoansAre', NEW i \in ItemIds
  PROVE  /\ (\A r \in Live' : reservations'[r].item # i) => Loans'[i] = NULL
         /\ \A r \in Live' : reservations'[r].item = i => Loans'[i] = reservations'[r].user
BY DEF LoansAre, Reserved

\* The other items keep their loans when one reservation is written.
LEMMA OtherLoans ==
  ASSUME LoansAre, LoansAre', NEW n,
         Live \ {n} = Live' \ {n},
         \A r \in Live \ {n} : reservations'[r] = reservations[r],
         NEW i \in ItemIds,
         n \in Live => reservations[n].item # i,
         n \in Live' => reservations'[n].item # i
  PROVE  Loans'[i] = Loans[i]
<1>1. CASE Reserved(i)
  <2>1. PICK r \in Live : reservations[r].item = i
    BY <1>1 DEF Reserved
  <2>2. r \in Live' /\ reservations'[r] = reservations[r]
    BY <2>1
  <2> QED BY <2>1, <2>2, NextLoan DEF LoansAre
<1>2. CASE ~Reserved(i)
  <2>1. \A r \in Live' : reservations'[r].item # i
    <3> SUFFICES ASSUME NEW r \in Live', reservations'[r].item = i PROVE FALSE
      OBVIOUS
    <3>1. r # n
      OBVIOUS
    <3>2. r \in Live /\ reservations'[r] = reservations[r]
      BY <3>1
    <3> QED BY <1>2, <3>2 DEF Reserved
  <2> QED BY <1>2, <2>1, NextLoan DEF LoansAre
<1> QED BY <1>1, <1>2

LEMMA MakesLends ==
  ASSUME CustodyInv, LoansAre, LoansAre', NEW row \in ReservationRow, Makes(row)
  PROVE  Keeping!Lend(row.item, row.user)
<1> DEFINE n == nextReservation
<1>1. n \notin Live
  BY DEF CustodyInv, IdsIssued, Live, ResIds
<1>2. row.item \in ItemIds /\ row.user \in Users /\ row # NULL
  BY RowIsNotNull DEF ReservationRow
<1>3. /\ Live' = Live \cup {n} /\ reservations'[n] = row
      /\ \A r \in Live : reservations'[r] = reservations[r]
  BY <1>1, <1>2, InvIs DEF Makes, Live, CustodyInv, DeskInv, DeskTypeOK, SystemTypeOK, TypeOK, ClosetTypeOK
<1>4. Loans'[row.item] = row.user /\ Loans[row.item] = NULL
  BY <1>2, <1>3, NextLoan DEF Makes, LoansAre
<1>5. ASSUME NEW i \in ItemIds, i # row.item PROVE Loans'[i] = Loans[i]
  BY <1>1, <1>3, <1>5, OtherLoans
<1>6. Loans' = [Loans EXCEPT ![row.item] = row.user]
  BY <1>2, <1>4, <1>5 DEF LoansAre
<1> QED BY <1>4, <1>6 DEF Makes, Keeping!Lend

LEMMA EndsGivesBack ==
  ASSUME CustodyInv, LoansAre, LoansAre', NEW r \in ResIds, Ends(r)
  PROVE  r \in Live => Keeping!GiveBack(reservations[r].item)
<1> SUFFICES ASSUME r \in Live PROVE Keeping!GiveBack(reservations[r].item)
  OBVIOUS
<1>1. PICK i : i = reservations[r].item
  OBVIOUS
<1>2. i \in ItemIds /\ Loans[i] # NULL
  BY <1>1 DEF LoansAre
<1>3. Live' = Live \ {r} /\ \A q \in Live' : reservations'[q] = reservations[q]
  BY DEF Ends, Live, CustodyInv, DeskInv, DeskTypeOK, SystemTypeOK, TypeOK, ClosetTypeOK
<1>4. \A q \in Live' : reservations'[q].item # i
  BY <1>1, <1>3 DEF CustodyInv, DeskInv, UniqueReservation
<1>5. Loans'[i] = NULL
  BY <1>2, <1>4, NextLoan
<1>6. ASSUME NEW j \in ItemIds, j # i PROVE Loans'[j] = Loans[j]
  BY <1>1, <1>3, <1>6, OtherLoans
<1>7. Loans' = [Loans EXCEPT ![i] = NULL]
  BY <1>2, <1>5, <1>6 DEF LoansAre
<1> QED BY <1>1, <1>2, <1>7 DEF Ends, Keeping!GiveBack

LEMMA EditsReassigns ==
  ASSUME CustodyInv, LoansAre, LoansAre',
         NEW r \in Live, NEW row \in ReservationRow, Edits(r, row)
  PROVE  Keeping!Reassign(reservations[r].item, row.item, row.user)
<1>1. PICK i, j : i = reservations[r].item /\ j = row.item
  OBVIOUS
<1>2. i \in ItemIds /\ j \in ItemIds /\ row.user \in Users /\ row # NULL /\ Loans[i] # NULL
  BY <1>1, RowIsNotNull DEF LoansAre, ReservationRow
<1>3. /\ Live' = Live /\ reservations'[r] = row
      /\ \A q \in Live \ {r} : reservations'[q] = reservations[q]
  BY <1>2 DEF Edits, Live, CustodyInv, DeskInv, DeskTypeOK, SystemTypeOK, TypeOK, ClosetTypeOK
<1>4. Loans'[j] = row.user
  BY <1>1, <1>2, <1>3, NextLoan
<1>5. j # i => Loans[j] = NULL /\ Loans'[i] = NULL
  <2> SUFFICES ASSUME j # i PROVE Loans[j] = NULL /\ Loans'[i] = NULL
    OBVIOUS
  <2>1. ~Reserved(j)
    BY <1>1 DEF Reserved, Edits
  <2>2. \A q \in Live' : reservations'[q].item # i
    BY <1>1, <1>3 DEF CustodyInv, DeskInv, UniqueReservation
  <2> QED BY <1>2, <2>1, <2>2, NextLoan DEF LoansAre
<1>6. ASSUME NEW k \in ItemIds, k # i, k # j PROVE Loans'[k] = Loans[k]
  BY <1>1, <1>3, <1>6, OtherLoans
<1>7. Loans' = [Loans EXCEPT ![i] = NULL, ![j] = row.user]
  BY <1>2, <1>4, <1>5, <1>6 DEF LoansAre
<1> QED BY <1>1, <1>2, <1>5, <1>7 DEF Edits, Keeping!Reassign

LEMMA CustodyStep ==
  ASSUME CustodyInv, LoansAre, LoansAre', HandsOver
  PROVE  [Keeping!Next]_(Keeping!vars)
<1>1. CASE Rests
  BY <1>1, SameLoans DEF Rests, Keeping!vars
<1>2. ASSUME NEW row \in ReservationRow, Makes(row) PROVE Keeping!Next
  <2>1. row.item \in ItemIds /\ row.user \in Users
    BY DEF ReservationRow
  <2> QED BY <1>2, <2>1, MakesLends DEF Keeping!Next
<1>3. ASSUME NEW r \in ResIds, Ends(r) PROVE [Keeping!Next]_(Keeping!vars)
  <2>1. CASE r \in Live
    <3>1. reservations[r].item \in ItemIds
      BY <2>1 DEF LoansAre
    <3> QED BY <1>3, <2>1, <3>1, EndsGivesBack DEF Keeping!Next
  <2>2. CASE r \notin Live
    <3>1. reservations' = reservations
      BY <1>3, <2>2 DEF Ends, Live, CustodyInv, DeskInv, DeskTypeOK, SystemTypeOK, TypeOK, ClosetTypeOK
    <3> QED BY <1>3, <3>1, SameLoans DEF Ends, Keeping!vars
  <2> QED BY <2>1, <2>2
<1>4. ASSUME NEW r \in Live, NEW row \in ReservationRow, Edits(r, row) PROVE Keeping!Next
  <2>1. row.item \in ItemIds /\ row.user \in Users /\ reservations[r].item \in ItemIds
    BY DEF ReservationRow, LoansAre
  <2> QED BY <1>4, <2>1, EditsReassigns DEF Keeping!Next
<1>5. ASSUME NEW i \in ItemIds, Enters(i) PROVE Keeping!Next
  <2>1. Keeping!Acquire(i)
    BY <1>5, SameLoans DEF Enters, Keeping!Acquire
  <2> QED BY <2>1 DEF Keeping!Next
<1>6. ASSUME NEW i \in ItemIds, Drops(i) PROVE [Keeping!Next]_(Keeping!vars)
  <2>1. CASE i \in Stock
    <3>1. Keeping!Discard(i)
      BY <1>6, <2>1, SameLoans DEF Drops, LoansAre, Keeping!Discard
    <3> QED BY <3>1 DEF Keeping!Next
  <2>2. CASE i \notin Stock
    BY <1>6, <2>2, SameLoans DEF Drops, Keeping!vars
  <2> QED BY <2>1, <2>2
<1>7. ASSUME NEW u \in Users, Joins(u) PROVE Keeping!Next
  <2>1. Keeping!Join(u)
    BY <1>7, SameLoans DEF Joins, Keeping!Join
  <2> QED BY <2>1 DEF Keeping!Next
<1>8. ASSUME NEW u \in Users, Leaves(u) PROVE Keeping!Next
  <2>1. ASSUME NEW i \in ItemIds PROVE Loans[i] # u
    BY <1>8, NullAssumption DEF Leaves, ReservationsOf, LoansAre, Reserved
  <2>2. Keeping!Leave(u)
    BY <1>8, <2>1, SameLoans DEF Leaves, Keeping!Leave
  <2> QED BY <2>2 DEF Keeping!Next
<1> QED BY <1>1, <1>2, <1>3, <1>4, <1>5, <1>6, <1>7, <1>8 DEF HandsOver

\* Ids of reservations are handed out in order.
LEMMA HandsOverKeepsIds ==
  ASSUME CustodyInv, HandsOver
  PROVE  IdsIssued'
<1>0. /\ reservations \in [ResIds -> ReservationRow \cup {NULL}]
      /\ nextReservation \in Nat
      /\ \A r \in Live : r \in Nat /\ r < nextReservation
  BY BoundsAssumption
  DEF CustodyInv, DeskInv, DeskTypeOK, SystemTypeOK, TypeOK, ClosetTypeOK, IdsIssued, Live, ResIds
<1>1. ASSUME NEW row \in ReservationRow, Makes(row) PROVE IdsIssued'
  <2>1. Live' \subseteq Live \cup {nextReservation} /\ nextReservation' = nextReservation + 1
    BY <1>0, <1>1 DEF Makes, Live
  <2> QED BY <1>0, <2>1 DEF IdsIssued
<1>2. CASE Live' \subseteq Live /\ UNCHANGED nextReservation
  BY <1>0, <1>2 DEF IdsIssued
<1>3. ASSUME NEW r \in ResIds, Ends(r) PROVE Live' \subseteq Live /\ UNCHANGED nextReservation
  BY <1>0, <1>3 DEF Ends, Live
<1>4. ASSUME NEW r \in Live, NEW row \in ReservationRow, Edits(r, row)
      PROVE  Live' \subseteq Live /\ UNCHANGED nextReservation
  BY <1>0, <1>4 DEF Edits, Live
<1> QED
  BY <1>1, <1>2, <1>3, <1>4 DEF HandsOver, Rests, Enters, Drops, Joins, Leaves, Live

LEMMA InitCustody == DeskInit => CustodyInv /\ Keeping!Init
<1> SUFFICES ASSUME DeskInit PROVE CustodyInv /\ Keeping!Init
  OBVIOUS
<1>1. DeskInv /\ Live = {}
  BY InitDeskInv DEF DeskInit, ClosetInit, Live
<1>2. CustodyInv
  BY <1>1 DEF CustodyInv, IdsIssued
<1>3. Loans = [i \in ItemIds |-> NULL]
  BY <1>1 DEF Loans, Holder, Reserved
<1>4. users = Users /\ freshItems = ItemIds \ Stock
  BY DEF DeskInit, ClosetInit, Stock
<1> QED BY <1>2, <1>3, <1>4 DEF Keeping!Init, Stock

\* Whoever rents, returns, requests, decides, edits and deletes at the same
\* time, an item goes from hand to hand in single steps: every flush() of a
\* handler of any controller makes, ends or changes at most one loan, of an item
\* in stock to a user who is there, and leaves whom and what a loan is about.
THEOREM DeskImplementsCustody == DeskSpec => ImplementsCustody
<1>1. CustodyInv /\ [DeskNext]_deskVars => CustodyInv'
  BY NextDeskInv, EveryStepHandsOver, HandsOverKeepsIds DEF CustodyInv
<1>2. CustodyInv /\ CustodyInv' /\ [DeskNext]_deskVars => [Keeping!Next]_(Keeping!vars)
  <2> SUFFICES ASSUME CustodyInv, CustodyInv', [DeskNext]_deskVars
               PROVE  [Keeping!Next]_(Keeping!vars)
    OBVIOUS
  <2>1. ClosetTypeOK /\ UniqueReservation /\ (ClosetTypeOK /\ UniqueReservation)'
    BY DEF CustodyInv, DeskInv, DeskTypeOK, SystemTypeOK, TypeOK
  <2>2. LoansAre /\ LoansAre'
    BY <2>1, LoansAreReservations, LoansAreReservationsNext
  <2> QED BY <2>2, EveryStepHandsOver, CustodyStep DEF CustodyInv
<1> QED BY <1>1, <1>2, InitCustody, PTL DEF DeskSpec, ImplementsCustody, Keeping!Spec
=============================================================================
