------------------------------- MODULE Rental -------------------------------
(***************************************************************************)
(* Renting an item (RentController) and marking it as returned             *)
(* (ReservationController::deleteAction), by any number of sessions at     *)
(* once.  Each handler is split where another request can get in between:  *)
(* at its SELECTs, at its flush(), and at the mail it sends afterwards.    *)
(***************************************************************************)
EXTENDS Closet

\* The closet when renting starts: everybody who can log in has a row, the
\* items are catalogued as available, and nothing has been lent yet.
Init ==
  /\ users = Users
  /\ inventory \in [ItemIds -> [status : {"AVAL"}, type : Types, user : {NULL}]]
  /\ reservations = [r \in ResIds |-> NULL]
  /\ nextReservation = 1
  /\ freshItems = {}
  /\ request = [s \in Sessions |-> Idle]
  /\ sent = {}

-----------------------------------------------------------------------------
(* RentController::rentAction                                              *)

\* The item in the URL is loaded; without a row the answer is a 404.  The list
\* the link came from may be old: the status is not looked at.
RentLoad(s, i) ==
  /\ Accept(s)
  /\ inventory[i] # NULL
  /\ request' = [request EXCEPT ![s] =
       [Idle EXCEPT !.at   = "rentLoaded",
                    !.item = i,
                    !.seen = inventory[i].status,
                    !.type = inventory[i].type]]
  /\ UNCHANGED <<tables, sent>>

\* Mutant of TypesHeld: the check compares items, of which none is had twice.
TypesHeldAsItems(u) == {reservations[r].item : r \in ReservationsOf(u)}

\* The types of the items a user has reserved.
TypesHeld(u) == {inventory[reservations[r].item].type : r \in ReservationsOf(u)}

\* Mutant of RentCheck: what the check finds is dropped.
RentCheckIgnored(s) ==
  /\ request[s].at = "rentLoaded"
  /\ UserOf[s] \in users
  /\ request' = [request EXCEPT ![s].at = "rentChecked"]
  /\ UNCHANGED <<tables, sent>>

\* The user is loaded, and the types of the items already reserved: one of the
\* same type ends the request with "Only one rental per type".
RentCheck(s) ==
  /\ request[s].at = "rentLoaded"
  /\ UserOf[s] \in users
  /\ IF request[s].type \in TypesHeld(UserOf[s])
     THEN Done(s)
     ELSE request' = [request EXCEPT ![s].at = "rentChecked"]
  /\ UNCHANGED <<tables, sent>>

\* The INSERT can go through: its constraints hold and an id is left.
Insertable(s) ==
  /\ CanReserve(UserOf[s], request[s].item)
  /\ nextReservation \in ResIds

\* Mutant of RentFlush: the item's status is not set before flush().
RentFlushWithoutStatus(s) ==
  /\ request[s].at = "rentChecked"
  /\ Insertable(s)
  /\ reservations' = [reservations EXCEPT ![nextReservation] =
                        [user |-> UserOf[s], item |-> request[s].item]]
  /\ nextReservation' = nextReservation + 1
  /\ request' = [request EXCEPT ![s].at = "rentCommitted", ![s].res = nextReservation]
  /\ UNCHANGED <<users, inventory, freshItems, sent>>

\* setItemStatus(RENTED), new Reservation, flush().
RentFlush(s) ==
  /\ request[s].at = "rentChecked"
  /\ Insertable(s)
  /\ reservations' = [reservations EXCEPT ![nextReservation] =
                        [user |-> UserOf[s], item |-> request[s].item]]
  /\ nextReservation' = nextReservation + 1
  /\ inventory' = FlushStatus(request[s].item, request[s].seen, "RENTED")
  /\ request' = [request EXCEPT ![s].at = "rentCommitted", ![s].res = nextReservation]
  /\ UNCHANGED <<users, freshItems, sent>>

\* Mutant of RentRefused: the exception is swallowed and the mail sent anyway.
RentRefusedUnnoticed(s) ==
  /\ request[s].at = "rentChecked"
  /\ ~Insertable(s)
  /\ request' = [request EXCEPT ![s].at = "rentCommitted", ![s].res = nextReservation]
  /\ UNCHANGED <<tables, sent>>

\* Mutant of RentRefused: only a vanished user or item is expected, and a
\* reservation that somebody else has made meanwhile is waited out.
RentRefusedLater(s) ==
  /\ request[s].at = "rentChecked"
  /\ ~Insertable(s) /\ ~Reserved(request[s].item)
  /\ Done(s)
  /\ UNCHANGED <<tables, sent>>

\* The INSERT is refused: flush() rolls back and throws.
RentRefused(s) ==
  /\ request[s].at = "rentChecked"
  /\ ~Insertable(s)
  /\ Done(s)
  /\ UNCHANGED <<tables, sent>>

Confirmation(s) ==
  [kind |-> "rented", res |-> request[s].res, item |-> request[s].item, to |-> UserOf[s]]

\* The confirmation is sent.
RentMail(s) ==
  /\ request[s].at = "rentCommitted"
  /\ Send(s, Confirmation(s))

-----------------------------------------------------------------------------
(* ReservationController::deleteAction, the link "Mark as Returned".       *)

\* The reservation in the URL is loaded; its item only by reference.
ReturnLoad(s, r) ==
  /\ s \in AdminSessions
  /\ Accept(s)
  /\ r \in Live
  /\ request' = [request EXCEPT ![s] =
       [Idle EXCEPT !.at   = "returnLoaded",
                    !.res  = r,
                    !.item = reservations[r].item]]
  /\ UNCHANGED <<tables, sent>>

\* Mutant of ReturnTouch: the status the item has is not loaded.
ReturnTouchBlindly(s) ==
  /\ request[s].at = "returnLoaded"
  /\ inventory[request[s].item] # NULL
  /\ request' = [request EXCEPT ![s].at = "returnTouched"]
  /\ UNCHANGED <<tables, sent>>

\* setItemStatus(AVAL) loads the item's row to change it in memory.
ReturnTouch(s) ==
  /\ request[s].at = "returnLoaded"
  /\ inventory[request[s].item] # NULL
  /\ request' = [request EXCEPT ![s].at   = "returnTouched",
                                ![s].seen = inventory[request[s].item].status]
  /\ UNCHANGED <<tables, sent>>

\* The item has been deleted since, with nothing to hold it once another
\* administrator had returned it: the reference cannot be loaded.
ReturnLost(s) ==
  /\ request[s].at = "returnLoaded"
  /\ inventory[request[s].item] = NULL
  /\ Done(s)
  /\ UNCHANGED <<tables, sent>>

\* Mutant of ReturnFlush: the reservation is removed, the status left alone.
ReturnFlushWithoutStatus(s) ==
  /\ request[s].at = "returnTouched"
  /\ reservations' = [reservations EXCEPT ![request[s].res] = NULL]
  /\ Done(s)
  /\ UNCHANGED <<users, inventory, nextReservation, freshItems, sent>>

\* remove(reservation), flush().  A row that has gone is deleted in vain.
ReturnFlush(s) ==
  /\ request[s].at = "returnTouched"
  /\ inventory' = FlushStatus(request[s].item, request[s].seen, "AVAL")
  /\ reservations' = [reservations EXCEPT ![request[s].res] = NULL]
  /\ Done(s)
  /\ UNCHANGED <<users, nextReservation, freshItems, sent>>

-----------------------------------------------------------------------------
Start(s) ==
  \/ \E i \in ItemIds : RentLoad(s, i)
  \/ \E r \in ResIds : ReturnLoad(s, r)

\* What a worker does with a request once it has it.
Handle(s) ==
  \/ RentCheck(s)
  \/ RentFlush(s)
  \/ RentRefused(s)
  \/ RentMail(s)
  \/ ReturnTouch(s)
  \/ ReturnLost(s)
  \/ ReturnFlush(s)

Next == \E s \in Sessions : Start(s) \/ Handle(s) \/ Abort(s)

Spec == Init /\ [][Next]_closetVars

-----------------------------------------------------------------------------
(* Properties.                                                             *)

\* Every variable has its type, and a request carries exactly the rows its
\* handler has loaded by then (the locals of rentAction and deleteAction).
TypeOK ==
  /\ ClosetTypeOK
  /\ \A s \in Sessions :
       /\ request[s].at \notin ItemlessPoints => request[s].item \in ItemIds
       /\ request[s].at \in {"rentCommitted", "returnLoaded", "returnTouched"}
            => request[s].res \in ResIds
       /\ request[s].at \in {"rentLoaded", "rentChecked", "returnTouched"}
            => request[s].seen \in Statuses

\* What the unique index on inventory_id says; the other properties rest on it.
UniqueReservation ==
  \A r, q \in Live : reservations[r].item = reservations[q].item => r = q

\* An item marked RENTED has a reservation by which it can be returned.  Without
\* one it would be rented for ever: the list of items to rent does not show it,
\* and "Mark as Returned" hangs on a reservation.  A return whose UPDATE the
\* object manager leaves out must not leave such an item behind.
NoStrandedItem ==
  \A i \in ItemIds : StatusIs(i, "RENTED") => Reserved(i)

Confirmations == {m \in sent : m.kind = "rented"}

\* A confirmation, even one sent long after the reservation has gone, names a
\* reservation that was really made, and while that one exists its own item and
\* user: nothing is promised by mail before the transaction has committed.
ConfirmationsAreHonest ==
  \A m \in Confirmations :
    /\ m.res \in ResIds /\ m.res < nextReservation
    /\ m.res \in Live => /\ reservations[m.res].item = m.item
                         /\ reservations[m.res].user = m.to

\* "Only one rental per type of item is allowed": rentAction's check still
\* holds when its INSERT happens.
OnePerType ==
  \A r, q \in Live :
    /\ reservations[r].user = reservations[q].user
    /\ inventory[reservations[r].item].type = inventory[reservations[q].item].type
    => r = q

\* rentAction marks the item as rented and creates its reservation, deleteAction
\* undoes both: an item listed as available is free, and the statuses say
\* exactly which items are out.
AvailableIsFree == \A i \in ItemIds : StatusIs(i, "AVAL") => ~Reserved(i)

LedgerConsistent == NoStrandedItem /\ AvailableIsFree

\* Deleting a reservation leaves its item available and free.
ReturnedItemsAreFree ==
  [][\A s \in Sessions, i \in ItemIds :
       request[s].item = i /\ ReturnFlush(s)
         => StatusIs(i, "AVAL")' /\ ~Reserved(i)']_closetVars

\* Every request is answered: no handler reaches a point at which the rows it
\* finds leave it nothing to do.
EveryRequestEnds == \A s \in Sessions : Busy(s) ~> ~Busy(s)

-----------------------------------------------------------------------------
(* Who has what, for the abstract specifications.                          *)

\* The reservation of an item that is reserved; where several share it any of
\* them (UniqueReservation excludes it).
ReservationOf(i) == CHOOSE r \in Live : reservations[r].item = i

\* The user who has reserved item i.
Holder(i) == IF Reserved(i) THEN reservations[ReservationOf(i)].user ELSE NULL

Loans == [i \in ItemIds |-> Holder(i)]

-----------------------------------------------------------------------------
(* What makes the safety properties inductive.                             *)

\* Ids are handed out in order, so a reservation that exists has an earlier one.
IdsIssued == \A r \in Live : r < nextReservation

\* What a handler remembers of a reservation that still exists is still so.  In
\* particular a return that will issue no UPDATE, because it found its item
\* available, leaves no RENTED item behind: nobody can rent it in the meantime.
Remembers(s) ==
  LET q == request[s] IN
  /\ q.at \in {"rentCommitted", "returnLoaded", "returnTouched"} =>
       /\ q.res < nextReservation
       /\ q.res \in Live => reservations[q.res].item = q.item
  /\ q.at = "rentCommitted" /\ q.res \in Live =>
       reservations[q.res].user = UserOf[s]
  /\ q.at = "returnTouched" /\ q.res \in Live /\ q.seen = "AVAL" =>
       ~StatusIs(q.item, "RENTED")

RentalInv ==
  /\ TypeOK
  /\ IdsIssued
  /\ \A s \in Sessions : Remembers(s)
  /\ UniqueReservation
  /\ NoStrandedItem
  /\ ConfirmationsAreHonest

\* The item that a user is about to reserve has, as long as it is there, the type
\* that was loaded, and a check that a user of U has passed stays passed.
CheckStands(s, U) ==
  LET q == request[s] IN
  /\ q.at \in {"rentLoaded", "rentChecked"} /\ inventory[q.item] # NULL =>
       inventory[q.item].type = q.type
  /\ q.at = "rentChecked" /\ UserOf[s] \in U => q.type \notin TypesHeld(UserOf[s])

\* OnePerType as far as the users of U go.
OnePerTypeAmong(U) ==
  \A r, q \in Live :
    /\ reservations[r].user = reservations[q].user
    /\ reservations[r].user \in U
    /\ inventory[reservations[r].item].type = inventory[reservations[q].item].type
    => r = q

OnePerTypeInv(U) ==
  /\ RentalInv
  /\ ReservedAreCatalogued
  /\ \A s \in Sessions : CheckStands(s, U)
  /\ OnePerTypeAmong(U)

\* The users who are logged in once at most, and that all are.
SingleSession ==
  {u \in Users : \A s, t \in Sessions : UserOf[s] = u /\ UserOf[t] = u => s = t}

OneSessionPerUser == \A s, t \in Sessions : UserOf[s] = UserOf[t] => s = t

\* With one worker: at most one request runs, and what it has read is still so.
AtMostOneBusy == \A s, t \in Sessions : Busy(s) /\ Busy(t) => s = t

SeenIsCurrent(s) ==
  LET q == request[s] IN
  /\ q.at \in {"rentLoaded", "rentChecked", "returnTouched"} =>
       StatusIs(q.item, q.seen)
  /\ q.at \in {"returnLoaded", "returnTouched"} => q.res \in Live

SerialInv ==
  /\ OnePerTypeInv(Users)
  /\ AtMostOneBusy
  /\ \A s \in Sessions : SeenIsCurrent(s)
  /\ LedgerConsistent
=============================================================================
