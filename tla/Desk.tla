-------------------------------- MODULE Desk --------------------------------
(***************************************************************************)
(* The administrators' desk: the forms in which they keep items            *)
(* (InventoryController), users (UserController) and reservations          *)
(* (ReservationController), while everybody rents and requests.  A form is *)
(* shown by one request and saved by another; the handler that saves it    *)
(* loads the row anew and writes every field that differs from the row it  *)
(* has loaded, whatever the form showed when it was opened.                *)
(***************************************************************************)
EXTENDS WuRegalia

CONSTANT StatusesByHand  \* bound: the statuses that administrators set by hand

ASSUME ByHandAssumption == StatusesByHand \subseteq Statuses

VARIABLE form  \* the form each session has open or has submitted, at most one

deskVars == <<closetVars, form>>

\* shown: the status that the form of an item was opened with; the other fields
\* are as displayed and, once submitted, as the administrator left them.
Form == [item   : ItemIds \cup {NULL},
         shown  : Statuses \cup {NULL},
         status : Statuses \cup {NULL},
         type   : Types \cup {NULL},
         user   : Users \cup {NULL}]

NoForm == [item |-> NULL, shown |-> NULL, status |-> NULL, type |-> NULL, user |-> NULL]

\* A field after flush(), by the value submitted, the one the handler loaded and
\* the one in the table: an equal value is not written.
Saved(submitted, loaded, now) == IF submitted = loaded THEN now ELSE submitted

-----------------------------------------------------------------------------
(* InventoryController::editAction.                                        *)

\* GET: the form is filled with the row.
FormOpen(s, i) ==
  /\ Accept(s)
  /\ inventory[i] # NULL
  /\ form' = [form EXCEPT ![s] = [item   |-> i,
                                  shown  |-> inventory[i].status,
                                  status |-> inventory[i].status,
                                  type   |-> inventory[i].type,
                                  user   |-> inventory[i].user]]
  /\ UNCHANGED closetVars

\* POST: the row is loaded again and the fields are bound to it.  The user can be
\* left empty only where the row has none: the form would call setUser with null.
EditPost(s, status, t, u) ==
  /\ Accept(s)
  /\ form[s].shown # NULL
  /\ inventory[form[s].item] # NULL
  /\ status \in StatusesByHand \cup {form[s].shown}
  /\ u \in users \/ (u = NULL /\ inventory[form[s].item].user = NULL)
  /\ LET row == inventory[form[s].item] IN
       request' = [request EXCEPT ![s] =
         [Idle EXCEPT !.at   = "editLoaded",
                      !.item = form[s].item,
                      !.seen = row.status,
                      !.type = row.type,
                      !.user = row.user]]
  /\ form' = [form EXCEPT ![s].status = status, ![s].type = t, ![s].user = u]
  /\ UNCHANGED <<tables, sent>>

\* The row as the UPDATE leaves it.
EditedRow(s) ==
  LET q == request[s]
      row == inventory[q.item]
  IN [status |-> Saved(form[s].status, q.seen, row.status),
      type   |-> Saved(form[s].type, q.type, row.type),
      user   |-> Saved(form[s].user, q.user, row.user)]

EditPermitted(s) ==
  inventory[request[s].item] # NULL => EditedRow(s).user \in users \cup {NULL}

\* flush(), and the page of the saved row, which is not kept as a form here.
EditFlush(s) ==
  /\ request[s].at = "editLoaded"
  /\ EditPermitted(s)
  /\ inventory' = IF inventory[request[s].item] = NULL
                  THEN inventory
                  ELSE [inventory EXCEPT ![request[s].item] = EditedRow(s)]
  /\ form' = [form EXCEPT ![s] = NoForm]
  /\ Done(s)
  /\ UNCHANGED <<users, reservations, nextReservation, freshItems, sent>>

-----------------------------------------------------------------------------
(* InventoryController::newAction and deleteAction.                        *)

ItemNewPost(s, status, t, u) ==
  /\ Accept(s)
  /\ status \in StatusesByHand \cup {"AVAL"}
  /\ u \in users \cup {NULL}
  /\ request' = [request EXCEPT ![s] =
       [Idle EXCEPT !.at = "itemNewLoaded", !.seen = status, !.type = t, !.user = u]]
  /\ UNCHANGED <<tables, sent, form>>

\* A user, if one was chosen, is still there; an id is left.
ItemNewPermitted(s) ==
  /\ request[s].user \in users \cup {NULL}
  /\ freshItems # {}

ItemNewFlush(s) ==
  /\ request[s].at = "itemNewLoaded"
  /\ ItemNewPermitted(s)
  /\ \E i \in freshItems :
       /\ inventory' = [inventory EXCEPT ![i] = [status |-> request[s].seen,
                                                 type   |-> request[s].type,
                                                 user   |-> request[s].user]]
       /\ freshItems' = freshItems \ {i}
  /\ Done(s)
  /\ UNCHANGED <<users, reservations, nextReservation, sent, form>>

DropLoad(s, i) ==
  /\ Accept(s)
  /\ inventory[i] # NULL
  /\ request' = [request EXCEPT ![s] = [Idle EXCEPT !.at = "dropLoaded", !.item = i]]
  /\ UNCHANGED <<tables, sent, form>>

\* The foreign key of a reservation keeps its item.
DropFlush(s) ==
  /\ request[s].at = "dropLoaded"
  /\ ~Reserved(request[s].item)
  /\ inventory' = [inventory EXCEPT ![request[s].item] = NULL]
  /\ Done(s)
  /\ UNCHANGED <<users, reservations, nextReservation, freshItems, sent, form>>

-----------------------------------------------------------------------------
(* UserController::newAction and deleteAction; editAction changes only what *)
(* no reservation or item refers to.                                        *)

\* One INSERT; the username is unique.
UserNew(s, u) ==
  /\ Accept(s)
  /\ u \notin users
  /\ users' = users \cup {u}
  /\ UNCHANGED <<inventory, reservations, nextReservation, freshItems, request, sent, form>>

UserDropLoad(s, u) ==
  /\ Accept(s)
  /\ u \in users
  /\ request' = [request EXCEPT ![s] = [Idle EXCEPT !.at = "userDropLoaded", !.user = u]]
  /\ UNCHANGED <<tables, sent, form>>

\* Mutant of Owned: user_id of Inventory is no foreign key.
OwnedAsBorrower(u) == ReservationsOf(u) # {}

\* Mutant of Owned: user_id of Reservation is no foreign key.
OwnedAsDonor(u) == \E i \in ItemIds : inventory[i] # NULL /\ inventory[i].user = u

\* The foreign keys of the user's reservations and of the items he requested or
\* donated keep his row.
Owned(u) ==
  \/ ReservationsOf(u) # {}
  \/ \E i \in ItemIds : inventory[i] # NULL /\ inventory[i].user = u

UserDropFlush(s) ==
  /\ request[s].at = "userDropLoaded"
  /\ ~Owned(request[s].user)
  /\ users' = users \ {request[s].user}
  /\ Done(s)
  /\ UNCHANGED <<inventory, reservations, nextReservation, freshItems, sent, form>>

-----------------------------------------------------------------------------
(* ReservationController::newAction and editAction.  Neither looks at an    *)
(* item's status nor at what else the user has.                             *)

ResNewPost(s, u, i) ==
  /\ Accept(s)
  /\ u \in users
  /\ inventory[i] # NULL
  /\ request' = [request EXCEPT ![s] =
       [Idle EXCEPT !.at = "resNewLoaded", !.user = u, !.item = i]]
  /\ UNCHANGED <<tables, sent, form>>

ResNewPermitted(s) ==
  CanReserve(request[s].user, request[s].item) /\ nextReservation \in ResIds

\* flush(); then a redirect to a route that does not exist ends the request.
ResNewFlush(s) ==
  /\ request[s].at = "resNewLoaded"
  /\ ResNewPermitted(s)
  /\ reservations' = [reservations EXCEPT ![nextReservation] =
                        [user |-> request[s].user, item |-> request[s].item]]
  /\ nextReservation' = nextReservation + 1
  /\ Done(s)
  /\ UNCHANGED <<users, inventory, freshItems, sent, form>>

\* Mutant of ResEditPost: what was submitted is not bound to the reservation.
ResEditPostUnbound(s, r, u, i) ==
  /\ Accept(s)
  /\ r \in Live
  /\ u \in users
  /\ inventory[i] # NULL
  /\ request' = [request EXCEPT ![s] =
       [Idle EXCEPT !.at   = "resEditLoaded",
                    !.res  = r,
                    !.user = reservations[r].user,
                    !.item = reservations[r].item]]
  /\ UNCHANGED <<tables, sent, form>>

ResEditPost(s, r, u, i) ==
  /\ Accept(s)
  /\ r \in Live
  /\ u \in users
  /\ inventory[i] # NULL
  /\ request' = [request EXCEPT ![s] =
       [Idle EXCEPT !.at   = "resEditLoaded",
                    !.res  = r,
                    !.user = reservations[r].user,
                    !.item = reservations[r].item]]
  /\ form' = [form EXCEPT ![s] = [NoForm EXCEPT !.user = u, !.item = i]]
  /\ UNCHANGED <<tables, sent>>

EditedReservation(s) ==
  LET q == request[s]
      row == reservations[q.res]
  IN [user |-> Saved(form[s].user, q.user, row.user),
      item |-> Saved(form[s].item, q.item, row.item)]

\* The constraints of CanReserve, for the row as the UPDATE would leave it.
ResEditPermitted(s) ==
  request[s].res \in Live =>
    /\ EditedReservation(s).user \in users
    /\ inventory[EditedReservation(s).item] # NULL
    /\ \A r \in Live \ {request[s].res} :
         reservations[r].item # EditedReservation(s).item

ResEditFlush(s) ==
  /\ request[s].at = "resEditLoaded"
  /\ ResEditPermitted(s)
  /\ reservations' = IF request[s].res \notin Live
                     THEN reservations
                     ELSE [reservations EXCEPT ![request[s].res] = EditedReservation(s)]
  /\ form' = [form EXCEPT ![s] = NoForm]
  /\ Done(s)
  /\ UNCHANGED <<users, inventory, nextReservation, freshItems, sent>>

-----------------------------------------------------------------------------
\* rentAction, when the user has been deleted since the login: a call on null
\* ends the request.
RentNobody(s) ==
  /\ request[s].at = "rentLoaded"
  /\ UserOf[s] \notin users
  /\ Done(s)
  /\ UNCHANGED <<tables, sent, form>>

-----------------------------------------------------------------------------
\* What flush() must meet at the point a request of the desk has reached.
Permitted(s) ==
  CASE request[s].at = "editLoaded"     -> EditPermitted(s)
    [] request[s].at = "itemNewLoaded"  -> ItemNewPermitted(s)
    [] request[s].at = "dropLoaded"     -> ~Reserved(request[s].item)
    [] request[s].at = "userDropLoaded" -> ~Owned(request[s].user)
    [] request[s].at = "resNewLoaded"   -> ResNewPermitted(s)
    [] request[s].at = "resEditLoaded"  -> ResEditPermitted(s)

DeskPoints == {"editLoaded", "itemNewLoaded", "dropLoaded", "userDropLoaded",
               "resNewLoaded", "resEditLoaded"}

\* A constraint fails: flush() rolls back and throws; the form is still there.
DeskRefused(s) ==
  /\ request[s].at \in DeskPoints
  /\ ~Permitted(s)
  /\ Done(s)
  /\ UNCHANGED <<tables, sent, form>>

DeskStart(s) ==
  \/ \E i \in ItemIds : FormOpen(s, i) \/ DropLoad(s, i)
  \/ \E status \in Statuses, t \in Types, u \in Users \cup {NULL} :
       EditPost(s, status, t, u) \/ ItemNewPost(s, status, t, u)
  \/ \E u \in Users : UserNew(s, u) \/ UserDropLoad(s, u)
  \/ \E u \in Users, i \in ItemIds : ResNewPost(s, u, i)
  \/ \E r \in ResIds, u \in Users, i \in ItemIds : ResEditPost(s, r, u, i)

DeskHandle(s) ==
  \/ EditFlush(s)
  \/ ItemNewFlush(s)
  \/ DropFlush(s)
  \/ UserDropFlush(s)
  \/ ResNewFlush(s)
  \/ ResEditFlush(s)
  \/ DeskRefused(s)

DeskInit == ClosetInit /\ form = [s \in Sessions |-> NoForm]

DeskNext ==
  \/ ClosetNext /\ UNCHANGED form
  \/ \E s \in Sessions : RentNobody(s)
  \/ \E s \in AdminSessions : DeskStart(s) \/ DeskHandle(s)

DeskSpec == DeskInit /\ [][DeskNext]_deskVars

-----------------------------------------------------------------------------
(* Properties.                                                             *)

\* Every variable has its type, and a submitted form is complete.
DeskTypeOK ==
  /\ SystemTypeOK
  /\ form \in [Sessions -> Form]
  /\ \A s \in Sessions :
       /\ request[s].at = "editLoaded" => form[s].status \in Statuses /\ form[s].type \in Types
       /\ request[s].at = "resEditLoaded" => form[s].item \in ItemIds /\ form[s].user \in Users

\* A reservation has its user and its item, and an item the user who asked for
\* it, however deletions, forms, rentals and requests overlap.
NoDanglingReferences ==
  /\ ReservedAreCatalogued
  /\ \A r \in Live : reservations[r].user \in users
  /\ \A i \in ItemIds : inventory[i] # NULL => inventory[i].user \in users \cup {NULL}

\* The items that have a row.
Stock == {i \in ItemIds : inventory[i] # NULL}

Keeping == INSTANCE Custody WITH
  People  <- Users,
  Items   <- ItemIds,
  Nobody  <- NULL,
  members <- users,
  fresh   <- freshItems,
  stock   <- Stock,
  loan    <- Loans

\* Whatever overlaps with whatever, an item is handed over in single steps: a
\* flush() makes, ends or changes one loan, of an item in stock to a user who is
\* there; items and users that a loan is about stay; an item that has been
\* deleted does not come back.
ImplementsCustody == Keeping!Spec

-----------------------------------------------------------------------------
(* What makes them inductive: what a request of the desk, or a form, has in  *)
(* hand is complete.                                                         *)

DeskReady(s) ==
  /\ request[s].at = "itemNewLoaded" => request[s].seen \in Statuses /\ request[s].type \in Types
  /\ form[s].shown # NULL => form[s].item \in ItemIds

DeskInv ==
  /\ DeskTypeOK
  /\ \A s \in Sessions : DeskReady(s)
  /\ UniqueReservation
  /\ NoDanglingReferences
=============================================================================
