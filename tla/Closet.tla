------------------------------- MODULE Closet -------------------------------
(***************************************************************************)
(* What every controller of the regalia closet works on: the User,         *)
(* Inventory and Reservation tables, the requests that are being handled,  *)
(* and the mails they send.  A request is one run of a controller method   *)
(* in one PHP process.  It loads rows with single SELECTs, keeps what it   *)
(* loaded, and writes in one transaction, Doctrine's flush(); the steps of *)
(* other requests fall between those database accesses.                    *)
(*                                                                         *)
(* This module holds the state and the rules of the database and of the    *)
(* object manager; the modules that extend it hold the controllers.        *)
(***************************************************************************)
EXTENDS Naturals, FiniteSets

CONSTANTS
  Users,            \* usernames, which identify rows of the User table
  Sessions,         \* browser sessions
  AdminSessions,    \* the sessions that carry ROLE_ADMIN
  UserOf,           \* the user each session is logged in as
  Types,            \* rows of ItemType: gown, cap, hood
  ItemIds,          \* ids of the Inventory table
  MaxReservations,  \* bound: how many reservations are ever inserted
  MaxWorkers,       \* how many requests the PHP server handles at a time
  NULL              \* the SQL NULL, or no row

ResIds == 1..MaxReservations

\* The statuses, by the names under which the controllers look them up: AVAL in
\* ReservationController.php:132, RENTED in RentController.php:84, PENDING_SPECIAL
\* and PENDING_ARRIVAL in specialRequestController.php:48 and :117,
\* PENDING_DONATION in donationRequestController.php:49.
Statuses ==
  {"AVAL", "RENTED", "PENDING_DONATION", "PENDING_SPECIAL", "PENDING_ARRIVAL"}

ASSUME SessionsAssumption ==
  /\ IsFiniteSet(Sessions)
  /\ AdminSessions \subseteq Sessions
  /\ UserOf \in [Sessions -> Users]

ASSUME BoundsAssumption ==
  /\ MaxReservations \in Nat
  /\ MaxWorkers \in Nat \ {0}

\* The absence of a value or of a row is no value and no row.
ASSUME NullAssumption ==
  /\ NULL \notin Users
  /\ NULL \notin Types
  /\ NULL \notin ItemIds
  /\ NULL \notin Statuses
  /\ NULL \notin ResIds
  /\ \A t \in Types, u \in Users \cup {NULL}, status \in Statuses :
       NULL # [status |-> status, type |-> t, user |-> u]
  /\ \A u \in Users, i \in ItemIds : NULL # [user |-> u, item |-> i]

VARIABLES
  users,            \* the usernames that have a row in User
  inventory,        \* the row under each id of Inventory, or NULL
  reservations,     \* the row under each id of Reservation, or NULL
  nextReservation,  \* AUTO_INCREMENT of Reservation
  freshItems,       \* the ids of Inventory that AUTO_INCREMENT has not given out
  request,          \* what each session's running request has done so far
  sent              \* every mail a handler has given to the mailer

tables == <<users, inventory, reservations, nextReservation, freshItems>>

closetVars == <<tables, request, sent>>

-----------------------------------------------------------------------------
(* Tables.                                                                 *)

InventoryRow == [status : Statuses, type : Types, user : Users \cup {NULL}]

ReservationRow == [user : Users, item : ItemIds]

\* The reservations that exist, and those of one user.
Live == {r \in ResIds : reservations[r] # NULL}

ReservationsOf(u) == {r \in Live : reservations[r].user = u}

Reserved(i) == \E r \in Live : reservations[r].item = i

StatusIs(i, status) == inventory[i] # NULL /\ inventory[i].status = status

\* Mutant of CanReserve: inventory_id is no foreign key.
CanReserveGone(u, i) == u \in users /\ ~Reserved(i)

\* The constraints an INSERT into Reservation must meet: both foreign keys,
\* and the unique index on inventory_id.
CanReserve(u, i) == u \in users /\ inventory[i] # NULL /\ ~Reserved(i)

\* The Inventory table after flush() when a request that loaded row i with the
\* status seen has called setItemStatus(status).  The object manager compares
\* with what it loaded and issues no UPDATE for a value it believes is there
\* already; an UPDATE of a row that has gone changes nothing.
FlushStatus(i, seen, status) ==
  IF seen = status \/ inventory[i] = NULL
  THEN inventory
  ELSE [inventory EXCEPT ![i].status = status]

-----------------------------------------------------------------------------
(* Requests.  The session file is locked while a request of the session is *)
(* handled, so a session has at most one.                                  *)

Points == {"idle", "rentLoaded", "rentChecked", "rentCommitted",
           "returnLoaded", "returnTouched",
           "submitLoaded", "submitCommitted", "acceptLoaded", "acceptCommitted",
           "rejectLoaded", "rejectCommitted",
           "editLoaded", "itemNewLoaded", "dropLoaded", "userDropLoaded",
           "resNewLoaded", "resEditLoaded"}

\* The points at which a handler has no item in hand.
ItemlessPoints == {"idle", "submitLoaded", "itemNewLoaded", "userDropLoaded"}

\* at: the last step taken; item, res: the rows it is about; seen, type, user:
\* the status and the item type of that item, and the row of the user, as the
\* request loaded them or read them from its form.
Request == [at   : Points,
            item : ItemIds \cup {NULL},
            res  : ResIds \cup {NULL},
            seen : Statuses \cup {NULL},
            type : Types \cup {NULL},
            user : Users \cup {NULL}]

Idle == [at |-> "idle", item |-> NULL, res |-> NULL, seen |-> NULL,
         type |-> NULL, user |-> NULL]

Busy(s) == request[s].at # "idle"

FreeWorker == Cardinality({s \in Sessions : Busy(s)}) < MaxWorkers

\* A worker takes a request of a session that has none.
Accept(s) == ~Busy(s) /\ FreeWorker

Done(s) == request' = [request EXCEPT ![s] = Idle]

\* The request dies before its next database access or mail: a fatal error, an
\* exception, a lost connection, a lock wait or deadlock that the database
\* resolves against it.  What it has not flushed is rolled back.
Abort(s) ==
  /\ Busy(s)
  /\ Done(s)
  /\ UNCHANGED <<tables, sent>>

-----------------------------------------------------------------------------
(* Mail.  Swiftmailer spools in memory and sends when the response is out; *)
(* a mail may be lost, and what is said of mails is said of all that could *)
(* arrive.                                                                 *)

\* What a mail is about, and whom it is addressed to.
Mail == [kind : {"rented", "received", "accepted", "rejected"},
         res  : ResIds \cup {NULL},
         item : ItemIds,
         to   : Users]

\* The mailer is called and the page rendered.
Send(s, mail) ==
  /\ sent' = sent \cup {mail}
  /\ Done(s)
  /\ UNCHANGED tables

-----------------------------------------------------------------------------
ClosetTypeOK ==
  /\ users \subseteq Users
  /\ inventory \in [ItemIds -> InventoryRow \cup {NULL}]
  /\ reservations \in [ResIds -> ReservationRow \cup {NULL}]
  /\ nextReservation \in 1..(MaxReservations + 1)
  /\ freshItems \subseteq ItemIds
  /\ request \in [Sessions -> Request]
  /\ sent \subseteq Mail

\* Every reservation is of an item that exists: an item cannot be deleted while
\* it is reserved, nor reserved while it is being deleted; one of them fails.
ReservedAreCatalogued == \A r \in Live : inventory[reservations[r].item] # NULL
=============================================================================
