----------------------------- MODULE WuRegalia ------------------------------
(***************************************************************************)
(* The closet with everything its users and administrators do to items by  *)
(* links: rentals, returns, requests and verdicts, all at once over the    *)
(* same tables.                                                            *)
(***************************************************************************)
EXTENDS Rental, Requests

\* Some items are in stock; the other ids have not been given out.
ClosetInit ==
  /\ users = Users
  /\ freshItems \in SUBSET ItemIds
  /\ inventory \in [ItemIds ->
       [status : {"AVAL"}, type : Types, user : {NULL}] \cup {NULL}]
  /\ \A i \in ItemIds : inventory[i] = NULL <=> i \in freshItems
  /\ reservations = [r \in ResIds |-> NULL]
  /\ nextReservation = 1
  /\ request = [s \in Sessions |-> Idle]
  /\ sent = {}

ClosetNext == Next \/ \E s \in Sessions : RequestsStart(s) \/ RequestsHandle(s)

ClosetSpec == ClosetInit /\ [][ClosetNext]_closetVars

\* A worker that runs a request goes on with it: nothing in a handler waits for
\* another request, and the database answers or refuses.
ClosetFairness ==
  \A s \in Sessions : WF_closetVars(Handle(s) \/ RequestsHandle(s))

FairClosetSpec == ClosetSpec /\ ClosetFairness

-----------------------------------------------------------------------------
(* Properties.                                                             *)

\* The types of Rental, and what the handlers of Requests have in hand: the
\* status and the type of the form, the status of the row found.
SystemTypeOK ==
  /\ TypeOK
  /\ \A s \in Sessions :
       /\ request[s].at = "submitLoaded" =>
            request[s].seen \in Pending /\ request[s].type \in Types
       /\ request[s].at = "acceptLoaded" => request[s].seen \in Statuses

\* Where an item is in its life, for RequestBoard.
Phase(i) ==
  IF i \in freshItems THEN "unborn"
  ELSE IF inventory[i] = NULL THEN "gone"
  ELSE IF inventory[i].status \in Pending THEN "open"
  ELSE "settled"

Board == INSTANCE RequestBoard WITH
  Items <- ItemIds,
  phase <- [i \in ItemIds |-> Phase(i)]

\* In no interleaving does an item go back: no request reappears once it has
\* been dealt with, no rejected row comes back, whatever stale status or row a
\* handler still holds when it flushes.
ImplementsBoard == Board!Spec

-----------------------------------------------------------------------------
(* What makes them inductive.  An item whose id has been given out only      *)
(* ages: it keeps its user, does not wait for a verdict again, and does not  *)
(* come back.  So what was so when a handler looked or committed stays so    *)
(* until its mail is sent, and after.                                        *)

FreshHaveNoRow == \A i \in freshItems : inventory[i] = NULL

Belongs(i, u) ==
  i \notin freshItems /\ (inventory[i] # NULL => inventory[i].user = u)

Decided(i) ==
  i \notin freshItems /\ (inventory[i] # NULL => inventory[i].status \notin Pending)

Dropped(i) == i \notin freshItems /\ inventory[i] = NULL

\* What a handler has in hand, or has just committed.
InHand(s) ==
  LET q == request[s] IN
  /\ q.at \notin ItemlessPoints => q.item \notin freshItems
  /\ q.at = "submitLoaded" => q.user = UserOf[s]
  /\ q.at = "submitCommitted" => Belongs(q.item, UserOf[s])
  /\ q.at = "acceptLoaded" /\ q.seen \notin Pending => Decided(q.item)
  /\ q.at = "acceptCommitted" => Decided(q.item)
  /\ q.at = "rejectCommitted" => Dropped(q.item)

\* What a mail has told.
Told(m) ==
  /\ m.kind = "received" => Belongs(m.item, m.to)
  /\ m.kind = "accepted" => Decided(m.item)
  /\ m.kind = "rejected" => Dropped(m.item)

ClosetInv ==
  /\ SystemTypeOK
  /\ RentalInv
  /\ ReservedAreCatalogued
  /\ FreshHaveNoRow
  /\ \A s \in Sessions : InHand(s)
  /\ \A m \in sent : Told(m)
=============================================================================
