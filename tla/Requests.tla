------------------------------ MODULE Requests ------------------------------
(***************************************************************************)
(* Special requests and donation requests: specialRequestController and    *)
(* donationRequestController, which differ in the status they give a new   *)
(* request and in their wording.  A request is a row of Inventory.  A user *)
(* submits it; an administrator follows a link to accept or to reject it.  *)
(***************************************************************************)
EXTENDS Closet

\* The statuses under which a request waits for a verdict.
Pending == {"PENDING_SPECIAL", "PENDING_DONATION"}

-----------------------------------------------------------------------------
(* indexAction, on a submitted and valid form.                             *)

\* The form names the type of the item; the user is looked up by the name the
\* session holds.  Without a row setUser(User) refuses the null, which ends the
\* request before anything is written.
SubmitLoad(s, pending, t) ==
  /\ Accept(s)
  /\ UserOf[s] \in users
  /\ request' = [request EXCEPT ![s] =
       [Idle EXCEPT !.at   = "submitLoaded",
                    !.seen = pending,
                    !.type = t,
                    !.user = UserOf[s]]]
  /\ UNCHANGED <<tables, sent>>

\* The INSERT can go through: the user it refers to is there, an id is left.
Submittable(s) ==
  /\ request[s].user \in users
  /\ freshItems # {}

\* Mutant of SubmitFlush: the call of setUser is missing.
SubmitFlushWithoutUser(s) ==
  /\ request[s].at = "submitLoaded"
  /\ Submittable(s)
  /\ \E i \in freshItems :
       /\ inventory' = [inventory EXCEPT ![i] = [status |-> request[s].seen,
                                                 type   |-> request[s].type,
                                                 user   |-> NULL]]
       /\ freshItems' = freshItems \ {i}
       /\ request' = [request EXCEPT ![s].at = "submitCommitted", ![s].item = i]
  /\ UNCHANGED <<users, reservations, nextReservation, sent>>

\* setItemStatus, setUser, persist, flush().
SubmitFlush(s) ==
  /\ request[s].at = "submitLoaded"
  /\ Submittable(s)
  /\ \E i \in freshItems :
       /\ inventory' = [inventory EXCEPT ![i] = [status |-> request[s].seen,
                                                 type   |-> request[s].type,
                                                 user   |-> request[s].user]]
       /\ freshItems' = freshItems \ {i}
       /\ request' = [request EXCEPT ![s].at = "submitCommitted", ![s].item = i]
  /\ UNCHANGED <<users, reservations, nextReservation, sent>>

SubmitRefused(s) ==
  /\ request[s].at = "submitLoaded"
  /\ ~Submittable(s)
  /\ Done(s)
  /\ UNCHANGED <<tables, sent>>

\* What a mail says of the item of a request; it goes to the address of the
\* session's own user, whatever it is about.
Notice(s, kind) ==
  [kind |-> kind, res |-> NULL, item |-> request[s].item, to |-> UserOf[s]]

SubmitMail(s) ==
  /\ request[s].at = "submitCommitted"
  /\ Send(s, Notice(s, "received"))

-----------------------------------------------------------------------------
(* adminChangeStatusAction and adminRejectSpecialRequestAction, by a link   *)
(* in a list that may be old: neither looks at the status the row has now.  *)

\* Mutant of VerdictLoad: the status of the row is not loaded with it.
VerdictLoadUnread(s, i, at) ==
  /\ s \in AdminSessions
  /\ Accept(s)
  /\ inventory[i] # NULL
  /\ request' = [request EXCEPT ![s] = [Idle EXCEPT !.at = at, !.item = i]]
  /\ UNCHANGED <<tables, sent>>

\* find() on the id of the link; without a row the handler dies of the null.
VerdictLoad(s, i, at) ==
  /\ s \in AdminSessions
  /\ Accept(s)
  /\ inventory[i] # NULL
  /\ request' = [request EXCEPT ![s] =
       [Idle EXCEPT !.at = at, !.item = i, !.seen = inventory[i].status]]
  /\ UNCHANGED <<tables, sent>>

AcceptLoad(s, i) == VerdictLoad(s, i, "acceptLoaded")

RejectLoad(s, i) == VerdictLoad(s, i, "rejectLoaded")

\* Mutant of AcceptFlush: the accepted request is given the status under which
\* the list shows it.
AcceptFlushAsPending(s) ==
  /\ request[s].at = "acceptLoaded"
  /\ inventory' = FlushStatus(request[s].item, request[s].seen, "PENDING_SPECIAL")
  /\ request' = [request EXCEPT ![s].at = "acceptCommitted"]
  /\ UNCHANGED <<users, reservations, nextReservation, freshItems, sent>>

\* setItemStatus(PENDING_ARRIVAL), flush().
AcceptFlush(s) ==
  /\ request[s].at = "acceptLoaded"
  /\ inventory' = FlushStatus(request[s].item, request[s].seen, "PENDING_ARRIVAL")
  /\ request' = [request EXCEPT ![s].at = "acceptCommitted"]
  /\ UNCHANGED <<users, reservations, nextReservation, freshItems, sent>>

AcceptMail(s) ==
  /\ request[s].at = "acceptCommitted"
  /\ Send(s, Notice(s, "accepted"))

\* Mutant of RejectFlush: the row is kept, under a status that no list shows.
RejectFlushKeepingRow(s) ==
  /\ request[s].at = "rejectLoaded"
  /\ ~Reserved(request[s].item)
  /\ request' = [request EXCEPT ![s].at = "rejectCommitted"]
  /\ UNCHANGED <<tables, sent>>

\* remove(record), flush(): the foreign key of a reservation keeps its item.
RejectFlush(s) ==
  /\ request[s].at = "rejectLoaded"
  /\ ~Reserved(request[s].item)
  /\ inventory' = [inventory EXCEPT ![request[s].item] = NULL]
  /\ request' = [request EXCEPT ![s].at = "rejectCommitted"]
  /\ UNCHANGED <<users, reservations, nextReservation, freshItems, sent>>

RejectRefused(s) ==
  /\ request[s].at = "rejectLoaded"
  /\ Reserved(request[s].item)
  /\ Done(s)
  /\ UNCHANGED <<tables, sent>>

RejectMail(s) ==
  /\ request[s].at = "rejectCommitted"
  /\ Send(s, Notice(s, "rejected"))

-----------------------------------------------------------------------------
RequestsStart(s) ==
  \/ \E pending \in Pending, t \in Types : SubmitLoad(s, pending, t)
  \/ \E i \in ItemIds : AcceptLoad(s, i) \/ RejectLoad(s, i)

RequestsHandle(s) ==
  \/ SubmitFlush(s)
  \/ SubmitRefused(s)
  \/ SubmitMail(s)
  \/ AcceptFlush(s)
  \/ AcceptMail(s)
  \/ RejectFlush(s)
  \/ RejectRefused(s)
  \/ RejectMail(s)

-----------------------------------------------------------------------------
(* Properties.                                                             *)

Notices(kind) == {m \in sent : m.kind = kind}

\* A user who is told that a request was received has one: the row was made, and
\* as long as it exists it is that user's.
ReceiptsAreHonest ==
  \A m \in Notices("received") :
    /\ m.item \notin freshItems
    /\ inventory[m.item] # NULL => inventory[m.item].user = m.to

\* A request that was reported accepted never waits for a verdict again, and one
\* that was reported rejected is gone for good, whichever of two administrators
\* came first and whatever the other had read by then.
VerdictsAreFinal ==
  /\ \A m \in Notices("accepted") :
       inventory[m.item] # NULL => inventory[m.item].status \notin Pending
  /\ \A m \in Notices("rejected") :
       inventory[m.item] = NULL /\ m.item \notin freshItems
=============================================================================
