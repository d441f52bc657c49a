------------------------------- MODULE Custody -------------------------------
(***************************************************************************)
(* What the closet promises about who has which item, however many people  *)
(* lend, take back, request, edit and delete at a time: an item goes from  *)
(* hand to hand in single steps, only an item in stock goes out, only a    *)
(* member gets it, and neither leaves as long as it is out.                *)
(***************************************************************************)
CONSTANTS People, Items, Nobody

VARIABLES
  members,  \* the people who may have items
  fresh,    \* the items that have never been in stock
  stock,    \* the items that belong to the closet, lent or not
  loan      \* who has each item, or Nobody

vars == <<members, fresh, stock, loan>>

Init ==
  /\ members = People
  /\ stock \subseteq Items
  /\ fresh = Items \ stock
  /\ loan = [i \in Items |-> Nobody]

Lend(i, u) ==
  /\ i \in stock /\ loan[i] = Nobody
  /\ u \in members
  /\ loan' = [loan EXCEPT ![i] = u]
  /\ UNCHANGED <<members, fresh, stock>>

GiveBack(i) ==
  /\ loan[i] # Nobody
  /\ loan' = [loan EXCEPT ![i] = Nobody]
  /\ UNCHANGED <<members, fresh, stock>>

\* The loan of i becomes one of j to u: another item, another holder, or both.
Reassign(i, j, u) ==
  /\ loan[i] # Nobody
  /\ j \in stock /\ (j = i \/ loan[j] = Nobody)
  /\ u \in members
  /\ loan' = [loan EXCEPT ![i] = Nobody, ![j] = u]
  /\ UNCHANGED <<members, fresh, stock>>

\* An item enters the closet once.
Acquire(i) ==
  /\ i \in fresh
  /\ fresh' = fresh \ {i}
  /\ stock' = stock \cup {i}
  /\ UNCHANGED <<members, loan>>

Discard(i) ==
  /\ i \in stock /\ loan[i] = Nobody
  /\ stock' = stock \ {i}
  /\ UNCHANGED <<members, fresh, loan>>

Join(u) ==
  /\ members' = members \cup {u}
  /\ UNCHANGED <<fresh, stock, loan>>

Leave(u) ==
  /\ \A i \in Items : loan[i] # u
  /\ members' = members \ {u}
  /\ UNCHANGED <<fresh, stock, loan>>

Next ==
  \/ \E u \in People : Join(u) \/ Leave(u)
  \/ \E i \in Items : Acquire(i) \/ Discard(i) \/ GiveBack(i)
  \/ \E i \in Items, u \in People : Lend(i, u)
  \/ \E i, j \in Items, u \in People : Reassign(i, j, u)

Spec == Init /\ [][Next]_vars
=============================================================================
