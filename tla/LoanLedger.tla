----------------------------- MODULE LoanLedger -----------------------------
(***************************************************************************)
(* What the closet promises about lending, with nothing of how: an item is *)
(* on the shelf or out with one user, a user has at most one item of each  *)
(* type, an item goes out in one step and comes back in one step.          *)
(***************************************************************************)
CONSTANTS Borrowers, Items, Kinds, Nobody

VARIABLES
  shelf,  \* the items that are offered
  loan,   \* who has each item, or Nobody
  kind    \* the type of each item

vars == <<shelf, loan, kind>>

Init ==
  /\ kind \in [Items -> Kinds]
  /\ shelf = Items
  /\ loan = [i \in Items |-> Nobody]

Lend(u, i) ==
  /\ i \in shelf
  /\ \A j \in Items : loan[j] = u => kind[j] # kind[i]
  /\ shelf' = shelf \ {i}
  /\ loan' = [loan EXCEPT ![i] = u]
  /\ UNCHANGED kind

GiveBack(i) ==
  /\ loan[i] # Nobody
  /\ shelf' = shelf \cup {i}
  /\ loan' = [loan EXCEPT ![i] = Nobody]
  /\ UNCHANGED kind

Next == \E i \in Items : GiveBack(i) \/ \E u \in Borrowers : Lend(u, i)

Spec == Init /\ [][Next]_vars
=============================================================================
