---------------------------- MODULE SerialRental ----------------------------
(***************************************************************************)
(* The lending that Rental does, seen as the abstract LoanLedger: an item  *)
(* is on the shelf when its status says so, and out with the user of its   *)
(* reservation.  With one worker, so that a request is over before the     *)
(* next one begins, Rental implements it; with more it does not, which the *)
(* runs over the violated properties of Rental show.                       *)
(***************************************************************************)
EXTENDS Rental

Shelf == {i \in ItemIds : StatusIs(i, "AVAL")}

Kinds == [i \in ItemIds |-> inventory[i].type]

Ledger == INSTANCE LoanLedger WITH
  Borrowers <- Users,
  Items     <- ItemIds,
  Kinds     <- Types,
  Nobody    <- NULL,
  shelf     <- Shelf,
  loan      <- Loans,
  kind      <- Kinds

\* Every rental and every return is one atomic step of the ledger, and no other
\* step of a handler, an abort or a mail changes what the ledger says.
ImplementsLedger == Ledger!Spec
=============================================================================
