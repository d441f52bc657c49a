---------------------------- MODULE RequestBoard ----------------------------
(***************************************************************************)
(* What the closet promises about the life of an item that users may       *)
(* request or donate: it is asked for at most once, waits for a verdict,   *)
(* is settled, and may be dropped; it never goes back.                     *)
(***************************************************************************)
CONSTANT Items

VARIABLE phase

Init == phase \in [Items -> {"unborn", "settled"}]

Move(i, from, to) ==
  /\ phase[i] \in from
  /\ phase' = [phase EXCEPT ![i] = to]

Ask(i) == Move(i, {"unborn"}, "open")

Settle(i) == Move(i, {"open"}, "settled")

Drop(i) == Move(i, {"open", "settled"}, "gone")

Next == \E i \in Items : Ask(i) \/ Settle(i) \/ Drop(i)

Spec == Init /\ [][Next]_phase
=============================================================================
