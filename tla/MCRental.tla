------------------------------ MODULE MCRental ------------------------------
(* The instance of Rental that TLC checks: two wearers of regalia and two   *)
(* administrators, in one browser session each unless a run says otherwise. *)
EXTENDS SerialRental, TLC

CONSTANTS ann, bob, eve, fay,       \* users; eve and fay are administrators
          sAnn, sAnn2, sBob, sEve,  \* sessions
          sFay,
          gown, cap,          \* item types
          item1, item2

MCUsers == {ann, bob, eve, fay}

MCUserOf == (sAnn :> ann) @@ (sAnn2 :> ann) @@ (sBob :> bob)
            @@ (sEve :> eve) @@ (sFay :> fay)

\* UserOf for the sessions of this run.
MCUserOfSession == [s \in Sessions |-> MCUserOf[s]]
=============================================================================
