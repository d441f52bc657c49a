---------------------------- MODULE MCWuRegalia -----------------------------
(* The instance of WuRegalia that TLC checks: a wearer of regalia and one or *)
(* two administrators.                                                       *)
EXTENDS WuRegalia, TLC

CONSTANTS ann, eve, fay,      \* users; eve and fay are administrators
          sAnn, sEve, sFay,   \* their sessions
          gown,
          item1, item2

MCUsers == {ann, eve, fay}

MCUserOf == (sAnn :> ann) @@ (sEve :> eve) @@ (sFay :> fay)

\* UserOf for the sessions of this run.
MCUserOfSession == [s \in Sessions |-> MCUserOf[s]]
=============================================================================
