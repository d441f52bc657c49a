------------------------------- MODULE MCDesk -------------------------------
(* The instance of Desk that TLC checks: a wearer of regalia and an          *)
(* administrator.                                                            *)
EXTENDS Desk, TLC

CONSTANTS ann, eve,           \* users; eve is the administrator
          sAnn, sEve,         \* their sessions
          gown,
          item1

MCUsers == {ann, eve}

MCUserOf == (sAnn :> ann) @@ (sEve :> eve)

\* UserOf for the sessions of this run.
MCUserOfSession == [s \in Sessions |-> MCUserOf[s]]
=============================================================================
