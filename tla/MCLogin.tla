------------------------------ MODULE MCLogin ------------------------------
(* The instance of Login that TLC checks: the founder and one more person,   *)
(* each of whom may sign in in either of two browsers.                       *)
EXTENDS Login, TLC

CONSTANTS ann, eve, annMail, eveMail, s1, s2

MCAddressOf == (ann :> annMail) @@ (eve :> eveMail)
=============================================================================
