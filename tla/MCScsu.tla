------------------------------- MODULE MCScsu -------------------------------
(* The instance of ScsuText that TLC checks. The alphabet has a unit of each *)
(* kind: a control character that is quoted, a letter, a character of        *)
(* Latin-1, one of a static window, Greek and Ethiopic without a window,      *)
(* an ideograph, a private character, the byte order mark, and surrogates    *)
(* of two supplementary scripts.                                             *)
EXTENDS ScsuText

MCAlphabet == {1, 65, 233, 8212, 945, 4608, 19968, 57344, 65279, 55296, 55348, 56320, 56352}
=============================================================================
