---------------------------- MODULE MCScsuBuffers ----------------------------
(* The bytes that TLC feeds: SDX and SD0, SQ0 and SC0, a letter, and a value   *)
(* that defines a window.                                                      *)
EXTENDS ScsuBuffers

MCInput == {0, 1, 11, 16, 24, 65, 128, 200}
=============================================================================
