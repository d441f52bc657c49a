---------------------------- MODULE MCConverters ----------------------------
(* The instance of ConverterCache that TLC checks: a base table, an          *)
(* extension of it, and a composite converter that holds both.               *)
EXTENDS ConverterCache, TLC

CONSTANTS base, extension, plain, extended, composite, t1, t2, t3, b1, b2, b3, b4

MCBaseOf == (base :> NULL) @@ (extension :> base)
MCPartsOf == (plain :> {base}) @@ (extended :> {extension})
               @@ (composite :> {base, extension})
MCSymmetry == Permutations(Threads) \cup Permutations(Blocks)
=============================================================================
