-------------------------- MODULE MCServerRouting ---------------------------
(* Model values for ServerRouting.                                             *)
EXTENDS ServerRouting, TLC

CONSTANTS e1, e2, d1, c1, c2, c3

MCSuffix == (e1 :> 2) @@ (e2 :> 2)

\* Nothing tells connections apart, nor clients that derive the same address.
MCSymmetry == Permutations({c1, c2, c3}) \cup Permutations({e1, e2})
=============================================================================
