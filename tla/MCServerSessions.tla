-------------------------- MODULE MCServerSessions --------------------------
(***************************************************************************)
(* Model values for ServerSessions.  In a network of four, by node id, e1    *)
(* and e2 derive the same address and e3 derives the server's own.           *)
(***************************************************************************)
EXTENDS ServerSessions, TLC

CONSTANTS e1, e2, e3, d1

MCSuffix == (e1 :> 2) @@ (e2 :> 6) @@ (e3 :> 5)
MCSuffixOf2 == (e1 :> 2) @@ (e2 :> 6)
=============================================================================
