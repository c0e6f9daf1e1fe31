-------------------------- MODULE MCMobileSession ---------------------------
(* Instances of MobileSession: a server that keeps the parameters, reassigns the *)
(* address, or whose addresses change so that other routes are excluded.         *)
EXTENDS MobileSession

MCConfig ==
  {[ip |-> "a", net |-> "n", excluded |-> {}],
   [ip |-> "b", net |-> "n", excluded |-> {}],
   [ip |-> "a", net |-> "n", excluded |-> {"r"}]}
=============================================================================
