--------------------------- MODULE ClientNetwork ----------------------------
(***************************************************************************)
(* A session on a host whose networks change: the overlap watch             *)
(* (OverlapWatch) and the selection of the connection's path (PathSelector).*)
(* Where the host is decides which of the server's addresses it can reach;  *)
(* a path that can no longer be used is lost to iroh some time later.       *)
(***************************************************************************)
EXTENDS OverlapWatch, PathSelector

CONSTANT Reach    \* the paths that work from each set of local networks

InSession == pc \in {"setup", "running"} /\ conn = "open"

NetworkInit == Init /\ PathInit

SelectPath == InSession /\ Select(Reach[locals]) /\ UNCHANGED vars

LosePath ==
  /\ InSession /\ current \notin Reach[locals]
  /\ PathLost /\ UNCHANGED vars

NetworkNext ==
  \/ Next /\ UNCHANGED pathVars
  \/ SelectPath
  \/ LosePath

NetworkSpec == NetworkInit /\ [][NetworkNext]_<<vars, pathVars>>
=============================================================================
