----------------------------- MODULE MCHttpRerun -----------------------------
(* Clients and the runner service on small instances, without symmetry: the    *)
(* client run checks liveness.                                                 *)
EXTENDS HttpRerun
==============================================================================
