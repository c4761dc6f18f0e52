---------------------------- MODULE MCBranchStore ----------------------------
(* The branch store on small instances. *)
EXTENDS BranchStore
==============================================================================
