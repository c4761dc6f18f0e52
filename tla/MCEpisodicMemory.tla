-------------------------- MODULE MCEpisodicMemory --------------------------
(* The episodic store on small instances. *)
EXTENDS EpisodicMemory, TLC

CONSTANTS e1, e2, e3

\* Records of two lengths, so that a shorter store overwrites a longer one.
Sizes == e1 :> 2 @@ e2 :> 1 @@ e3 :> 1
=============================================================================
