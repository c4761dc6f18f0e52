----------------------------- MODULE MCInspector -----------------------------
(***************************************************************************)
(* The components of the inspection UI, and the plugin of the DeepSeek     *)
(* Harness that opens it, on small instances, side by side. They share no  *)
(* state; an instance exercises one of them.                               *)
(***************************************************************************)
EXTENDS Discussion, BranchStore, Workbench, DshBridge, TLC

VARIABLE part  \* the component exercised

StoresOfRuns == 1 :> "A" @@ 2 :> "B"

InspectorSymmetry == Permutations(Request) \cup Permutations(Port)

InspectorInit ==
    /\ part \in {"discussion", "branches", "workbench", "plugin"}
    /\ DiscussionInit /\ BranchInit /\ WorkbenchInit /\ BridgeInit

InspectorNext ==
    /\ UNCHANGED part
    /\ \/ part = "discussion" /\ DiscussionNext /\ UNCHANGED <<bvars, wvars, hvars>>
       \/ part = "branches" /\ BranchNext /\ UNCHANGED <<dvars, wvars, hvars>>
       \/ part = "workbench" /\ WorkbenchNext /\ UNCHANGED <<dvars, bvars, hvars>>
       \/ part = "plugin" /\ BridgeNext /\ UNCHANGED <<dvars, bvars, wvars>>

InspectorSpec == InspectorInit /\ [][InspectorNext]_<<part, dvars, bvars, wvars, hvars>>
=============================================================================
