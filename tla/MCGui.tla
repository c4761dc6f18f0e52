-------------------------------- MODULE MCGui --------------------------------
(***************************************************************************)
(* The components of the GUI package, and the attribution of a diagnosis,  *)
(* on small instances, side by side. They share no state; an instance      *)
(* exercises one of them.                                                  *)
(***************************************************************************)
EXTENDS LessonMemory, Pipeline, EvolvingTaxonomy, BlockLogger, Attribution, MCEpisodicMemory

VARIABLE part  \* the component exercised

BothRules == <<"map", "semantic">>

LineUps == {<<"binary_search">>, <<"step_by_step", "binary_search", "all_at_once">>,
            <<"sbfl", "counterfactual", "heuristic">>}

\* A step for each event; and short trajectories with two events of one step
\* or an event without a step.
Counted == {[e \in 0..(n - 1) |-> e] : n \in 0..8}
Shared == {[e \in 0..1 |-> 0], [e \in 0..1 |-> IF e = 0 THEN NoStep ELSE 0],
           [e \in 0..2 |-> IF e = 0 THEN 0 ELSE 1]}
Indices == Counted \cup Shared

\* Long trajectories for binary_search alone, errors where they matter.
SmallTrajectory ==
    /\ IF Len(ensemble.backends) = 1
       THEN step_index \in Counted /\ findings = <<>> /\ ensemble.merge = "borda"
       ELSE /\ (events > 1 => step_index \in Shared) /\ root = 0
            /\ \A f \in ToSet(findings) : f.span = 1 \/ (f.span = NoEvent /\ f.step = 0)
    /\ "counterfactual" \in ToSet(ensemble.backends) \/ errors = {}

NoTrajectory ==
    /\ events = 0 /\ root = 0 /\ errors = {} /\ findings = <<>>
    /\ ensemble = [backends |-> <<"binary_search">>, refuse |-> FALSE, merge |-> "borda"]

GuiInit ==
    /\ part \in {"lessons", "pipeline", "evolving", "episodes", "logger", "attribution"}
    /\ LessonInit /\ PipelineInit /\ EvolvingInit /\ MemoryInit /\ LoggerInit /\ AttributionInit
    /\ IF part = "attribution" THEN SmallTrajectory ELSE NoTrajectory

\* Of an episodic store whose changes overlapped nothing is claimed, and it is
\* not followed any further.
GuiNext ==
    /\ UNCHANGED part
    /\ \/ part = "lessons" /\ LessonNext /\ UNCHANGED <<pvars, evars, mvars, loggerVars, avars>>
       \/ part = "pipeline" /\ PipelineNext /\ UNCHANGED <<lvars, evars, mvars, loggerVars, avars>>
       \/ part = "evolving" /\ EvolvingNext /\ UNCHANGED <<lvars, pvars, mvars, loggerVars, avars>>
       \/ part = "episodes" /\ ~overlapped /\ MemoryNext /\ UNCHANGED <<lvars, pvars, evars, loggerVars, avars>>
       \/ part = "logger" /\ LoggerNext /\ UNCHANGED <<lvars, pvars, evars, mvars, avars>>
       \/ part = "attribution" /\ AttributionNext /\ UNCHANGED <<lvars, pvars, evars, mvars, loggerVars>>

GuiSpec == GuiInit /\ [][GuiNext]_<<part, lvars, pvars, evars, mvars, loggerVars, avars>>
=============================================================================
