------------------------------ MODULE Workbench ------------------------------
(***************************************************************************)
(* The workbench: processes that each execute one debug run and keep its   *)
(* manifest, and the local UI they start or share, through a state file    *)
(* and a start-up lock. Processes may be killed at any step.               *)
(***************************************************************************)
EXTENDS Naturals, FiniteSets

CONSTANTS
    DebugRun,     \* runs, each executed by a process of its own
    Viewer,       \* processes that open the UI on a run that exists
    StoreOf,      \* StoreOf[r]: the trace store r was asked to use
    Captured,     \* runs of a captured trace, whose manifest is moved to its session
    Port,         \* ports of the host
    Stranger,     \* any program that this workbench has not started
    MaxRunKills,  \* bound: processes killed
    MaxUiDeaths,  \* bound: servers that exit
    MaxStrangers, \* bound: strangers that come
    Nobody

ASSUME WorkbenchAssumption ==
    /\ DebugRun \cap Viewer = {} /\ Captured \subseteq DebugRun
    /\ Nobody \notin DebugRun \cup Viewer /\ Nobody \notin Port
    /\ Stranger \notin DebugRun \cup Viewer \cup {Nobody}
    /\ \A r \in DebugRun : StoreOf[r] # Nobody

VARIABLES
    manifest,  \* manifest[r]: its status, artifacts and place, or absent
    process,   \* what each process is doing
    traces,    \* runs whose trace is in its store
    reports,   \* runs whose report is in its store
    uiState,   \* ui/state.json: port, store and readiness, or Nobody
    child,     \* child[c]: the server that process c has started
    listener,  \* listener[p]: whose server has bound the port
    startLock, \* who holds ui/startup.lock
    runKills, uiDeaths, strangers

host == <<child, listener, uiDeaths, strangers>>
uiVars == <<uiState, startLock, host>>
wvars == <<manifest, process, traces, reports, runKills, uiVars>>

Party == DebugRun \cup Viewer
Absent == [status |-> "absent", trace |-> FALSE, report |-> FALSE, place |-> "runs"]

\* A child is starting, then serving (late: it came up only after its starter
\* had let go of the start-up lock), then gone.
NoChild == [port |-> Nobody, store |-> Nobody, state |-> "none"]

\* run: the run a process works on; port: the UI it starts or was given;
\* looked: where _path found the manifest.
NoCall == [pc |-> "off", run |-> Nobody, port |-> Nobody, looked |-> Nobody]

WorkbenchInit ==
    /\ manifest = [r \in DebugRun |-> Absent]
    /\ process = [c \in Party |-> NoCall]
    /\ traces = {} /\ reports = {}
    /\ uiState = Nobody /\ startLock = Nobody
    /\ child = [c \in Party |-> NoChild] /\ listener = [p \in Port |-> Nobody]
    /\ runKills = 0 /\ uiDeaths = 0 /\ strangers = 0

GoOn(c, pc) == process' = [process EXCEPT ![c].pc = pc]
-----------------------------------------------------------------------------
(* execute_run                                                             *)

Create(r) ==
    /\ process[r].pc = "off" /\ manifest[r] = Absent
    /\ manifest' = [manifest EXCEPT ![r].status = "running"]
    /\ process' = [process EXCEPT ![r].pc = "load", ![r].run = r]
    /\ UNCHANGED <<traces, reports, uiVars, runKills>>

\* plan_run: a manifest and nothing else.
Plan(r) ==
    /\ process[r].pc = "off" /\ manifest[r] = Absent
    /\ manifest' = [manifest EXCEPT ![r].status = "planned"]
    /\ GoOn(r, "done")
    /\ UNCHANGED <<traces, reports, uiVars, runKills>>

SaveTrace(r) ==
    /\ process[r].pc = "load"
    /\ traces' = traces \cup {r}
    /\ GoOn(r, "bind")
    /\ UNCHANGED <<manifest, reports, uiVars, runKills>>

\* bind_session moves the manifest of a captured run in one rename.
BindSession(r) ==
    /\ process[r].pc = "bind"
    /\ manifest' = IF r \in Captured THEN [manifest EXCEPT ![r].place = "session"] ELSE manifest
    /\ GoOn(r, "update")
    /\ UNCHANGED <<traces, reports, uiVars, runKills>>

UpdateRun(r) ==
    /\ process[r].pc = "update"
    /\ manifest' = [manifest EXCEPT ![r].trace = TRUE]
    /\ GoOn(r, "diagnose")
    /\ UNCHANGED <<traces, reports, uiVars, runKills>>

\* Anything that fails up to the update makes the run failed, afterwards
\* partial: an incompatible pipeline, no model, a diagnosis or a store that
\* raises. What was noted in memory is written with it.
FailRun(r) ==
    /\ process[r].pc \in {"load", "bind", "update", "diagnose", "complete"}
    /\ manifest' = [manifest EXCEPT
          ![r].status = IF process[r].pc \in {"diagnose", "complete"} THEN "partial" ELSE "failed",
          ![r].trace = process[r].pc # "load",
          ![r].report = process[r].pc = "complete"]
    /\ GoOn(r, "done")
    /\ UNCHANGED <<traces, reports, uiVars, runKills>>

SaveReport(r) ==
    /\ process[r].pc = "diagnose"
    /\ reports' = reports \cup {r}
    /\ GoOn(r, "complete")
    /\ UNCHANGED <<manifest, traces, uiVars, runKills>>

\* Mutant: the manifest is completed before the report is stored.
MutantComplete(r) ==
    /\ process[r].pc = "diagnose"
    /\ manifest' = [manifest EXCEPT ![r].status = "completed", ![r].report = TRUE]
    /\ \E pc \in {"done", "ask"} : GoOn(r, pc)
    /\ UNCHANGED <<traces, reports, uiVars, runKills>>

Complete(r) ==
    /\ process[r].pc = "complete"
    /\ manifest' = [manifest EXCEPT ![r].status = "completed", ![r].report = TRUE]
    /\ \E pc \in {"done", "ask"} : GoOn(r, pc)
    /\ UNCHANGED <<traces, reports, uiVars, runKills>>
-----------------------------------------------------------------------------
(* ensure_ui, called at the end of a run or on one that exists             *)

OpenRun(v, r) ==
    /\ process[v].pc = "off" /\ manifest[r] # Absent
    /\ process' = [process EXCEPT ![v].pc = "ask", ![v].run = r]
    /\ UNCHANGED <<manifest, traces, reports, uiVars, runKills>>

\* What ends a server, and frees its port.
Gone(c) ==
    /\ child' = [child EXCEPT ![c].state = "gone"]
    /\ listener' = [p \in Port |-> IF listener[p] = c THEN Nobody ELSE listener[p]]

TakeStartLock(c) ==
    /\ process[c].pc = "ask" /\ startLock = Nobody
    /\ startLock' = c /\ GoOn(c, "look")
    /\ UNCHANGED <<manifest, traces, reports, runKills, uiState, host>>

\* The end of ensure_ui, by return or by exception.
EndUi(c, pc) == startLock' = Nobody /\ GoOn(c, pc)

\* load_run looks for the manifest, and reads it at the place it found.
LookUp(c) ==
    /\ process[c].pc = "look"
    /\ process' = [process EXCEPT ![c].pc = "loadRun", ![c].looked = manifest[process[c].run].place]
    /\ UNCHANGED <<manifest, traces, reports, runKills, uiVars>>

Loaded(c) ==
    LET found == manifest[process[c].run]
    IN  found.place = process[c].looked /\ found.trace /\ found.report

\* It has been moved meanwhile, or names no trace or no report.
LoadFails(c) ==
    /\ process[c].pc = "loadRun" /\ ~Loaded(c)
    /\ EndUi(c, "refused")
    /\ UNCHANGED <<manifest, traces, reports, runKills, uiState, host>>

\* Mutant: a UI that answers is taken for one of the store.
MutantReuse(c) ==
    /\ uiState # Nobody
    /\ listener[uiState.port] # Nobody
    /\ startLock' = Nobody
    /\ process' = [process EXCEPT ![c].pc = "ready", ![c].port = uiState.port]
    /\ UNCHANGED uiState

\* The state file names a UI for the store, and whoever has its port answers.
Reuse(c) ==
    /\ uiState # Nobody /\ uiState.store = StoreOf[process[c].run]
    /\ listener[uiState.port] # Nobody
    /\ startLock' = Nobody
    /\ process' = [process EXCEPT ![c].pc = "ready", ![c].port = uiState.port]
    /\ UNCHANGED uiState

\* The run is whole. The UI the state file names is used if it is for the same
\* store and answers; if not, or if the probe times out, the file is removed.
LoadRun(c) ==
    /\ process[c].pc = "loadRun" /\ Loaded(c)
    /\ \/ Reuse(c)
       \/ uiState' = Nobody /\ GoOn(c, "spawn") /\ UNCHANGED startLock
    /\ UNCHANGED <<manifest, traces, reports, runKills, host>>

\* _free_port finds a port nobody has bound, which may be one that another
\* server, still starting, is about to bind; and Popen, or its failure.
Spawn(c) ==
    /\ process[c].pc = "spawn"
    /\ \/ \E p \in {p \in Port : listener[p] = Nobody} :
             /\ child' = [child EXCEPT ![c] =
                   [port |-> p, store |-> StoreOf[process[c].run], state |-> "starting"]]
             /\ process' = [process EXCEPT ![c].pc = "announce", ![c].port = p]
             /\ UNCHANGED startLock
       \/ EndUi(c, "refused") /\ UNCHANGED child
    /\ UNCHANGED <<manifest, traces, reports, runKills, uiState, listener, uiDeaths, strangers>>

Announced(c, ready) == [port |-> process[c].port, store |-> StoreOf[process[c].run], ready |-> ready]

Announce(c) ==
    /\ process[c].pc = "announce"
    /\ uiState' = Announced(c, FALSE)
    /\ GoOn(c, "wait")
    /\ UNCHANGED <<manifest, traces, reports, runKills, startLock, host>>

\* The loop that polls the child and then probes its port: the child has
\* exited; someone answers, though the child may have exited since; or it has
\* taken too long and the child is terminated.
AwaitReady(c) ==
    /\ process[c].pc = "wait"
    /\ \/ /\ child[c].state = "gone"
          /\ uiState' = Nobody /\ EndUi(c, "refused") /\ UNCHANGED <<child, listener>>
       \/ /\ listener[process[c].port] # Nobody
          /\ uiState' = Announced(c, TRUE) /\ EndUi(c, "ready") /\ UNCHANGED <<child, listener>>
       \/ Gone(c) /\ uiState' = Nobody /\ EndUi(c, "refused")
    /\ UNCHANGED <<manifest, traces, reports, runKills, uiDeaths, strangers>>

\* The caller goes its way: a run writes the address into its manifest.
LeaveUi(c) ==
    /\ process[c].pc \in {"ready", "refused"}
    /\ process' = [process EXCEPT ![c] = [NoCall EXCEPT !.pc = "done"]]
    /\ UNCHANGED <<manifest, traces, reports, uiVars, runKills>>
-----------------------------------------------------------------------------
ServerUp(c) ==
    LET p == child[c].port
    IN  /\ child[c].state = "starting" /\ listener[p] = Nobody
        /\ child' = [child EXCEPT ![c].state = IF startLock = c THEN "serving" ELSE "late"]
        /\ listener' = [listener EXCEPT ![p] = c]
        /\ UNCHANGED <<manifest, process, traces, reports, runKills, uiState, startLock, uiDeaths, strangers>>

\* It cannot bind a port that is taken.
ServerFails(c) ==
    /\ child[c].state = "starting" /\ listener[child[c].port] # Nobody
    /\ Gone(c)
    /\ UNCHANGED <<manifest, process, traces, reports, runKills, uiState, startLock, uiDeaths, strangers>>

ServerExits(c) ==
    /\ child[c].state \in {"starting", "serving", "late"} /\ uiDeaths < MaxUiDeaths
    /\ Gone(c) /\ uiDeaths' = uiDeaths + 1
    /\ UNCHANGED <<manifest, process, traces, reports, runKills, uiState, startLock, strangers>>

\* Another program binds a port, or leaves it.
StrangerComes(p) ==
    /\ listener[p] = Nobody /\ strangers < MaxStrangers
    /\ listener' = [listener EXCEPT ![p] = Stranger]
    /\ strangers' = strangers + 1
    /\ UNCHANGED <<manifest, process, traces, reports, runKills, uiState, startLock, child, uiDeaths>>

StrangerLeaves(p) ==
    /\ listener[p] = Stranger
    /\ listener' = [listener EXCEPT ![p] = Nobody]
    /\ UNCHANGED <<manifest, process, traces, reports, runKills, uiState, startLock, child, uiDeaths, strangers>>

\* The kernel releases the lock of a killed process; the server it has started
\* is a session of its own and lives on.
KillProcess(c) ==
    /\ process[c].pc \notin {"off", "done"} /\ runKills < MaxRunKills
    /\ process' = [process EXCEPT ![c] = [NoCall EXCEPT !.pc = "done"]]
    /\ startLock' = IF startLock = c THEN Nobody ELSE startLock
    /\ runKills' = runKills + 1
    /\ UNCHANGED <<manifest, traces, reports, uiState, host>>

Execute(r) ==
    Create(r) \/ Plan(r) \/ SaveTrace(r) \/ BindSession(r) \/ UpdateRun(r)
    \/ FailRun(r) \/ SaveReport(r) \/ Complete(r)

EnsureUi(c) ==
    TakeStartLock(c) \/ LookUp(c) \/ LoadFails(c) \/ LoadRun(c)
    \/ Spawn(c) \/ Announce(c) \/ AwaitReady(c) \/ LeaveUi(c)

WorkbenchNext ==
    \/ \E r \in DebugRun : Execute(r)
    \/ \E v \in Viewer, r \in DebugRun : OpenRun(v, r)
    \/ \E c \in Party : EnsureUi(c) \/ KillProcess(c)
    \/ \E c \in Party : ServerUp(c) \/ ServerFails(c) \/ ServerExits(c)
    \/ \E p \in Port : StrangerComes(p) \/ StrangerLeaves(p)

WorkbenchSpec == WorkbenchInit /\ [][WorkbenchNext]_wvars
-----------------------------------------------------------------------------
\* What a manifest refers to is in the store before the manifest says so,
\* whatever step fails and wherever the process is killed (execute_run).
ManifestIsBacked ==
    \A r \in DebugRun :
        /\ manifest[r].trace => r \in traces
        /\ manifest[r].report => r \in reports
        /\ manifest[r].status = "completed" => manifest[r].trace /\ manifest[r].report

\* A UI started by this workbench that is given out for a run serves the store
\* of that run: state files left by servers that died, by starters that were
\* killed or by runs of another store do not make it pass, although ports are
\* used again (_ensure_ui_locked). Who answers is not asked for a name
\* (_healthy), so two others may pass: a stranger's server on the port, and a
\* server that came up after its starter had let go of the start-up lock.
GivenUiServesRun ==
    [][\A c \in Party : process[c].pc # "ready" /\ process'[c].pc = "ready" =>
          LET who == listener[process'[c].port]
          IN  \/ who = Stranger
              \/ who \in Party /\ child[who].state = "late"
              \/ who \in Party /\ child[who].store = StoreOf[process[c].run]]_wvars
=============================================================================
