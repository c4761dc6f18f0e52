------------------------------ MODULE Pipeline ------------------------------
(***************************************************************************)
(* The GUI pipeline over the failed tasks of one trial directory: runs that *)
(* follow each other, each with a pool of workers that write result files, *)
(* the summary index and the episodic store, and that may be killed. Files *)
(* are rewritten in place. The package and the copy of it behind           *)
(* `python -m agentdebug.gui` differ where FromMain says so.               *)
(***************************************************************************)
EXTENDS Naturals, FiniteSets

CONSTANTS
    Task,        \* 1 .. n, in the order of the work list
    PoolWorker,  \* threads of the pool; a single one stands for no pool
    Tag,         \* taxonomy tags an analysis may end with
    FromMain,    \* the code of gui/__main__.py, or of gui/pipeline
    MaxPipelineRuns,
    MaxPipelineKills,
    NoFile

IF1 == "IF1"
Torn == "torn"
TornStore == {[task |-> 0, tag |-> Torn]}

ASSUME PipelineAssumption ==
    /\ Task \subseteq Nat /\ IsFiniteSet(Task) /\ IsFiniteSet(PoolWorker)
    /\ NoFile \notin Tag \cup {Torn, IF1} /\ Torn \notin Tag

VARIABLES
    run,      \* the run: its number, --skip-existing, work left, entries collected
    worker,   \* what each worker holds
    results,  \* rca_<task>.json of each directory: no file, cut short, or its tag
    index,    \* the lines of step_summaries/index.jsonl
    episodes, \* the records of the episodic store, or TornStore
    summary,  \* summary.json and the classification written with it
    killed

pvars == <<run, worker, results, index, episodes, summary, killed>>

Dir == {"rca", "rca_success"}
Parallel == Cardinality(PoolWorker) > 1
Free == [pc |-> "idle", task |-> 0, tag |-> NoFile, indexed |-> FALSE, held |-> {}]

PipelineInit ==
    /\ run = [pc |-> "off", n |-> 0, skip |-> FALSE, todo |-> {}, entries |-> {}]
    /\ worker = [w \in PoolWorker |-> Free]
    /\ results = [f \in Dir \X Task |-> NoFile]
    /\ index = {} /\ episodes = {} /\ killed = 0
    /\ summary = [n |-> 0, entries |-> {}, moved |-> {}]
-----------------------------------------------------------------------------
\* Mutant: one result file for the whole directory.
MutantFile(task, tag) == <<"rca", 1>>

\* Where a result is written and which file is taken for an existing one.
File(task, tag) == <<IF FromMain /\ tag = IF1 THEN "rca_success" ELSE "rca", task>>
Existing(task) ==
    IF FromMain /\ results[<<"rca", task>>] = NoFile THEN <<"rca_success", task>> ELSE <<"rca", task>>

\* gui/__main__.py passes one argument too few before skip_existing: it gets
\* the number of the task, which counts from 1.
Skips == FromMain \/ run.skip

\* A summary entry; how it came about is history.
Entry(task, tag, status, how, indexed) ==
    [task |-> task, tag |-> tag, status |-> status, how |-> how, indexed |-> indexed]

Collected(w, entry) ==
    /\ run' = [run EXCEPT !.entries = @ \cup {entry}]
    /\ worker' = [worker EXCEPT ![w] = Free]

\* run_full_pipeline up to the pool.
StartRun ==
    /\ run.pc = "off" /\ run.n < MaxPipelineRuns
    /\ \E skip \in BOOLEAN :
          run' = [pc |-> "work", n |-> run.n + 1, skip |-> skip, todo |-> Task, entries |-> {}]
    /\ UNCHANGED <<worker, results, index, episodes, summary, killed>>

\* The run after an exception: a pool logs it, the sequential loop dies of it.
Raised(r) == IF Parallel THEN r ELSE [r EXCEPT !.pc = "off", !.todo = {}]

First(todo) == CHOOSE t \in todo : \A u \in todo : t <= u

\* process_task up to the analysis: the trajectory cannot be read, a result is
\* taken over or cannot be parsed, the task had succeeded after all, or it goes
\* to analysis. The sequential call of gui/__main__.py has no valid arguments.
Take(w) ==
    /\ run.pc = "work" /\ run.todo # {} /\ worker[w].pc = "idle"
    /\ LET t == First(run.todo)
           tag == results[Existing(t)]
           left == [run EXCEPT !.todo = @ \ {t}]
           called == Parallel \/ ~FromMain
           status == IF tag = IF1 THEN "success_after_debug" ELSE "failure"
       IN  \/ called /\ run' = left /\ UNCHANGED worker
           \/ /\ ~called \/ (Skips /\ tag = Torn)
              /\ run' = Raised(left) /\ UNCHANGED worker
           \/ /\ called /\ Skips /\ tag \in Tag
              /\ run' = [left EXCEPT !.entries = @ \cup {Entry(t, tag, status, "skipped", FALSE)}]
              /\ UNCHANGED worker
           \/ /\ called /\ (Skips => tag = NoFile) /\ run' = left
              /\ \E pc \in {"success", "analyse"} :
                    worker' = [worker EXCEPT ![w].pc = pc, ![w].task = t]
    /\ UNCHANGED <<results, index, episodes, summary, killed>>

\* run_rca: it fails, or finds a tag and save_rca_result opens the file.
Analyse(w) ==
    /\ worker[w].pc = "analyse"
    /\ \/ /\ worker' = [worker EXCEPT ![w].pc = "add"] /\ UNCHANGED results
       \/ \E tag \in Tag :
             /\ worker' = [worker EXCEPT ![w].pc = "save", ![w].tag = tag]
             /\ results' = [results EXCEPT ![File(worker[w].task, tag)] = Torn]
    /\ UNCHANGED <<run, index, episodes, summary, killed>>

\* The result is written; an index line follows if steps were summarised.
SaveResult(w) ==
    /\ worker[w].pc = "save"
    /\ results' = [results EXCEPT ![File(worker[w].task, worker[w].tag)] = worker[w].tag]
    /\ \E indexed \in BOOLEAN :
          worker' = [worker EXCEPT ![w].pc = IF indexed THEN "readIndex" ELSE "add",
                                   ![w].indexed = indexed]
    /\ UNCHANGED <<run, index, episodes, summary, killed>>

\* Mutant: the lines of other tasks are not kept.
MutantUpserted(w) == {[task |-> worker[w].task, tag |-> worker[w].tag]}

\* _upsert_summary_index: the lines of other tasks, then this one's.
Upserted(w) ==
    {l \in worker[w].held : l.task # worker[w].task}
        \cup {[task |-> worker[w].task, tag |-> worker[w].tag]}

ReadIndex(w) ==
    /\ worker[w].pc = "readIndex"
    /\ worker' = [worker EXCEPT ![w].pc = "openIndex", ![w].held = index]
    /\ UNCHANGED <<run, results, index, episodes, summary, killed>>

OpenIndex(w) ==
    /\ worker[w].pc = "openIndex"
    /\ worker' = [worker EXCEPT ![w].pc = "writeIndex"]
    /\ index' = {}
    /\ UNCHANGED <<run, results, episodes, summary, killed>>

\* The end of a longer text that another worker wrote meanwhile remains.
WriteIndex(w) ==
    /\ worker[w].pc = "writeIndex"
    /\ worker' = [worker EXCEPT ![w].pc = "add", ![w].held = {}]
    /\ \E rest \in SUBSET index : index' = Upserted(w) \cup rest
    /\ UNCHANGED <<run, results, episodes, summary, killed>>

\* EpisodicMemory.add reads the store, empties the file and writes the store
\* back with one more record.
OpenEpisodes(w) ==
    /\ worker[w].pc \in {"add", "success"}
    /\ IF episodes = TornStore
       THEN /\ worker' = [worker EXCEPT ![w] = Free] /\ run' = Raised(run)
            /\ UNCHANGED episodes
       ELSE /\ worker' = [worker EXCEPT ![w].pc = IF @ = "add" THEN "added" ELSE "stored",
                                        ![w].held = episodes]
            /\ episodes' = TornStore /\ UNCHANGED run
    /\ UNCHANGED <<results, index, summary, killed>>

\* The record, and the entry that process_task returns; the lesson distilled in
\* between is written to a file of its own that no run reads.
WriteEpisodes(w) ==
    /\ worker[w].pc \in {"added", "stored"}
    /\ LET t == worker[w].task
           tag == worker[w].tag
           how == IF tag = NoFile THEN "failed" ELSE "analysed"
       IN  /\ episodes' = worker[w].held \cup {[task |-> t, tag |-> tag]}
           /\ Collected(w, IF worker[w].pc = "stored"
                           THEN Entry(t, NoFile, "success", "success", FALSE)
                           ELSE Entry(t, tag, "failure", how, worker[w].indexed))
    /\ UNCHANGED <<results, index, summary, killed>>

\* The end of run_full_pipeline: the classification and the summary.
Summarise ==
    /\ run.pc = "work" /\ run.todo = {} /\ \A w \in PoolWorker : worker[w].pc = "idle"
    /\ summary' = [n |-> run.n, entries |-> run.entries,
                   moved |-> {e.task : e \in {e \in run.entries : e.status = "success_after_debug"}}]
    /\ run' = [run EXCEPT !.pc = "off", !.entries = {}]
    /\ UNCHANGED <<worker, results, index, episodes, killed>>

\* A kill leaves what is being written as it is: Torn, or some of the lines.
KillPipeline ==
    /\ run.pc = "work" /\ killed < MaxPipelineKills
    /\ killed' = killed + 1
    /\ run' = [run EXCEPT !.pc = "off", !.todo = {}, !.entries = {}]
    /\ worker' = [w \in PoolWorker |-> Free]
    /\ \/ UNCHANGED index
       \/ \E w \in PoolWorker : worker[w].pc = "writeIndex" /\ index' \in SUBSET Upserted(w)
    /\ UNCHANGED <<results, episodes, summary>>
-----------------------------------------------------------------------------
PipelineNext ==
    \/ StartRun \/ Summarise \/ KillPipeline
    \/ \E w \in PoolWorker :
          \/ Take(w) \/ Analyse(w) \/ SaveResult(w)
          \/ ReadIndex(w) \/ OpenIndex(w) \/ WriteIndex(w)
          \/ OpenEpisodes(w) \/ WriteEpisodes(w)

PipelineSpec == PipelineInit /\ [][PipelineNext]_pvars
-----------------------------------------------------------------------------
\* At rest after a run that reached its end.
AtRest == run.pc = "off" /\ summary.n = run.n

\* The summary of the last run says of each task what its result file says,
\* and moves only tasks whose file is tagged IF1, although files may come from
\* earlier runs and be left torn by them (process_task, save_summary).
SummaryMatchesResults ==
    AtRest => /\ \A e \in summary.entries : e.tag # NoFile => results[File(e.task, e.tag)] = e.tag
             /\ \A t \in summary.moved : results[File(t, IF1)] = IF1

\* With one worker, a task that the last run analysed has its line in the index
\* and its record in the store, whatever the index and the store went through
\* in earlier runs that were killed (_upsert_summary_index, EpisodicMemory.add).
AnalysedIsRecorded ==
    AtRest => \A e \in summary.entries : e.how = "analysed" =>
        /\ e.indexed => [task |-> e.task, tag |-> e.tag] \in index
        /\ [task |-> e.task, tag |-> e.tag] \in episodes

\* An existing result is taken over only if the run was asked to skip
\* (--skip-existing).
SkippedWhenAsked ==
    \A e \in run.entries : e.how = "skipped" => run.skip
=============================================================================
