----------------------------- MODULE BranchStore -----------------------------
(***************************************************************************)
(* The two JSONL files of the inspection UI, typical cases and debug        *)
(* branches, and the requests that read and rewrite them, each served by a *)
(* thread of one server process. A lock makes each access to a file        *)
(* atomic; the PATCH of a branch makes two of them.                        *)
(***************************************************************************)
EXTENDS Naturals, FiniteSets

CONSTANTS
    Handler,    \* requests served, one after the other by one thread each
    TraceId,    \* traces, all known to the server
    Texts,      \* the texts of records and evaluations: "plain", or "broken" by a
                \* separator (U+2028) that json.dumps leaves and splitlines ends a line at
    MaxRecords, \* bound: records appended to the two files
    MaxKills    \* bound: servers killed

VARIABLES
    handler,    \* what each thread is doing
    branches,   \* debug_branches.jsonl
    cases,      \* typical_error_cases.jsonl
    appended,   \* history: per file, the ids of the records appended
    deleted,    \* history: per file, the ids whose deletion was answered
    evaluated,  \* history: the branches whose PATCH was answered
    garbled,    \* history: per file, the ids whose line cannot be read back
    overlapped, \* history: a line came, went or changed under a PATCH
    killed      \* servers killed

bvars == <<handler, branches, cases, appended, deleted, evaluated, garbled, overlapped, killed>>

Resting == [pc |-> "idle", trace |-> "none", id |-> 0, rows |-> {}]

BranchInit ==
    /\ handler = [h \in Handler |-> Resting]
    /\ branches = [rows |-> {}, torn |-> FALSE, open |-> {}]
    /\ cases = [rows |-> {}, torn |-> FALSE, open |-> {}]
    /\ appended = [branches |-> {}, cases |-> {}]
    /\ deleted = [branches |-> {}, cases |-> {}]
    /\ garbled = [branches |-> {}, cases |-> {}]
    /\ evaluated = {} /\ overlapped = FALSE /\ killed = 0
-----------------------------------------------------------------------------
(* The files: _append_jsonl_record, _read_jsonl_records,                   *)
(* _write_jsonl_records                                                    *)

\* A file is the records its lines hold, in an order nothing depends on; whether
\* it ends in a line cut short; and the record, if any, whose line is whole but
\* for its newline: what is appended next continues the last line. A malformed
\* line is skipped, and gone after the next rewrite.
Row(id, trace) == [id |-> id, trace |-> trace, manual |-> FALSE]

Readable(file, text) == ~file.torn /\ file.open = {} /\ text = "plain"

\* The records that stay when the last line is continued.
Ended(file) == {row \in file.rows : row.id \notin file.open}

AppendRow(file, row, text) ==
    [rows |-> IF Readable(file, text) THEN file.rows \cup {row} ELSE Ended(file),
     torn |-> FALSE, open |-> {}]

\* What the append of a record makes unreadable.
Lost(file, id, text) == IF Readable(file, text) THEN {} ELSE file.open \cup {id}

Rewritten(rows) == [rows |-> rows, torn |-> FALSE, open |-> {}]

Without(rows, id) == {row \in rows : row.id # id}

Ids(file) == {row.id : row \in file.rows}

NextId(file) == Cardinality(appended[file]) + 1
MayAppend == Cardinality(appended.branches) + Cardinality(appended.cases) < MaxRecords

Becomes(h, state) == handler' = [handler EXCEPT ![h] = state]

\* A change of the branches is made under a PATCH of another thread.
UnderPatch(h) == \E g \in Handler \ {h} : handler[g].pc = "patching"
-----------------------------------------------------------------------------
(* The requests                                                            *)

\* _run_rerun_from_event up to the end of the plan, the simulation or the
\* rerun; one that is refused or fails leaves no branch.
StartRerun(h) ==
    /\ handler[h].pc = "idle"
    /\ \E t \in TraceId : Becomes(h, [Resting EXCEPT !.pc = "rerunning", !.trace = t])
    /\ UNCHANGED <<branches, cases, appended, deleted, evaluated, garbled, overlapped, killed>>

RerunFails(h) ==
    /\ handler[h].pc = "rerunning"
    /\ Becomes(h, Resting)
    /\ UNCHANGED <<branches, cases, appended, deleted, evaluated, garbled, overlapped, killed>>

AppendBranch(h) ==
    /\ handler[h].pc = "rerunning" /\ MayAppend
    /\ \E text \in Texts :
          LET id == NextId("branches")
          IN  /\ branches' = AppendRow(branches, Row(id, handler[h].trace), text)
              /\ appended' = [appended EXCEPT !.branches = @ \cup {id}]
              /\ garbled' = [garbled EXCEPT !.branches = @ \cup Lost(branches, id, text)]
    /\ overlapped' = (overlapped \/ UnderPatch(h))
    /\ Becomes(h, Resting)
    /\ UNCHANGED <<cases, deleted, evaluated, killed>>

Evaluated(rows, row) == (rows \ {row}) \cup {[row EXCEPT !.manual = TRUE]}

\* Mutant: the branches of the trace are read, and written back.
MutantReadToPatch(h) ==
    /\ handler[h].pc = "idle"
    /\ \E t \in TraceId :
          LET rows == {row \in branches.rows : row.trace = t}
          IN  \E row \in rows :
                 Becomes(h, [pc |-> "patching", trace |-> t, id |-> row.id, rows |-> Evaluated(rows, row)])
    /\ UNCHANGED <<branches, cases, appended, deleted, evaluated, garbled, overlapped, killed>>

\* update_debug_session: all records are read and one is changed in memory, ...
ReadToPatch(h) ==
    /\ handler[h].pc = "idle"
    /\ \E row \in branches.rows :
          Becomes(h, [pc |-> "patching", trace |-> row.trace, id |-> row.id,
                      rows |-> Evaluated(branches.rows, row)])
    /\ UNCHANGED <<branches, cases, appended, deleted, evaluated, garbled, overlapped, killed>>

\* ... and all are written back, with the evaluation's text.
WritePatched(h) ==
    /\ handler[h].pc = "patching"
    /\ \E text \in Texts :
          LET id == handler[h].id
          IN  IF text = "plain"
              THEN branches' = Rewritten(handler[h].rows) /\ UNCHANGED garbled
              ELSE /\ branches' = Rewritten(Without(handler[h].rows, id))
                   /\ garbled' = [garbled EXCEPT !.branches = @ \cup {id}]
    /\ evaluated' = evaluated \cup {handler[h].id}
    /\ overlapped' = (overlapped \/ UnderPatch(h))
    /\ Becomes(h, Resting)
    /\ UNCHANGED <<cases, appended, deleted, killed>>

\* _delete_debug_branch_record, under the lock as a whole.
DeleteBranch(h) ==
    /\ handler[h].pc = "idle"
    /\ \E id \in Ids(branches) :
          /\ branches' = Rewritten(Without(branches.rows, id))
          /\ deleted' = [deleted EXCEPT !.branches = @ \cup {id}]
    /\ overlapped' = (overlapped \/ UnderPatch(h))
    /\ UNCHANGED <<handler, cases, appended, evaluated, garbled, killed>>

SaveCase(h) ==
    /\ handler[h].pc = "idle" /\ MayAppend
    /\ \E t \in TraceId, text \in Texts :
          LET id == NextId("cases")
          IN  /\ cases' = AppendRow(cases, Row(id, t), text)
              /\ appended' = [appended EXCEPT !.cases = @ \cup {id}]
              /\ garbled' = [garbled EXCEPT !.cases = @ \cup Lost(cases, id, text)]
    /\ UNCHANGED <<handler, branches, deleted, evaluated, overlapped, killed>>

DeleteCase(h) ==
    /\ handler[h].pc = "idle"
    /\ \E id \in Ids(cases) :
          /\ cases' = Rewritten(Without(cases.rows, id))
          /\ deleted' = [deleted EXCEPT !.cases = @ \cup {id}]
    /\ UNCHANGED <<handler, branches, appended, evaluated, garbled, overlapped, killed>>

\* What a kill in an append leaves: a piece of the line, or all but its newline.
CutShort(file) == [rows |-> Ended(file), torn |-> TRUE, open |-> {}]
Unended(file, row) == [rows |-> file.rows \cup {row}, torn |-> FALSE, open |-> {row.id}]

KilledInBranch(h) ==
    /\ handler[h].pc = "rerunning"
    /\ \/ /\ branches' = CutShort(branches)
          /\ garbled' = [garbled EXCEPT !.branches = @ \cup branches.open]
          /\ UNCHANGED appended
       \/ LET id == NextId("branches")
          IN  /\ Readable(branches, "plain") /\ MayAppend
              /\ branches' = Unended(branches, Row(id, handler[h].trace))
              /\ appended' = [appended EXCEPT !.branches = @ \cup {id}]
              /\ UNCHANGED garbled
    /\ UNCHANGED cases

KilledInCase ==
    /\ \/ /\ cases' = CutShort(cases)
          /\ garbled' = [garbled EXCEPT !.cases = @ \cup cases.open]
          /\ UNCHANGED appended
       \/ LET id == NextId("cases")
          IN  /\ Readable(cases, "plain") /\ MayAppend
              /\ \E t \in TraceId : cases' = Unended(cases, Row(id, t))
              /\ appended' = [appended EXCEPT !.cases = @ \cup {id}]
              /\ UNCHANGED garbled
    /\ UNCHANGED branches

\* The server is killed, maybe while a line is being appended; another is
\* started on the same files.
KillServer ==
    /\ killed < MaxKills
    /\ killed' = killed + 1 /\ handler' = [h \in Handler |-> Resting]
    /\ \/ UNCHANGED <<branches, cases, appended, garbled>>
       \/ \E h \in Handler : KilledInBranch(h)
       \/ KilledInCase
    /\ UNCHANGED <<deleted, evaluated, overlapped>>
-----------------------------------------------------------------------------
BranchNext ==
    \/ \E h \in Handler :
          \/ StartRerun(h) \/ RerunFails(h) \/ AppendBranch(h)
          \/ ReadToPatch(h) \/ WritePatched(h) \/ DeleteBranch(h)
          \/ SaveCase(h) \/ DeleteCase(h)
    \/ KillServer

BranchSpec == BranchInit /\ [][BranchNext]_bvars
-----------------------------------------------------------------------------
Manual(file) == {row.id : row \in {r \in file.rows : r.manual}}

\* As long as no PATCH overlapped a change, the files hold exactly what was
\* appended, not deleted and can be read back, and the branches exactly the
\* evaluations that were answered, over requests on any trace, over kills and
\* over lines cut short: one costs the record that continues it, a line left
\* without its newline also its own (branch_store.py, update_debug_session).
StoresAreExact ==
    ~overlapped =>
        /\ Ids(branches) = appended.branches \ (deleted.branches \cup garbled.branches)
        /\ Manual(branches) = evaluated \ (deleted.branches \cup garbled.branches)
        /\ Ids(cases) = appended.cases \ (deleted.cases \cup garbled.cases)

\* What was appended stays until somebody deletes it.
AppendedIsKept == appended.branches \subseteq Ids(branches) \cup deleted.branches
=============================================================================
