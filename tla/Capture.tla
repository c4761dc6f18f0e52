------------------------------- MODULE Capture -------------------------------
(***************************************************************************)
(* Passive capture of one host session into the project's SQLite store and *)
(* the readable files beside it.                                           *)
(*                                                                         *)
(* A hook process runs CaptureService.handle once for each notification of *)
(* the host; `capture reconcile` (in a process of CliProc) runs it for     *)
(* the receipts an earlier hook left pending or failed.  Processes share   *)
(* the transcript, the database and the files.  An action is one access to *)
(* that shared state with the local code around it; a SQLite transaction   *)
(* that only touches the database is one action, the one that also writes  *)
(* files is three, with the database's write lock held across them.        *)
(***************************************************************************)
EXTENDS Transcript, FiniteSets, FiniteSetsExt

CONSTANTS Proc,           \* processes alive at a time: each runs handle, over and over
          CliProc,        \* those that may also run `capture reconcile`
          Notifications,  \* what the host reports: an event and a native id
          NativeIds,      \* turn or task ids of the host
          Transcripts,    \* what the host may write: a transcript, its prefixes
          TornAt,         \* lengths at which a write may be seen half done
          MaxRecords,     \* bound: complete records of the transcript
          MaxRuns,        \* bound: notifications of the host
          MaxCrashes,     \* bound: hook processes killed
          MaxFaults,      \* bound: reads of the transcript that fail
          None

EventNames ==
    {"SessionStart", "UserPromptSubmit", "Stop", "TaskCompleted", "SessionEnd"}

Lengths == 0..MaxRecords

\* stat() of the transcript: its size, as complete records and a torn tail.
Versions == {v \in [size : Lengths, tail : BOOLEAN] : v.tail => v.size \in TornAt}

\* receipt_id_for: the notification and the version of the transcript.
ReceiptIds == [note : Notifications, version : Versions]

\* boundary_id_for: the notification and the last complete record.
Boundaries == [note : Notifications, last : Lengths]

ReceiptStatus == {"absent", "pending", "failed", "no_op", "committed"}
Receipts == [status : ReceiptStatus, boundary : Boundaries \cup {None}]

Traces == [boundary : Boundaries, events : SUBSET (1..MaxRecords)]

\* The capture_sessions row.  size stands for transcript_size and for
\* transcript_sha256 (a transcript only grows, so its length determines its
\* content), events for event_count and last_event_id.
Sessions == [trace : Boundaries, size : Lengths, boundary : Boundaries \cup {None},
             events : SUBSET (1..MaxRecords), status : {"active", "ended"}]

PCs == {"idle", "session", "replayable", "begin", "snapshot", "boundary",
        "noop", "commit", "index", "close", "reconcile", "fail", "mark"}

Results == {"none", "captured", "no_op", "pending", "failed"}
Done == {"captured", "no_op"}

Hooks == [pc : PCs, note : Notifications \cup {None}, version : Versions,
          seen : Sessions \cup {None}, len : Lengths,
          plan : Boundaries \cup {None}, result : Results,
          replay : ReceiptIds \cup {None}]

ASSUME CliProcAssumption == CliProc \subseteq Proc
ASSUME NotificationsAssumption ==
    Notifications \subseteq [event : EventNames, native : NativeIds]
ASSUME MaxRecordsAssumption == MaxRecords \in Nat
ASSUME MaxRunsAssumption == MaxRuns \in Nat
ASSUME MaxCrashesAssumption == MaxCrashes \in Nat
ASSUME MaxFaultsAssumption == MaxFaults \in Nat
ASSUME NoneAssumption ==
    /\ None \notin Proc \cup Notifications \cup ReceiptIds
    /\ None \notin Boundaries \cup Sessions

VARIABLES
    transcript,  \* the host's file: its complete records
    tail,        \* and whether an incomplete record follows them
    receipts,    \* table capture_receipts
    traces,      \* table capture_traces, in sequence order
    session,     \* the row of capture_sessions, or None
    writer,      \* who holds the database's write lock, or None
    files,       \* traces/NNNN.json: the trace in each file, by number
    index,       \* the trace list of session.json
    hook,        \* what each process runs
    todo,        \* receipts a reconcile command has still to replay
    runs, crashes, faults   \* what is bounded, counted

store == <<receipts, traces, session>>
readable == <<files, index>>
vars == <<transcript, tail, store, writer, readable, hook, todo, runs, crashes, faults>>

NoVersion == [size |-> 0, tail |-> FALSE]
IdleHook == [pc |-> "idle", note |-> None, version |-> NoVersion, seen |-> None,
             len |-> 0, plan |-> None, result |-> "none", replay |-> None]

\* The type invariant: the fields of the tables, files and hook records.
TypeOK ==
    /\ transcript \in Seq(RecordKinds) /\ Len(transcript) <= MaxRecords
    /\ tail \in BOOLEAN /\ (tail => Len(transcript) \in TornAt)
    /\ receipts \in [ReceiptIds -> Receipts]
    /\ traces \in Seq(Traces)
    /\ session \in Sessions \cup {None}
    /\ writer \in Proc \cup {None}
    /\ files \in Seq(Boundaries)
    /\ index \in Seq(Boundaries)
    /\ hook \in [Proc -> Hooks]
    /\ todo \in [Proc -> SUBSET ReceiptIds]
    /\ runs \in 0..MaxRuns
    /\ crashes \in 0..MaxCrashes
    /\ faults \in 0..MaxFaults

Init ==
    /\ transcript = <<>> /\ tail = FALSE
    /\ receipts = [r \in ReceiptIds |-> [status |-> "absent", boundary |-> None]]
    /\ traces = <<>> /\ session = None
    /\ writer = None
    /\ files = <<>> /\ index = <<>>
    /\ hook = [p \in Proc |-> IdleHook]
    /\ todo = [p \in Proc |-> {}]
    /\ runs = 0 /\ crashes = 0 /\ faults = 0

-----------------------------------------------------------------------------
(* The host writes its transcript: a torn record, then the rest of it.     *)

Tear ==
    /\ ~tail /\ Len(transcript) \in TornAt
    /\ tail' = TRUE
    /\ UNCHANGED <<transcript, store, writer, readable, hook, todo, runs, crashes, faults>>

Record(kind) ==
    /\ Len(transcript) < MaxRecords
    /\ Append(transcript, kind) \in Transcripts
    /\ transcript' = Append(transcript, kind)
    /\ tail' = FALSE
    /\ UNCHANGED <<store, writer, readable, hook, todo, runs, crashes, faults>>

-----------------------------------------------------------------------------
(* One run of CaptureService.handle.                                       *)

Rid(p) == [note |-> hook[p].note, version |-> hook[p].version]
Boundary(p) == [note |-> hook[p].note, last |-> hook[p].len]
Event(p) == hook[p].note.event

Replayable == {r \in ReceiptIds : receipts[r].status \in {"pending", "failed"}}
Suppressed(r) == receipts[r].status \in {"committed", "no_op"}

HeldByOther(r, b) == \E q \in ReceiptIds \ {r} : receipts[q].boundary = b
Reconciliation(event) == event \in {"SessionStart", "UserPromptSubmit"}

Goto(p, pc) == hook' = [hook EXCEPT ![p].pc = pc]

\* handle returns.  len is the part of the transcript the answer speaks for.
\* A replaying command marks its receipt when the answer is a success.
Answer(p, result, len) ==
    LET replayed == hook[p].replay # None /\ result \in Done
    IN  hook' = [hook EXCEPT ![p] =
            [pc |-> IF replayed THEN "mark" ELSE "idle", note |-> hook[p].note,
             version |-> NoVersion, seen |-> None, len |-> len, plan |-> None,
             result |-> result, replay |-> IF replayed THEN hook[p].replay ELSE None]]

\* The transcript is stat-ed: from here on this run is about that version.
Begin(p, note, replay) ==
    hook' = [hook EXCEPT ![p] =
        [pc |-> "session", note |-> note,
         version |-> [size |-> Len(transcript), tail |-> tail], seen |-> None,
         len |-> 0, plan |-> None, result |-> "none", replay |-> replay]]

Notify(p, note) ==
    /\ hook[p].pc = "idle" /\ todo[p] = {}
    /\ runs < MaxRuns
    /\ runs' = runs + 1
    /\ Begin(p, note, None)
    /\ UNCHANGED <<transcript, tail, store, writer, readable, todo, crashes, faults>>

LoadSession(p) ==
    /\ hook[p].pc = "session"
    /\ hook' = [hook EXCEPT ![p] = [@ EXCEPT !.pc = "replayable", !.seen = session]]
    /\ UNCHANGED <<transcript, tail, store, writer, readable, todo, runs, crashes, faults>>

\* SessionStart of a session never captured: there is nothing to reconcile.
NothingYet(p) ==
    Event(p) = "SessionStart" /\ hook[p].seen = None /\ Replayable = {}

\* The transcript has the size the session row recorded.
Unchanged(p) ==
    /\ Reconciliation(Event(p)) /\ hook[p].seen # None /\ Replayable = {}
    /\ hook[p].seen.size = hook[p].version.size /\ ~hook[p].version.tail
    /\ ~(Event(p) = "SessionStart" /\ hook[p].seen.status = "ended")

CheckReplayable(p) ==
    /\ hook[p].pc = "replayable"
    /\ \/ NothingYet(p) /\ Answer(p, "no_op", 0)
       \/ Unchanged(p) /\ Answer(p, "no_op", hook[p].version.size)
       \/ ~NothingYet(p) /\ ~Unchanged(p) /\ Goto(p, "begin")
    /\ UNCHANGED <<transcript, tail, store, writer, readable, todo, runs, crashes, faults>>

\* begin_receipt inserts the receipt unless it exists, then reads it back.
BeginReceipt(p) ==
    /\ hook[p].pc = "begin" /\ writer = None
    /\ receipts' = [receipts EXCEPT ![Rid(p)].status =
                        IF @ = "absent" THEN "pending" ELSE @]
    /\ IF Suppressed(Rid(p)) THEN Answer(p, "no_op", hook[p].version.size)
                             ELSE Goto(p, "snapshot")
    /\ UNCHANGED <<transcript, tail, traces, session, writer, readable, todo, runs, crashes, faults>>

\* read_complete_jsonl, and the deadline of a SessionEnd hook.
TakeSnapshot(p) ==
    /\ hook[p].pc = "snapshot"
    /\ \/ hook' = [hook EXCEPT ![p] = [@ EXCEPT !.pc = "boundary", !.len = Len(transcript)]]
       \/ Event(p) = "SessionEnd" /\ Answer(p, "pending", 0)
    /\ UNCHANGED <<transcript, tail, store, writer, readable, todo, runs, crashes, faults>>

\* The transcript cannot be read this time.
SnapshotFails(p) ==
    /\ hook[p].pc = "snapshot" /\ faults < MaxFaults
    /\ faults' = faults + 1
    /\ Goto(p, "fail")
    /\ UNCHANGED <<transcript, tail, store, writer, readable, todo, runs, crashes>>

Snapshot(p) == Kept(transcript, hook[p].len, Event(p))

\* Another receipt already stands for this boundary.
DuplicateBoundary(p) == HeldByOther(Rid(p), Boundary(p))

\* Mutant: the session row is compared with the stat, not with what was read.
SameStat(p) == hook[p].seen # None /\ hook[p].seen.size = hook[p].version.size

\* The snapshot is the one the session row stands for, or the events are.
SameContent(p) == hook[p].seen # None /\ hook[p].seen.size = hook[p].len

\* Mutant: the last event is compared with the end of the transcript.
SameLastEvent(p) ==
    /\ hook[p].seen # None /\ Event(p) # "TaskCompleted"
    /\ Max(hook[p].seen.events) = hook[p].len

SameEvents(p) ==
    /\ hook[p].seen # None /\ Event(p) # "TaskCompleted"
    /\ Cardinality(hook[p].seen.events) = Cardinality(Snapshot(p))
    /\ Max(hook[p].seen.events) = Max(Snapshot(p))

NothingToStore(p) ==
    \/ SameContent(p)
    \/ Snapshot(p) = {}
    \/ SameEvents(p)
    \/ Reconciliation(Event(p)) /\ Responses(transcript, Snapshot(p)) = {}

\* load_boundary_receipt, normalisation and filtering, and what follows from
\* them: a no-op (without a boundary for a duplicate) or a capture.
DecideBoundary(p) ==
    /\ hook[p].pc = "boundary"
    /\ \/ /\ DuplicateBoundary(p)
          /\ Goto(p, "noop")
       \/ /\ ~DuplicateBoundary(p) /\ NothingToStore(p)
          /\ hook' = [hook EXCEPT ![p] = [@ EXCEPT !.pc = "noop", !.plan = Boundary(p)]]
       \/ /\ ~DuplicateBoundary(p) /\ ~NothingToStore(p)
          /\ Goto(p, "commit")
    /\ UNCHANGED <<transcript, tail, store, writer, readable, todo, runs, crashes, faults>>

\* commit_no_op: the receipt's status and boundary, whatever they were, and
\* for SessionStart and SessionEnd the session row if there is one.  Another
\* receipt may have taken the boundary since it was looked up: the unique
\* index capture_boundary_once then refuses the update.
NoOp(p) ==
    /\ hook[p].pc = "noop" /\ writer = None
    /\ IF hook[p].plan # None /\ HeldByOther(Rid(p), hook[p].plan)
       THEN Goto(p, "fail") /\ UNCHANGED <<receipts, session>>
       ELSE /\ receipts' = [receipts EXCEPT
                    ![Rid(p)] = [status |-> "no_op", boundary |-> hook[p].plan]]
            /\ session' = IF session # None /\ Event(p) \in {"SessionStart", "SessionEnd"}
                          THEN [session EXCEPT
                                   !.size = hook[p].len, !.boundary = hook[p].plan,
                                   !.status = IF Event(p) = "SessionEnd" THEN "ended" ELSE "active"]
                          ELSE session
            /\ hook' = [hook EXCEPT ![p] = [@ EXCEPT !.pc = "reconcile", !.result = "no_op"]]
    /\ UNCHANGED <<transcript, tail, traces, writer, readable, todo, runs, crashes, faults>>

-----------------------------------------------------------------------------
(* commit_capture, under BEGIN IMMEDIATE.                                  *)

Put(s, k, b) == IF k <= Len(s) THEN [s EXCEPT ![k] = b] ELSE Append(s, b)

\* Mutant: the next number is taken from the directory, not from the table.
NextFile == Len(files) + 1

\* The next sequence number, and the trace ids capture_traces then lists.
Sequence == Len(traces) + 1
Listed == [k \in 1..Len(traces) |-> traces[k].boundary]
Stored(b) == \E k \in 1..Len(traces) : traces[k].boundary = b

\* Mutant: no uniqueness of trace_id.
NeverTaken(p) == FALSE

TraceIdTaken(p) == Stored(Boundary(p))

\* A receipt suppressed meanwhile ends the transaction in silence, and the
\* caller reports a capture.  A trace id already stored is refused by the
\* table.  Otherwise the rows are inserted (and visible to this transaction
\* only), and traces/NNNN.json is replaced.
OpenCommit(p) ==
    /\ hook[p].pc = "commit" /\ writer = None
    /\ \/ /\ Suppressed(Rid(p))
          /\ hook' = [hook EXCEPT ![p] = [@ EXCEPT !.pc = "reconcile", !.result = "captured"]]
          /\ UNCHANGED <<writer, files>>
       \/ /\ ~Suppressed(Rid(p)) /\ TraceIdTaken(p)
          /\ Goto(p, "fail")
          /\ UNCHANGED <<writer, files>>
       \/ /\ ~Suppressed(Rid(p)) /\ ~TraceIdTaken(p)
          /\ writer' = p
          /\ files' = Put(files, Sequence, Boundary(p))
          /\ Goto(p, "index")
    /\ UNCHANGED <<transcript, tail, store, index, todo, runs, crashes, faults>>

\* session.json, from the rows this transaction sees.
WriteIndex(p) ==
    /\ hook[p].pc = "index"
    /\ index' = Append(Listed, Boundary(p))
    /\ Goto(p, "close")
    /\ UNCHANGED <<transcript, tail, store, writer, files, todo, runs, crashes, faults>>

\* Mutant: the row keeps the trace of the session read at the start.
StaleSessionRow(p) ==
    [trace |-> IF hook[p].seen = None THEN Boundary(p) ELSE hook[p].seen.trace,
     size |-> hook[p].len, boundary |-> Boundary(p), events |-> Snapshot(p),
     status |-> IF Event(p) = "SessionEnd" THEN "ended" ELSE "active"]

SessionRow(p) ==
    [trace |-> Boundary(p), size |-> hook[p].len,
     boundary |-> Boundary(p), events |-> Snapshot(p),
     status |-> IF Event(p) = "SessionEnd" THEN "ended" ELSE "active"]

\* The receipt takes the boundary and the transaction commits, unless the
\* unique index finds the boundary taken: then all but the files is undone.
CloseCommit(p) ==
    /\ hook[p].pc = "close"
    /\ writer' = None
    /\ IF HeldByOther(Rid(p), Boundary(p))
       THEN Goto(p, "fail") /\ UNCHANGED store
       ELSE /\ traces' = Append(traces, [boundary |-> Boundary(p), events |-> Snapshot(p)])
            /\ session' = SessionRow(p)
            /\ receipts' = [receipts EXCEPT
                    ![Rid(p)] = [status |-> "committed", boundary |-> Boundary(p)]]
            /\ hook' = [hook EXCEPT ![p] = [@ EXCEPT !.pc = "reconcile", !.result = "captured"]]
    /\ UNCHANGED <<transcript, tail, readable, todo, runs, crashes, faults>>

-----------------------------------------------------------------------------
(* The end of handle, and what interrupts it.                              *)

\* reconcile_prior_receipts: every other receipt of the session that is
\* still pending or failed, older or newer, becomes a no-op.
Reconcile(p) ==
    /\ hook[p].pc = "reconcile" /\ writer = None
    /\ receipts' = [r \in ReceiptIds |->
                        IF r \in Replayable \ {Rid(p)}
                        THEN [receipts[r] EXCEPT !.status = "no_op"] ELSE receipts[r]]
    /\ Answer(p, hook[p].result, hook[p].len)
    /\ UNCHANGED <<transcript, tail, traces, session, writer, readable, todo, runs, crashes, faults>>

\* mark_failed looks at no status: a committed receipt becomes failed too.
MarkFailed(p) ==
    /\ hook[p].pc = "fail" /\ writer = None
    /\ receipts' = [receipts EXCEPT ![Rid(p)].status =
                        IF @ = "absent" THEN "absent" ELSE "failed"]
    /\ Answer(p, "failed", 0)
    /\ UNCHANGED <<transcript, tail, traces, session, writer, readable, todo, runs, crashes, faults>>

\* The write lock is not released within busy_timeout: the statement raises
\* OperationalError, which handle turns into a failure and mark_failed drops.
Busy(p) ==
    /\ writer # None
    /\ \/ hook[p].pc \in {"begin", "noop", "commit", "reconcile"} /\ Goto(p, "fail")
       \/ hook[p].pc = "fail" /\ Answer(p, "failed", 0)
    /\ UNCHANGED <<transcript, tail, store, writer, readable, todo, runs, crashes, faults>>

\* The host's hook timeout, or anything else, kills the process.  An open
\* transaction is rolled back; the files it wrote stay.
Crash(p) ==
    /\ hook[p].pc # "idle" /\ crashes < MaxCrashes
    /\ crashes' = crashes + 1
    /\ hook' = [hook EXCEPT ![p] = IdleHook]
    /\ writer' = IF writer = p THEN None ELSE writer
    /\ todo' = [todo EXCEPT ![p] = {}]
    /\ UNCHANGED <<transcript, tail, store, readable, runs, faults>>

-----------------------------------------------------------------------------
(* `agentdebug integrations capture reconcile`                             *)

ListReplayable(p) ==
    /\ p \in CliProc /\ hook[p].pc = "idle" /\ todo[p] = {}
    /\ todo' = [todo EXCEPT ![p] = Replayable]
    /\ UNCHANGED <<transcript, tail, store, writer, readable, hook, runs, crashes, faults>>

\* The notification is rebuilt from the receipt and handled against the
\* transcript as it is now.  The command goes on after a failed replay.
Replay(p, r) ==
    /\ hook[p].pc = "idle" /\ r \in todo[p]
    /\ todo' = [todo EXCEPT ![p] = @ \ {r}]
    /\ Begin(p, r.note, r)
    /\ UNCHANGED <<transcript, tail, store, writer, readable, runs, crashes, faults>>

Return(p) ==
    hook' = [hook EXCEPT ![p] = [@ EXCEPT !.pc = "idle", !.replay = None]]

\* Mutant: a failed receipt is not reconciled.
MarkPendingReconciled(p) ==
    /\ hook[p].pc = "mark" /\ writer = None
    /\ receipts' = [receipts EXCEPT ![hook[p].replay].status =
                        IF @ = "pending" THEN "no_op" ELSE @]
    /\ Return(p)
    /\ UNCHANGED <<transcript, tail, traces, session, writer, readable, todo, runs, crashes, faults>>

\* Mutant: a reconciled receipt counts as committed.
MarkCommitted(p) ==
    /\ hook[p].pc = "mark" /\ writer = None
    /\ receipts' = [receipts EXCEPT ![hook[p].replay].status =
                        IF @ \in {"pending", "failed"} THEN "committed" ELSE @]
    /\ Return(p)
    /\ UNCHANGED <<transcript, tail, traces, session, writer, readable, todo, runs, crashes, faults>>

MarkReconciled(p) ==
    /\ hook[p].pc = "mark" /\ writer = None
    /\ receipts' = [receipts EXCEPT ![hook[p].replay].status =
                        IF @ \in {"pending", "failed"} THEN "no_op" ELSE @]
    /\ Return(p)
    /\ UNCHANGED <<transcript, tail, traces, session, writer, readable, todo, runs, crashes, faults>>

\* The command does not catch the error of a busy database: it ends.
MarkBusy(p) ==
    /\ hook[p].pc = "mark" /\ writer # None
    /\ todo' = [todo EXCEPT ![p] = {}]
    /\ Return(p)
    /\ UNCHANGED <<transcript, tail, store, writer, readable, runs, crashes, faults>>

-----------------------------------------------------------------------------
Host == Tear \/ \E kind \in RecordKinds : Record(kind)

Handle(p) ==
    \/ LoadSession(p) \/ CheckReplayable(p) \/ BeginReceipt(p)
    \/ TakeSnapshot(p) \/ SnapshotFails(p) \/ DecideBoundary(p) \/ NoOp(p)
    \/ OpenCommit(p) \/ WriteIndex(p) \/ CloseCommit(p)
    \/ Reconcile(p) \/ MarkFailed(p) \/ Busy(p)
    \/ MarkReconciled(p) \/ MarkBusy(p)

Next ==
    \/ Host
    \/ \E p \in Proc :
        \/ \E note \in Notifications : Notify(p, note)
        \/ ListReplayable(p)
        \/ \E r \in ReceiptIds : Replay(p, r)
        \/ Handle(p)
        \/ Crash(p)

Spec == Init /\ [][Next]_vars

\* A process that has started runs on.
FairSpec == Spec /\ \A p \in Proc : WF_vars(Handle(p))

\* Someone runs `capture reconcile` again for as long as it has work to do.
RecoverySpec ==
    /\ FairSpec
    /\ \A p \in CliProc :
        WF_vars(ListReplayable(p)) /\ WF_vars(\E r \in ReceiptIds : Replay(p, r))

-----------------------------------------------------------------------------
(* Properties.                                                             *)

\* The session row names the newest trace of capture_traces and its events:
\* what `run --current` selects is what was captured last.
SessionNamesNewestTrace ==
    IF traces = <<>> THEN session = None
    ELSE /\ session # None
         /\ session.trace = traces[Len(traces)].boundary
         /\ session.events = traces[Len(traces)].events

\* What the UNIQUE columns of capture_traces and capture_receipts give, and
\* only they, since every look-up is a transaction before the write: no two
\* traces, and no two receipts, for one boundary.
OneTracePerBoundary ==
    \A j, k \in 1..Len(traces) : traces[j].boundary = traces[k].boundary => j = k

OneReceiptPerBoundary ==
    \A r, q \in ReceiptIds :
        receipts[r].boundary # None /\ receipts[r].boundary = receipts[q].boundary => r = q

\* A receipt counted as committed has its trace in the store.
CommittedIsStored ==
    \A r \in ReceiptIds : receipts[r].status = "committed" => Stored(receipts[r].boundary)

\* "The readable files mirror what SQLite already holds": after any crash or
\* rollback every stored trace has its numbered file and its place in
\* session.json; the files may hold one more.
FilesMirrorStore ==
    \A k \in 1..Len(traces) :
        /\ k <= Len(files) /\ files[k] = traces[k].boundary
        /\ k <= Len(index) /\ index[k] = traces[k].boundary

StoredEvents == UNION {traces[k].events : k \in 1..Len(traces)}

\* The responses among the first n records, but for those of a turn that a
\* later run of AgentDebugX leaves out.
FinishedBy(n) ==
    Responses(transcript, Kept(transcript, n, "Stop"))
        \cap Kept(transcript, Len(transcript), "Stop")

\* The database never claims more progress than it holds: every response
\* before the size the session row records, or before a boundary that a
\* receipt has taken, is in a stored trace.  Later hooks answer no_op on the
\* strength of that size and of that boundary, and both are decided upon from
\* a session row and a look-up of earlier transactions, of a transcript that
\* has grown and a store that others have changed since.
ProgressIsBacked ==
    /\ session # None => FinishedBy(session.size) \subseteq StoredEvents
    /\ \A r \in ReceiptIds :
          receipts[r].boundary # None =>
              FinishedBy(receipts[r].boundary.last) \subseteq StoredEvents

\* A hook that answered captured or no_op has left nothing behind: each
\* finished response it saw is in a stored trace.
AnsweredIsStored ==
    \A p \in Proc :
        hook[p].result \in Done /\ hook[p].pc \in {"idle", "mark"} =>
            FinishedBy(hook[p].len) \subseteq StoredEvents

\* The duplicate suppression of README: two traces in a row never hold the
\* same events, unless the later one stands for a task.  (Hooks that race may
\* still store a snapshot twice.)
ConsecutiveTracesDiffer ==
    \A k \in 2..Len(traces) :
        \/ traces[k].events # traces[k - 1].events
        \/ traces[k].boundary.note.event = "TaskCompleted"

\* Seen through the database, capture is an append-only log of distinct
\* traces whose head the session row names, under every race and crash.
Log == INSTANCE TraceLog WITH
           TraceIds <- Boundaries, NoTrace <- None, log <- Listed,
           head <- IF session = None THEN None ELSE session.trace
StoreIsALog == Log!LogSpec

\* Why the properties above hold: the write lock is held exactly between
\* OpenCommit and CloseCommit, and what its holder wrote to the files is
\* what it is about to insert.
LockHeld == \A p \in Proc : writer = p <=> hook[p].pc \in {"index", "close"}
Notified == \A p \in Proc : hook[p].pc # "idle" => hook[p].note # None
InFlight ==
    \A p \in Proc :
        /\ hook[p].pc \in {"index", "close"} =>
              ~Stored(Boundary(p)) /\ Sequence <= Len(files) /\ files[Sequence] = Boundary(p)
        /\ hook[p].pc = "close" => index = Append(Listed, Boundary(p))

IInv ==
    /\ TypeOK /\ Notified /\ LockHeld /\ InFlight
    /\ FilesMirrorStore /\ OneTracePerBoundary /\ OneReceiptPerBoundary
    /\ CommittedIsStored /\ SessionNamesNewestTrace

\* Of hooks and commands that run one after another: whatever hook was killed
\* or could not read the transcript, the reconcile command, run again while
\* it has work, settles every receipt left pending or failed.  (Not for a
\* SessionEnd receipt, whose replay may meet the deadline every time, and not
\* when hooks overlap: a receipt that is committed and then marked failed
\* has no replay that settles it.)
EveryReceiptIsSettled ==
    \A r \in ReceiptIds : r \in Replayable ~> r \notin Replayable
=============================================================================
