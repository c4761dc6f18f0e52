---------------------------- MODULE CaptureProofs ----------------------------
(* Theorems about Capture for every value of its constants. *)
EXTENDS Capture, SequenceTheorems, WellFoundedInduction, FiniteSetTheorems, TLAPS

LEMMA IdleHookType == NoVersion \in Versions /\ IdleHook \in Hooks
  <1>1. NoVersion \in Versions
    BY MaxRecordsAssumption DEF NoVersion, Versions, Lengths
  <1>2. 0 \in Lengths
    BY MaxRecordsAssumption DEF Lengths
  <1> QED BY <1>1, <1>2 DEF IdleHook, Hooks, PCs, Results

\* What a step may do to a hook record keeps it one.
LEMMA HookFields ==
    ASSUME NEW h \in Hooks, NEW pc \in PCs
    PROVE  /\ \A len \in Lengths : [h EXCEPT !.pc = pc, !.len = len] \in Hooks
           /\ \A seen \in Sessions \cup {None} : [h EXCEPT !.pc = pc, !.seen = seen] \in Hooks
           /\ \A plan \in Boundaries \cup {None} : [h EXCEPT !.pc = pc, !.plan = plan] \in Hooks
           /\ \A result \in Results : [h EXCEPT !.pc = pc, !.result = result] \in Hooks
           /\ [h EXCEPT !.pc = pc, !.replay = None] \in Hooks
           /\ [h EXCEPT !.pc = pc] \in Hooks
  <1> DEFINE g == [h EXCEPT !.pc = pc]
  <1>1. g \in Hooks
    BY DEF Hooks
  <1>2. /\ \A len \in Lengths : [g EXCEPT !.len = len] \in Hooks
        /\ \A seen \in Sessions \cup {None} : [g EXCEPT !.seen = seen] \in Hooks
        /\ \A plan \in Boundaries \cup {None} : [g EXCEPT !.plan = plan] \in Hooks
        /\ \A result \in Results : [g EXCEPT !.result = result] \in Hooks
        /\ [g EXCEPT !.replay = None] \in Hooks
    <2> HIDE DEF g
    <2> QED BY <1>1 DEF Hooks
  <1> QED BY <1>1, <1>2

\* Put replaces or appends one element.
LEMMA PutProperties ==
    ASSUME NEW s \in Seq(Boundaries), NEW k \in 1..(Len(s) + 1), NEW b \in Boundaries
    PROVE  /\ Put(s, k, b) \in Seq(Boundaries)
           /\ k <= Len(Put(s, k, b)) /\ Len(s) <= Len(Put(s, k, b))
           /\ Put(s, k, b)[k] = b
           /\ \A j \in 1..Len(s) : j # k => Put(s, k, b)[j] = s[j]
  BY DEF Put

\* What Listed is: the boundaries of the stored traces.
LEMMA ListedProperties ==
    ASSUME TypeOK
    PROVE  /\ Listed \in Seq(Boundaries) /\ Len(Listed) = Len(traces)
           /\ \A k \in 1..Len(traces) : Listed[k] = traces[k].boundary
  <1>1. Len(traces) \in Nat /\ (\A k \in 1..Len(traces) : traces[k] \in Traces)
    BY DEF TypeOK
  <1>2. Listed \in [1..Len(traces) -> Boundaries]
    BY <1>1 DEF Listed, Traces
  <1>3. Listed \in Seq(Boundaries)
    BY <1>1, <1>2, SeqDef
  <1> QED BY <1>1, <1>2, <1>3, LenProperties DEF Listed

\* What is kept of a transcript is a set of its records.
LEMMA SnapshotType ==
    ASSUME TypeOK, NEW p \in Proc
    PROVE  Snapshot(p) \in SUBSET (1..MaxRecords) /\ hook[p].len \in Lengths
  <1>1. hook[p].len \in Lengths
    BY DEF TypeOK, Hooks
  <1>2. \A i \in 1..hook[p].len : i \in 1..MaxRecords
    BY <1>1, MaxRecordsAssumption DEF Lengths
  <1>3. Snapshot(p) \subseteq 1..hook[p].len
    BY DEF Snapshot, Kept, Normalized
  <1> QED BY <1>1, <1>2, <1>3

LEMMA InitInv == Init => IInv
  <1> SUFFICES ASSUME Init PROVE IInv
    OBVIOUS
  <1>1. TypeOK
    <2>1. receipts \in [ReceiptIds -> Receipts]
      BY DEF Init, Receipts, ReceiptStatus
    <2>2. hook \in [Proc -> Hooks] /\ todo \in [Proc -> SUBSET ReceiptIds]
      BY IdleHookType DEF Init
    <2>3. transcript \in Seq(RecordKinds) /\ Len(transcript) <= MaxRecords
      BY MaxRecordsAssumption DEF Init
    <2>4. runs \in 0..MaxRuns /\ crashes \in 0..MaxCrashes /\ faults \in 0..MaxFaults
      BY MaxRunsAssumption, MaxCrashesAssumption, MaxFaultsAssumption DEF Init
    <2>5. traces \in Seq(Traces) /\ files \in Seq(Boundaries) /\ index \in Seq(Boundaries)
      BY DEF Init
    <2> QED BY <2>1, <2>2, <2>3, <2>4, <2>5 DEF Init, TypeOK
  <1>2. Notified /\ LockHeld /\ InFlight
    BY NoneAssumption DEF Init, Notified, LockHeld, InFlight, IdleHook
  <1>3. FilesMirrorStore /\ OneTracePerBoundary /\ SessionNamesNewestTrace
    BY DEF Init, FilesMirrorStore, OneTracePerBoundary, SessionNamesNewestTrace
  <1>4. OneReceiptPerBoundary /\ CommittedIsStored
    BY DEF Init, OneReceiptPerBoundary, CommittedIsStored
  <1> QED BY <1>1, <1>2, <1>3, <1>4 DEF IInv

-----------------------------------------------------------------------------
(* Type correctness.                                                       *)

LEMMA TypeNext == TypeOK /\ Notified /\ [Next]_vars => TypeOK'
  <1> SUFFICES ASSUME TypeOK, Notified, [Next]_vars PROVE TypeOK'
    OBVIOUS
  <1> USE DEF TypeOK
  <1>len. Len(transcript) \in Lengths
    BY MaxRecordsAssumption DEF Lengths
  <1>begin. ASSUME NEW p \in Proc, NEW note \in Notifications,
                   NEW replay \in ReceiptIds \cup {None}, Begin(p, note, replay)
            PROVE  hook' \in [Proc -> Hooks]
    <2>1. [size |-> Len(transcript), tail |-> tail] \in Versions
      BY <1>len DEF Versions
    <2> QED BY <1>begin, <2>1, IdleHookType DEF Begin, Hooks, IdleHook, PCs
  <1>answer. ASSUME NEW p \in Proc, NEW result \in Results, NEW len \in Lengths,
                    Answer(p, result, len)
             PROVE  hook' \in [Proc -> Hooks]
    BY <1>answer, IdleHookType DEF Answer, Hooks, IdleHook, PCs
  <1>goto. ASSUME NEW p \in Proc, NEW pc \in PCs, Goto(p, pc)
           PROVE  hook' \in [Proc -> Hooks]
    BY <1>goto, ZenonT(30) DEF Goto, Hooks
  <1>rid. ASSUME NEW p \in Proc, hook[p].pc # "idle"
          PROVE  /\ hook[p] \in Hooks /\ hook[p].note \in Notifications
                 /\ Rid(p) \in ReceiptIds /\ Boundary(p) \in Boundaries
    BY <1>rid DEF Notified, Hooks, Rid, Boundary, ReceiptIds, Boundaries
  <1>1. CASE Tear
    BY <1>1 DEF Tear, store, readable
  <1>2. ASSUME NEW kind \in RecordKinds, Record(kind) PROVE TypeOK'
    <2>1. /\ Append(transcript, kind) \in Seq(RecordKinds)
          /\ Len(Append(transcript, kind)) = Len(transcript) + 1
      OBVIOUS
    <2>2. Len(transcript) + 1 <= MaxRecords
      BY <1>2, MaxRecordsAssumption DEF Record
    <2>3. transcript' \in Seq(RecordKinds) /\ Len(transcript') <= MaxRecords
      BY <1>2, <2>1, <2>2 DEF Record
    <2> QED BY <1>2, <2>3 DEF Record, store, readable
  <1>3. ASSUME NEW p \in Proc, NEW note \in Notifications, Notify(p, note) PROVE TypeOK'
    BY <1>3, <1>begin, MaxRunsAssumption DEF Notify, store, readable
  <1>4. ASSUME NEW p \in Proc, ListReplayable(p) PROVE TypeOK'
    BY <1>4 DEF ListReplayable, Replayable, store, readable
  <1>5. ASSUME NEW p \in Proc, NEW r \in ReceiptIds, Replay(p, r) PROVE TypeOK'
    <2>1. r.note \in Notifications
      BY DEF ReceiptIds
    <2> QED BY <1>5, <2>1, <1>begin DEF Replay, store, readable
  <1>6. ASSUME NEW p \in Proc, Handle(p) PROVE TypeOK'
    <2> USE <1>rid, <1>answer, <1>goto DEF store, readable
    <2> hook[p] \in Hooks /\ hook[p].len \in Lengths /\ hook[p].version.size \in Lengths /\ 0 \in Lengths
      BY MaxRecordsAssumption DEF Hooks, Versions, Lengths
    <2>events. Snapshot(p) \in SUBSET (1..MaxRecords)
      BY SnapshotType
    <2>1. CASE LoadSession(p)
      BY <2>1 DEF LoadSession, Hooks, PCs
    <2>2. CASE CheckReplayable(p)
      BY <2>2 DEF CheckReplayable, PCs, Results
    <2>3. CASE BeginReceipt(p)
      <3>1. receipts' \in [ReceiptIds -> Receipts]
        BY <2>3 DEF BeginReceipt, Receipts, ReceiptStatus
      <3> QED BY <2>3, <3>1 DEF BeginReceipt, PCs, Results
    <2>4. CASE TakeSnapshot(p)
      <3>1. hook' \in [Proc -> Hooks]
        <4>1. "boundary" \in PCs /\ "pending" \in Results
          BY DEF PCs, Results
        <4>2. [hook[p] EXCEPT !.pc = "boundary", !.len = Len(transcript)] \in Hooks
          BY <4>1, <1>len, HookFields
        <4> QED BY <2>4, <4>1, <4>2 DEF TakeSnapshot
      <3> QED BY <2>4, <3>1 DEF TakeSnapshot
    <2>5. CASE SnapshotFails(p)
      BY <2>5, MaxFaultsAssumption DEF SnapshotFails, PCs
    <2>6. CASE DecideBoundary(p)
      <3>1. hook' \in [Proc -> Hooks]
        <4>1. "noop" \in PCs /\ "commit" \in PCs /\ hook[p].pc # "idle"
          BY <2>6 DEF DecideBoundary, PCs
        <4>2. [hook[p] EXCEPT !.pc = "noop", !.plan = Boundary(p)] \in Hooks
          BY <4>1, HookFields
        <4> QED BY <2>6, <4>1, <4>2 DEF DecideBoundary
      <3> QED BY <2>6, <3>1 DEF DecideBoundary
    <2>7. CASE NoOp(p)
      <3>1. hook[p].plan \in Boundaries \cup {None}
        BY DEF Hooks
      <3>2. receipts' \in [ReceiptIds -> Receipts]
        BY <2>7, <3>1 DEF NoOp, Receipts, ReceiptStatus
      <3>3. session' \in Sessions \cup {None}
        BY <2>7, <3>1 DEF NoOp, Sessions
      <3>4. hook' \in [Proc -> Hooks]
        BY <2>7, HookFields DEF NoOp, PCs, Results
      <3> QED BY <2>7, <3>2, <3>3, <3>4 DEF NoOp
    <2>8. CASE OpenCommit(p)
      <3>1. hook' \in [Proc -> Hooks]
        BY <2>8, HookFields DEF OpenCommit, PCs, Results
      <3>2. files' \in Seq(Boundaries)
        <4>1. Boundary(p) \in Boundaries
          BY <2>8 DEF OpenCommit
        <4>2. Put(files, Sequence, Boundary(p)) \in Seq(Boundaries)
          BY <4>1 DEF Put, Sequence
        <4> QED BY <2>8, <4>2 DEF OpenCommit
      <3> QED BY <2>8, <3>1, <3>2 DEF OpenCommit
    <2>9. CASE WriteIndex(p)
      <3>1. Listed \in Seq(Boundaries)
        BY ListedProperties
      <3> QED BY <2>9, <3>1 DEF WriteIndex, PCs
    <2>10. CASE CloseCommit(p)
      <3>1. [boundary |-> Boundary(p), events |-> Snapshot(p)] \in Traces
        BY <2>10, <2>events DEF CloseCommit, Traces
      <3>2. session' \in Sessions \cup {None}
        BY <2>10, <2>events DEF CloseCommit, SessionRow, Sessions
      <3>3. receipts' \in [ReceiptIds -> Receipts]
        <4>1. [status |-> "committed", boundary |-> Boundary(p)] \in Receipts
          BY <2>10 DEF CloseCommit, Receipts, ReceiptStatus
        <4> QED BY <2>10, <4>1 DEF CloseCommit
      <3>4. hook' \in [Proc -> Hooks]
        BY <2>10, HookFields DEF CloseCommit, PCs, Results
      <3>5. traces' \in Seq(Traces)
        <4>1. Append(traces, [boundary |-> Boundary(p), events |-> Snapshot(p)]) \in Seq(Traces)
          BY <3>1
        <4> QED BY <2>10, <4>1 DEF CloseCommit
      <3>6. /\ UNCHANGED <<transcript, tail, files, index, todo, runs, crashes, faults>>
            /\ writer' = None
        BY <2>10 DEF CloseCommit
      <3> QED BY <3>2, <3>3, <3>4, <3>5, <3>6
    <2>11. CASE Reconcile(p)
      <3>1. receipts' \in [ReceiptIds -> Receipts]
        BY <2>11, ZenonT(30) DEF Reconcile, Receipts, ReceiptStatus
      <3> QED BY <2>11, <3>1 DEF Reconcile, Hooks
    <2>12. CASE MarkFailed(p)
      <3>1. receipts' \in [ReceiptIds -> Receipts]
        BY <2>12 DEF MarkFailed, Receipts, ReceiptStatus
      <3> QED BY <2>12, <3>1 DEF MarkFailed, Results
    <2>13. CASE Busy(p)
      BY <2>13 DEF Busy, PCs, Results
    <2>14. CASE MarkReconciled(p)
      <3>1. receipts' \in [ReceiptIds -> Receipts]
        BY <2>14, ZenonT(30) DEF MarkReconciled, Receipts, ReceiptStatus
      <3> QED BY <2>14, <3>1 DEF MarkReconciled, Return, Hooks, PCs
    <2>15. CASE MarkBusy(p)
      BY <2>15 DEF MarkBusy, Return, Hooks, PCs
    <2> QED BY <1>6, <2>1, <2>2, <2>3, <2>4, <2>5, <2>6, <2>7, <2>8, <2>9, <2>10, <2>11, <2>12, <2>13, <2>14, <2>15 DEF Handle
  <1>7. ASSUME NEW p \in Proc, Crash(p) PROVE TypeOK'
    BY <1>7, IdleHookType, MaxCrashesAssumption DEF Crash, store, readable
  <1>8. CASE UNCHANGED vars
    BY <1>8 DEF vars, store, readable
  <1> QED BY <1>1, <1>2, <1>3, <1>4, <1>5, <1>6, <1>7, <1>8 DEF Next, Host

-----------------------------------------------------------------------------
(* The inductive invariant.                                                *)

\* A step that neither commits nor touches the files, the lock and the
\* processes between opening and closing a commit keeps the invariant, if it
\* keeps boundaries apart and commits no receipt.
LEMMA NoCommit ==
    ASSUME IInv, TypeOK', UNCHANGED <<traces, writer, files, index>>,
           \/ session' = session
           \/ /\ session # None /\ session' # None
              /\ session'.trace = session.trace /\ session'.events = session.events,
           OneReceiptPerBoundary',
           \A r \in ReceiptIds : receipts'[r].status = "committed" => receipts'[r] = receipts[r],
           \A p \in Proc : \/ hook'[p] = hook[p]
                           \/ /\ {hook[p].pc, hook'[p].pc} \cap {"index", "close"} = {}
                              /\ hook'[p].note # None \/ hook'[p].pc = "idle"
    PROVE  IInv'
  <1>1. Listed' = Listed /\ Sequence' = Sequence /\ (\A b : Stored(b)' <=> Stored(b))
    BY DEF Listed, Sequence, Stored
  <1>2. Notified'
    BY DEF IInv, Notified
  <1>3. LockHeld'
    BY DEF IInv, LockHeld
  <1>4. InFlight'
    BY <1>1 DEF IInv, InFlight, Boundary
  <1>5. (FilesMirrorStore /\ OneTracePerBoundary /\ SessionNamesNewestTrace)'
    BY DEF IInv, FilesMirrorStore, OneTracePerBoundary, SessionNamesNewestTrace
  <1>6. CommittedIsStored'
    BY <1>1 DEF IInv, CommittedIsStored
  <1> QED BY <1>2, <1>3, <1>4, <1>5, <1>6 DEF IInv

\* What the steps that set no boundary do to receipts.
LEMMA SameBoundaries ==
    ASSUME OneReceiptPerBoundary,
           \A r \in ReceiptIds : receipts'[r].boundary = receipts[r].boundary
    PROVE  OneReceiptPerBoundary'
  BY DEF OneReceiptPerBoundary

LEMMA InvNext == IInv /\ [Next]_vars => IInv'
  <1> SUFFICES ASSUME IInv, [Next]_vars PROVE IInv'
    OBVIOUS
  <1>type. TypeOK /\ TypeOK'
    BY TypeNext DEF IInv
  <1>one. OneReceiptPerBoundary
    BY DEF IInv
  <1>rest. ASSUME UNCHANGED <<store, writer, readable>>,
                  \A p \in Proc : \/ hook'[p] = hook[p]
                                  \/ /\ {hook[p].pc, hook'[p].pc} \cap {"index", "close"} = {}
                                     /\ hook'[p].note # None \/ hook'[p].pc = "idle"
           PROVE  IInv'
    <2>1. OneReceiptPerBoundary'
      BY <1>rest, <1>one, SameBoundaries DEF store
    <2> QED BY <1>rest, <1>type, <2>1, NoCommit DEF store, readable
  <1>begin. ASSUME NEW p \in Proc, NEW note \in Notifications, NEW replay, Begin(p, note, replay)
            PROVE  /\ \A q \in Proc \ {p} : hook'[q] = hook[q]
                   /\ hook'[p].pc = "session" /\ hook'[p].note # None
    BY <1>type, <1>begin, NoneAssumption DEF Begin, TypeOK
  <1>answer. ASSUME NEW p \in Proc, NEW result, NEW len, Answer(p, result, len)
             PROVE  /\ \A q \in Proc \ {p} : hook'[q] = hook[q]
                    /\ hook'[p].pc \in {"mark", "idle"} /\ hook'[p].note = hook[p].note
    BY <1>type, <1>answer DEF Answer, TypeOK
  <1>goto. ASSUME NEW p \in Proc, NEW pc, Goto(p, pc)
           PROVE  /\ \A q \in Proc \ {p} : hook'[q] = hook[q]
                  /\ hook'[p].pc = pc /\ hook'[p].note = hook[p].note
    BY <1>type, <1>goto DEF Goto, TypeOK, Hooks
  <1>note. \A p \in Proc : hook[p].pc # "idle" => hook[p].note # None
    BY DEF IInv, Notified
  <1>1. CASE Host
    BY <1>1, <1>rest DEF Host, Tear, Record
  <1>2. ASSUME NEW p \in Proc, NEW note \in Notifications, Notify(p, note) PROVE IInv'
    BY <1>2, <1>rest, <1>begin DEF Notify
  <1>3. ASSUME NEW p \in Proc, ListReplayable(p) PROVE IInv'
    BY <1>3, <1>rest DEF ListReplayable
  <1>4. ASSUME NEW p \in Proc, NEW r \in ReceiptIds, Replay(p, r) PROVE IInv'
    <2>1. r.note \in Notifications
      BY DEF ReceiptIds
    <2> QED BY <1>4, <2>1, <1>rest, <1>begin DEF Replay
  <1>5. ASSUME NEW p \in Proc, Handle(p) PROVE IInv'
    <2>1. CASE LoadSession(p)
      BY <2>1, <1>rest, <1>note, <1>type DEF LoadSession, TypeOK, Hooks
    <2>2. CASE CheckReplayable(p)
      BY <2>2, <1>rest, <1>note, <1>answer, <1>goto DEF CheckReplayable
    <2>3. CASE BeginReceipt(p)
      <3>1. \A r \in ReceiptIds : /\ receipts'[r].boundary = receipts[r].boundary
                                  /\ receipts'[r].status = "committed" => receipts'[r] = receipts[r]
        BY <2>3, <1>type DEF BeginReceipt, TypeOK, Receipts
      <3>2. OneReceiptPerBoundary'
        BY <3>1, <1>one, SameBoundaries
      <3> QED BY <2>3, <3>1, <3>2, <1>type, <1>note, <1>answer, <1>goto, NoCommit DEF BeginReceipt, readable
    <2>4. CASE TakeSnapshot(p)
      <3>1. CASE hook' = [hook EXCEPT ![p] = [@ EXCEPT !.pc = "boundary", !.len = Len(transcript)]]
        <4>1. /\ \A q \in Proc \ {p} : hook'[q] = hook[q]
              /\ hook'[p].pc = "boundary" /\ hook'[p].note = hook[p].note
          BY <3>1, <1>type DEF TypeOK, Hooks
        <4> QED BY <2>4, <4>1, <1>rest, <1>note DEF TakeSnapshot
      <3>2. CASE Answer(p, "pending", 0)
        BY <2>4, <3>2, <1>rest, <1>note, <1>answer DEF TakeSnapshot
      <3> QED BY <2>4, <3>1, <3>2 DEF TakeSnapshot
    <2>5. CASE SnapshotFails(p)
      BY <2>5, <1>rest, <1>note, <1>goto DEF SnapshotFails
    <2>6. CASE DecideBoundary(p)
      <3>1. CASE hook' = [hook EXCEPT ![p] = [@ EXCEPT !.pc = "noop", !.plan = Boundary(p)]]
        <4>1. /\ \A q \in Proc \ {p} : hook'[q] = hook[q]
              /\ hook'[p].pc = "noop" /\ hook'[p].note = hook[p].note
          BY <3>1, <1>type DEF TypeOK, Hooks
        <4> QED BY <2>6, <4>1, <1>rest, <1>note DEF DecideBoundary
      <3>2. CASE Goto(p, "noop") \/ Goto(p, "commit")
        BY <2>6, <3>2, <1>rest, <1>note, <1>goto DEF DecideBoundary
      <3> QED BY <2>6, <3>1, <3>2 DEF DecideBoundary
    <2>7. CASE NoOp(p)
      <3> DEFINE refused == hook[p].plan # None /\ HeldByOther(Rid(p), hook[p].plan)
      <3>1. CASE refused
        BY <2>7, <3>1, <1>rest, <1>note, <1>goto DEF NoOp, store
      <3>2. CASE ~refused
        <4>1. \A r \in ReceiptIds :
                 receipts'[r] = IF r = Rid(p) THEN [status |-> "no_op", boundary |-> hook[p].plan]
                                              ELSE receipts[r]
          BY <2>7, <3>2, <1>type DEF NoOp, TypeOK
        <4>2. OneReceiptPerBoundary'
          BY <3>2, <4>1, <1>one DEF OneReceiptPerBoundary, HeldByOther
        <4>3. /\ \A q \in Proc \ {p} : hook'[q] = hook[q]
              /\ hook'[p].pc = "reconcile" /\ hook'[p].note = hook[p].note
          <5>1. hook' = [hook EXCEPT ![p] = [@ EXCEPT !.pc = "reconcile", !.result = "no_op"]]
            BY <2>7, <3>2 DEF NoOp
          <5> QED BY <5>1, <1>type DEF TypeOK, Hooks
        <4>4. \/ session' = session
              \/ /\ session # None /\ session' # None
                 /\ session'.trace = session.trace /\ session'.events = session.events
          <5>1. CASE session # None /\ session' # session
            <6>1. session \in Sessions
              BY <5>1, <1>type DEF TypeOK
            <6>2. session' = [session EXCEPT
                                   !.size = hook[p].len, !.boundary = hook[p].plan,
                                   !.status = IF Event(p) = "SessionEnd" THEN "ended" ELSE "active"]
              BY <2>7, <3>2, <5>1 DEF NoOp
            <6>3. session'.trace = session.trace /\ session'.events = session.events
              BY <6>1, <6>2 DEF Sessions
            <6>4. session' \in Sessions
              BY <6>1, <6>2, <1>type, <2>7 DEF TypeOK, Hooks, NoOp, Sessions
            <6> QED BY <5>1, <6>3, <6>4, NoneAssumption
          <5>2. CASE session = None
            BY <2>7, <3>2, <5>2 DEF NoOp
          <5> QED BY <5>1, <5>2
        <4> QED BY <2>7, <4>1, <4>2, <4>3, <4>4, <1>type, <1>note, NoCommit DEF NoOp, readable
      <3> QED BY <3>1, <3>2
    <2>8. CASE OpenCommit(p)
      <3>1. CASE /\ hook' = [hook EXCEPT ![p] = [@ EXCEPT !.pc = "reconcile", !.result = "captured"]]
                 /\ UNCHANGED <<writer, files>>
        <4>1. /\ \A q \in Proc \ {p} : hook'[q] = hook[q]
              /\ hook'[p].pc = "reconcile" /\ hook'[p].note = hook[p].note
          BY <3>1, <1>type DEF TypeOK, Hooks
        <4> QED BY <2>8, <3>1, <4>1, <1>rest, <1>note DEF OpenCommit, readable
      <3>2. CASE Goto(p, "fail") /\ UNCHANGED <<writer, files>>
        BY <2>8, <3>2, <1>rest, <1>note, <1>goto DEF OpenCommit, readable
      <3>3. CASE /\ ~Stored(Boundary(p)) /\ writer' = p
                 /\ files' = Put(files, Sequence, Boundary(p)) /\ Goto(p, "index")
        <4>1. /\ \A q \in Proc \ {p} : hook'[q] = hook[q]
              /\ hook'[p].pc = "index" /\ hook'[p].note = hook[p].note
              /\ Boundary(p)' = Boundary(p)
          BY <3>3, <1>type DEF Goto, TypeOK, Hooks, Boundary
        <4>2. Boundary(p) \in Boundaries
          BY <2>8, <1>note, <1>type DEF OpenCommit, TypeOK, Hooks, Boundary, Boundaries
        <4>3. Sequence \in 1..(Len(files) + 1) /\ Len(traces) \in Nat /\ Len(files) \in Nat
              /\ Len(traces) <= Len(files)
          BY <1>type DEF IInv, TypeOK, FilesMirrorStore, Sequence
        <4>4. /\ Sequence <= Len(files') /\ files'[Sequence] = Boundary(p)
              /\ \A k \in 1..Len(traces) : k <= Len(files') /\ files'[k] = files[k]
          <5>1. files \in Seq(Boundaries)
            BY <1>type DEF TypeOK
          <5>2. /\ Sequence <= Len(files') /\ Len(files) <= Len(files')
                /\ files'[Sequence] = Boundary(p)
                /\ \A j \in 1..Len(files) : j # Sequence => files'[j] = files[j]
            <6> DEFINE new == Put(files, Sequence, Boundary(p))
            <6>1. /\ Sequence <= Len(new) /\ Len(files) <= Len(new)
                  /\ new[Sequence] = Boundary(p)
                  /\ \A j \in 1..Len(files) : j # Sequence => new[j] = files[j]
              <7> HIDE DEF Sequence, Boundary
              <7> QED BY <4>2, <4>3, <5>1, PutProperties
            <6> QED BY <3>3, <6>1
          <5>3. files' \in Seq(Boundaries)
            BY <1>type DEF TypeOK
          <5> QED BY <4>3, <5>2, <5>3 DEF Sequence
        <4>5. UNCHANGED <<traces, receipts, session, index>> /\ writer = None
          BY <2>8 DEF OpenCommit, store
        <4>6. Listed' = Listed /\ Sequence' = Sequence /\ (\A b : Stored(b)' <=> Stored(b))
          BY <4>5 DEF Listed, Sequence, Stored
        <4>7. Notified' /\ LockHeld'
          BY <4>1, <4>5, <3>3, <1>note, <2>8, NoneAssumption DEF IInv, Notified, LockHeld, OpenCommit
        <4>8. InFlight'
          BY <4>1, <4>4, <4>5, <4>6, <3>3, NoneAssumption DEF IInv, InFlight, LockHeld
        <4>9. FilesMirrorStore'
          BY <4>4, <4>5 DEF IInv, FilesMirrorStore
        <4>10. (OneTracePerBoundary /\ SessionNamesNewestTrace /\ OneReceiptPerBoundary /\ CommittedIsStored)'
          BY <4>5, <4>6 DEF IInv, OneTracePerBoundary, SessionNamesNewestTrace,
                            OneReceiptPerBoundary, CommittedIsStored
        <4> QED BY <1>type, <4>7, <4>8, <4>9, <4>10 DEF IInv
      <3> QED BY <2>8, <3>1, <3>2, <3>3 DEF OpenCommit, TraceIdTaken
    <2>9. CASE WriteIndex(p)
      <3>1. /\ \A q \in Proc \ {p} : hook'[q] = hook[q]
            /\ hook'[p].pc = "close" /\ hook'[p].note = hook[p].note
            /\ Boundary(p)' = Boundary(p)
        BY <2>9, <1>type DEF WriteIndex, Goto, TypeOK, Hooks, Boundary
      <3>2. UNCHANGED <<traces, receipts, session, files, writer>>
        BY <2>9 DEF WriteIndex, store
      <3>3. Listed' = Listed /\ Sequence' = Sequence /\ (\A b : Stored(b)' <=> Stored(b))
        BY <3>2 DEF Listed, Sequence, Stored
      <3>4. Notified' /\ LockHeld'
        BY <3>1, <3>2, <1>note, <2>9 DEF IInv, Notified, LockHeld, WriteIndex
      <3>5. InFlight'
        BY <2>9, <3>1, <3>2, <3>3 DEF IInv, InFlight, LockHeld, WriteIndex
      <3>6. FilesMirrorStore'
        <4>1. Boundary(p) \in Boundaries
          BY <2>9, <1>note, <1>type DEF WriteIndex, TypeOK, Hooks, Boundary, Boundaries
        <4>2. \A k \in 1..Len(traces) : k <= Len(index') /\ index'[k] = traces[k].boundary
          BY <2>9, <4>1, <1>type, ListedProperties DEF WriteIndex, TypeOK
        <4> QED BY <3>2, <4>2 DEF IInv, FilesMirrorStore
      <3>7. (OneTracePerBoundary /\ SessionNamesNewestTrace /\ OneReceiptPerBoundary /\ CommittedIsStored)'
        BY <3>2, <3>3 DEF IInv, OneTracePerBoundary, SessionNamesNewestTrace,
                          OneReceiptPerBoundary, CommittedIsStored
      <3> QED BY <1>type, <3>4, <3>5, <3>6, <3>7 DEF IInv
    <2>10. CASE CloseCommit(p)
      <3>1. hook[p].pc = "close" /\ writer = p /\ (\A q \in Proc \ {p} : hook[q].pc \notin {"index", "close"})
        BY <2>10 DEF IInv, LockHeld, CloseCommit
      <3>2. CASE HeldByOther(Rid(p), Boundary(p))
        <4>1. Goto(p, "fail") /\ UNCHANGED <<store, readable>> /\ writer' = None
          BY <2>10, <3>2 DEF CloseCommit
        <4>2. Listed' = Listed /\ Sequence' = Sequence /\ (\A b : Stored(b)' <=> Stored(b))
          BY <4>1 DEF Listed, Sequence, Stored, store
        <4>3. (Notified /\ LockHeld /\ InFlight)'
          BY <3>1, <4>1, <4>2, <1>goto, <1>note, NoneAssumption DEF IInv, Notified, LockHeld, InFlight
        <4>4. (FilesMirrorStore /\ OneTracePerBoundary /\ SessionNamesNewestTrace
               /\ OneReceiptPerBoundary /\ CommittedIsStored)'
          BY <4>1, <4>2 DEF store, readable, IInv, FilesMirrorStore, OneTracePerBoundary,
                            SessionNamesNewestTrace, OneReceiptPerBoundary, CommittedIsStored
        <4> QED BY <1>type, <4>3, <4>4 DEF IInv
      <3>3. CASE ~HeldByOther(Rid(p), Boundary(p))
        <4> DEFINE b == Boundary(p)
                   trace == [boundary |-> b, events |-> Snapshot(p)]
        <4>1. /\ \A q \in Proc \ {p} : hook'[q] = hook[q]
              /\ hook'[p].pc = "reconcile" /\ hook'[p].note = hook[p].note
          <5>1. hook' = [hook EXCEPT ![p] = [@ EXCEPT !.pc = "reconcile", !.result = "captured"]]
            BY <2>10, <3>3 DEF CloseCommit
          <5> QED BY <5>1, <1>type DEF TypeOK, Hooks
        <4>2. /\ traces' = Append(traces, trace) /\ writer' = None
              /\ UNCHANGED <<files, index>>
              /\ session' = [trace |-> b, size |-> hook[p].len, boundary |-> b, events |-> Snapshot(p),
                             status |-> IF Event(p) = "SessionEnd" THEN "ended" ELSE "active"]
              /\ receipts' = [receipts EXCEPT ![Rid(p)] = [status |-> "committed", boundary |-> b]]
          BY <2>10, <3>3 DEF CloseCommit, SessionRow, readable
        <4>3. b \in Boundaries /\ Rid(p) \in ReceiptIds
          BY <3>1, <1>note, <1>type DEF TypeOK, Hooks, Boundary, Boundaries, Rid, ReceiptIds
        <4>4. /\ Len(traces) \in Nat /\ Len(traces') = Len(traces) + 1
              /\ \A k \in 1..Len(traces) : traces'[k] = traces[k]
              /\ traces'[Len(traces) + 1] = trace
          BY <4>2, <1>type DEF TypeOK
        <4>5. ~Stored(b) /\ Sequence <= Len(files) /\ files[Sequence] = b /\ index = Append(Listed, b)
          BY <3>1 DEF IInv, InFlight
        <4>6. (Notified /\ LockHeld /\ InFlight)'
          BY <3>1, <4>1, <4>2, <1>note, NoneAssumption DEF IInv, Notified, LockHeld, InFlight
        <4>7. FilesMirrorStore'
          <5>1. /\ Len(index) = Len(traces) + 1 /\ index[Len(traces) + 1] = b
            BY <4>3, <4>5, <1>type, ListedProperties
          <5>2. ASSUME NEW k \in 1..Len(traces')
                PROVE  /\ k <= Len(files) /\ files[k] = traces'[k].boundary
                       /\ k <= Len(index) /\ index[k] = traces'[k].boundary
            <6>1. CASE k = Len(traces) + 1
              BY <6>1, <5>1, <4>4, <4>5 DEF Sequence
            <6>2. CASE k \in 1..Len(traces)
              BY <6>2, <4>4 DEF IInv, FilesMirrorStore
            <6> QED BY <6>1, <6>2, <4>4
          <5> QED BY <4>2, <5>2 DEF FilesMirrorStore
        <4>8. OneTracePerBoundary'
          <5>1. \A k \in 1..Len(traces) : traces[k].boundary # b
            BY <4>5 DEF Stored
          <5> QED BY <4>4, <5>1 DEF IInv, OneTracePerBoundary
        <4>9. SessionNamesNewestTrace'
          <5>1. session' \in Sessions
            <6>1. Snapshot(p) \in SUBSET (1..MaxRecords) /\ hook[p].len \in Lengths
              BY <1>type, SnapshotType
            <6> QED BY <4>2, <4>3, <6>1 DEF Sessions
          <5>2. traces' # <<>> /\ session' # None
            <6>1. Len(traces') # 0
              <7> HIDE DEF trace
              <7> QED BY <4>4
            <6>2. traces' # <<>>
              BY <6>1
            <6> QED BY <5>1, <6>2, NoneAssumption
          <5> QED BY <4>2, <4>4, <5>2 DEF SessionNamesNewestTrace
        <4>10. \A r \in ReceiptIds :
                  receipts'[r] = IF r = Rid(p) THEN [status |-> "committed", boundary |-> b]
                                               ELSE receipts[r]
          BY <4>2, <1>type DEF TypeOK
        <4>11. OneReceiptPerBoundary'
          BY <3>3, <4>10, <1>one DEF OneReceiptPerBoundary, HeldByOther
        <4>12. CommittedIsStored'
          <5>1. \E k \in 1..Len(traces') : traces'[k].boundary = b
            <6>1. Len(traces) + 1 \in 1..Len(traces')
              BY <4>4
            <6> QED BY <4>4, <6>1
          <5>2. ASSUME NEW c, Stored(c)
                PROVE  \E k \in 1..Len(traces') : traces'[k].boundary = c
            <6>1. PICK k \in 1..Len(traces) : traces[k].boundary = c
              BY <5>2 DEF Stored
            <6> QED BY <4>4, <6>1
          <5>3. ASSUME NEW r \in ReceiptIds, receipts'[r].status = "committed"
                PROVE  \E k \in 1..Len(traces') : traces'[k].boundary = receipts'[r].boundary
            <6>1. CASE r = Rid(p)
              BY <4>10, <5>1, <6>1
            <6>2. CASE r # Rid(p)
              BY <4>10, <5>2, <5>3, <6>2 DEF IInv, CommittedIsStored
            <6> QED BY <6>1, <6>2
          <5> QED BY <5>3 DEF CommittedIsStored, Stored
        <4> QED BY <1>type, <4>6, <4>7, <4>8, <4>9, <4>11, <4>12 DEF IInv
      <3> QED BY <3>2, <3>3
    <2>11. CASE Reconcile(p)
      <3>1. \A r \in ReceiptIds : /\ receipts'[r].boundary = receipts[r].boundary
                                  /\ receipts'[r].status = "committed" => receipts'[r] = receipts[r]
        BY <2>11, <1>type DEF Reconcile, TypeOK, Receipts
      <3>2. OneReceiptPerBoundary'
        BY <3>1, <1>one, SameBoundaries
      <3> QED BY <2>11, <3>1, <3>2, <1>type, <1>note, <1>answer, NoCommit DEF Reconcile, readable
    <2>12. CASE MarkFailed(p)
      <3>1. \A r \in ReceiptIds : /\ receipts'[r].boundary = receipts[r].boundary
                                  /\ receipts'[r].status = "committed" => receipts'[r] = receipts[r]
        BY <2>12, <1>type DEF MarkFailed, TypeOK, Receipts
      <3>2. OneReceiptPerBoundary'
        BY <3>1, <1>one, SameBoundaries
      <3> QED BY <2>12, <3>1, <3>2, <1>type, <1>note, <1>answer, NoCommit DEF MarkFailed, readable
    <2>13. CASE Busy(p)
      BY <2>13, <1>rest, <1>note, <1>goto, <1>answer DEF Busy
    <2>14. CASE MarkReconciled(p)
      <3>1. \A r \in ReceiptIds : /\ receipts'[r].boundary = receipts[r].boundary
                                  /\ receipts'[r].status = "committed" => receipts'[r] = receipts[r]
        BY <2>14, <1>type DEF MarkReconciled, TypeOK, Receipts
      <3>2. OneReceiptPerBoundary'
        BY <3>1, <1>one, SameBoundaries
      <3> QED BY <2>14, <3>1, <3>2, <1>type, <1>note, NoCommit DEF MarkReconciled, Return, readable, TypeOK, Hooks
    <2>15. CASE MarkBusy(p)
      BY <2>15, <1>rest, <1>note, <1>type DEF MarkBusy, Return, TypeOK, Hooks
    <2> QED BY <1>5, <2>1, <2>2, <2>3, <2>4, <2>5, <2>6, <2>7, <2>8, <2>9, <2>10, <2>11, <2>12, <2>13, <2>14, <2>15 DEF Handle
  <1>6. ASSUME NEW p \in Proc, Crash(p) PROVE IInv'
    <2>1. /\ \A q \in Proc \ {p} : hook'[q] = hook[q]
          /\ hook'[p].pc = "idle"
      BY <1>6, <1>type DEF Crash, TypeOK, IdleHook
    <2>2. Listed' = Listed /\ Sequence' = Sequence /\ (\A b : Stored(b)' <=> Stored(b))
      BY <1>6 DEF Crash, store, Listed, Sequence, Stored
    <2>3. Notified'
      BY <2>1 DEF IInv, Notified
    <2>4. LockHeld'
      BY <1>6, <2>1, NoneAssumption DEF IInv, LockHeld, Crash
    <2>5. InFlight'
      BY <1>6, <2>1, <2>2 DEF IInv, InFlight, Crash, readable, Boundary
    <2>6. /\ FilesMirrorStore' /\ OneTracePerBoundary' /\ SessionNamesNewestTrace'
          /\ OneReceiptPerBoundary' /\ CommittedIsStored'
      BY <1>6, <2>2 DEF Crash, store, readable, IInv, FilesMirrorStore, OneTracePerBoundary,
                        SessionNamesNewestTrace, OneReceiptPerBoundary, CommittedIsStored
    <2> QED BY <1>type, <2>3, <2>4, <2>5, <2>6 DEF IInv
  <1>7. CASE UNCHANGED vars
    BY <1>7, <1>rest DEF vars
  <1> QED BY <1>1, <1>2, <1>3, <1>4, <1>5, <1>6, <1>7 DEF Next

-----------------------------------------------------------------------------
(* Theorems of the specification.                                          *)

\* The inductive invariant holds in every reachable state: the write lock is
\* held exactly while a commit writes files, and what is on disk meanwhile
\* is what that commit is about to insert.
THEOREM Invariance == Spec => []IInv
  <1>1. Init => IInv
    BY InitInv
  <1>2. IInv /\ [Next]_vars => IInv'
    BY InvNext
  <1> QED BY <1>1, <1>2, PTL DEF Spec

\* Every variable keeps its type under every interleaving of hooks.
THEOREM TypeCorrect == Spec => []TypeOK
  <1>1. IInv => TypeOK
    BY DEF IInv
  <1> QED BY <1>1, Invariance, PTL

\* The capture_sessions row always names the trace stored last.
THEOREM SessionIsCurrent == Spec => []SessionNamesNewestTrace
  <1>1. IInv => SessionNamesNewestTrace
    BY DEF IInv
  <1> QED BY <1>1, Invariance, PTL

\* A receipt counted as committed has its trace stored.
THEOREM CommittedIsKept == Spec => []CommittedIsStored
  <1>1. IInv => CommittedIsStored
    BY DEF IInv
  <1> QED BY <1>1, Invariance, PTL

\* No crash, rollback or race leaves a stored trace without its readable
\* file or its place in session.json.
THEOREM FilesFollowStore == Spec => []FilesMirrorStore
  <1>1. IInv => FilesMirrorStore
    BY DEF IInv
  <1> QED BY <1>1, Invariance, PTL

-----------------------------------------------------------------------------
(* The store implements TraceLog.                                          *)

LEMMA InitLog == Init => Log!LogInit
  BY DEF Init, Log!LogInit, Listed

\* A step that leaves the traces, and the trace the session row names, as
\* they are is a stutter of the log.
LEMMA SameLog ==
    ASSUME UNCHANGED traces,
           \/ session' = session
           \/ session # None /\ session' # None /\ session'.trace = session.trace
    PROVE  UNCHANGED Log!logVars
  BY DEF Log!logVars, Listed

\* A commit that is not rolled back appends the boundary of its hook.
LEMMA CommitAppends ==
    ASSUME IInv, NEW p \in Proc, CloseCommit(p), ~HeldByOther(Rid(p), Boundary(p))
    PROVE  \E id \in Boundaries : Log!Capture(id)
  <1> DEFINE b == Boundary(p)
             trace == [boundary |-> b, events |-> Snapshot(p)]
  <1>1. /\ traces' = Append(traces, trace) /\ session'.trace = b
        /\ session' = [trace |-> b, size |-> hook[p].len, boundary |-> b, events |-> Snapshot(p),
                       status |-> IF Event(p) = "SessionEnd" THEN "ended" ELSE "active"]
    BY DEF CloseCommit, SessionRow
  <1>2. b \in Boundaries /\ TypeOK
    BY DEF IInv, CloseCommit, TypeOK, Notified, Hooks, Boundary, Boundaries
  <1>3. session' # None
    <2>1. Snapshot(p) \in SUBSET (1..MaxRecords) /\ hook[p].len \in Lengths
      BY <1>2, SnapshotType
    <2>2. session' \in Sessions
      BY <1>1, <1>2, <2>1 DEF Sessions
    <2> QED BY <2>2, NoneAssumption
  <1>4. ~Log!Logged(b)
    <2>1. ~Stored(b)
      BY DEF IInv, InFlight, CloseCommit
    <2> QED BY <1>2, <2>1, ListedProperties DEF Stored, Log!Logged
  <1>5. Listed' = Append(Listed, b)
    <2>1. /\ Len(traces) \in Nat /\ Len(traces') = Len(traces) + 1
          /\ \A k \in 1..Len(traces) : traces'[k] = traces[k]
          /\ traces'[Len(traces) + 1] = trace
      BY <1>1, <1>2 DEF TypeOK
    <2>2. Listed' = [k \in 1..Len(traces') |-> traces'[k].boundary]
      BY DEF Listed
    <2>3. /\ Listed \in Seq(Boundaries) /\ Len(Listed) = Len(traces)
          /\ \A k \in 1..Len(traces) : Listed[k] = traces[k].boundary
      BY <1>2, ListedProperties
    <2>4. ASSUME NEW log \in Seq(Boundaries), Len(log) = Len(traces)
          PROVE  /\ Append(log, b) \in [1..(Len(traces) + 1) -> Boundaries]
                 /\ \A k \in 1..Len(traces) : Append(log, b)[k] = log[k]
                 /\ Append(log, b)[Len(traces) + 1] = b
      <3> HIDE DEF b
      <3>1. Append(log, b) \in Seq(Boundaries) /\ Len(Append(log, b)) = Len(log) + 1
            /\ (\A k \in 1..Len(log) : Append(log, b)[k] = log[k])
            /\ Append(log, b)[Len(log) + 1] = b
        BY <1>2, AppendProperties
      <3>2. Append(log, b) \in [1..Len(Append(log, b)) -> Boundaries]
        BY <3>1, LenProperties
      <3> QED BY <2>4, <3>1, <3>2
    <2>5. ASSUME NEW k \in 1..(Len(traces) + 1)
          PROVE  Append(Listed, b)[k] = traces'[k].boundary
      <3>1. CASE k = Len(traces) + 1
        BY <2>1, <2>3, <2>4, <3>1
      <3>2. CASE k \in 1..Len(traces)
        BY <2>1, <2>3, <2>4, <3>2
      <3>3. k = Len(traces) + 1 \/ k \in 1..Len(traces)
        <4> HIDE DEF b, trace
        <4> QED BY <2>1
      <3> QED BY <3>1, <3>2, <3>3
    <2>6. Append(Listed, b) \in [1..(Len(traces) + 1) -> Boundaries]
      BY <2>3, <2>4
    <2> QED BY <2>1, <2>2, <2>5, <2>6
  <1> QED BY <1>1, <1>2, <1>3, <1>4, <1>5 DEF Log!Capture

\* Read through the database, capture is the append-only log of TraceLog:
\* every step of every process appends one new trace and moves the head to
\* it, or changes neither.
THEOREM Refinement == Spec => StoreIsALog
  <1>1. IInv /\ [Next]_vars => [\E id \in Boundaries : Log!Capture(id)]_(Log!logVars)
    <2> SUFFICES ASSUME IInv, [Next]_vars
                 PROVE  (\E id \in Boundaries : Log!Capture(id)) \/ UNCHANGED Log!logVars
      OBVIOUS
    <2>1. CASE UNCHANGED <<traces, session>>
      BY <2>1, SameLog
    <2>2. ASSUME NEW p \in Proc, NoOp(p) PROVE UNCHANGED Log!logVars
      <3>1. CASE session' = session
        BY <2>2, <3>1, SameLog DEF NoOp
      <3>2. CASE session' # session
        <4>1. session # None /\ session \in Sessions /\ traces' = traces
          BY <2>2, <3>2 DEF NoOp, IInv, TypeOK
        <4>2. session' = [session EXCEPT
                   !.size = hook[p].len, !.boundary = hook[p].plan,
                   !.status = IF Event(p) = "SessionEnd" THEN "ended" ELSE "active"]
          BY <2>2, <3>2 DEF NoOp
        <4>3. session'.trace = session.trace
          BY <4>1, <4>2 DEF Sessions
        <4>4. session' # None
          <5>1. TypeOK' /\ session' \in Sessions \cup {None}
            BY TypeNext DEF IInv, TypeOK
          <5>2. hook[p].len \in Lengths /\ hook[p].plan \in Boundaries \cup {None}
            BY <2>2 DEF IInv, TypeOK, Hooks
          <5>3. session' \in Sessions
            BY <4>1, <4>2, <5>2 DEF Sessions
          <5> QED BY <5>3, NoneAssumption
        <4> QED BY <4>1, <4>3, <4>4, SameLog
      <3> QED BY <3>1, <3>2
    <2>3. ASSUME NEW p \in Proc, CloseCommit(p)
          PROVE  (\E id \in Boundaries : Log!Capture(id)) \/ UNCHANGED Log!logVars
      <3>1. CASE HeldByOther(Rid(p), Boundary(p))
        BY <2>3, <3>1, SameLog DEF CloseCommit, store
      <3>2. CASE ~HeldByOther(Rid(p), Boundary(p))
        BY <2>3, <3>2, CommitAppends
      <3> QED BY <3>1, <3>2
    <2>4. ASSUME NEW p \in Proc, Handle(p), ~NoOp(p), ~CloseCommit(p)
          PROVE  UNCHANGED <<traces, session>>
      BY <2>4 DEF Handle, LoadSession, CheckReplayable, BeginReceipt, TakeSnapshot,
                  SnapshotFails, DecideBoundary, OpenCommit, WriteIndex, Reconcile,
                  MarkFailed, Busy, MarkReconciled, MarkBusy, store
    <2>5. CASE Host
      BY <2>5, <2>1 DEF Host, Tear, Record, store
    <2>6. ASSUME NEW p \in Proc,
                 \/ \E note \in Notifications : Notify(p, note)
                 \/ ListReplayable(p)
                 \/ \E r \in ReceiptIds : Replay(p, r)
                 \/ Crash(p)
          PROVE  UNCHANGED <<traces, session>>
      BY <2>6 DEF Notify, ListReplayable, Replay, Crash, store
    <2>7. CASE UNCHANGED vars
      BY <2>7, <2>1 DEF vars, store
    <2> QED BY <2>1, <2>2, <2>3, <2>4, <2>5, <2>6, <2>7 DEF Next
  <1>2. Init => Log!LogInit
    BY InitLog
  <1> QED BY <1>1, <1>2, Invariance, PTL DEF Spec, StoreIsALog, Log!LogSpec

-----------------------------------------------------------------------------
(* One process at a time: what its answers speak for is stored.            *)

\* The responses that a later run of AgentDebugX has not left out.
Lasting ==
    {i \in Kept(transcript, Len(transcript), "Stop") : transcript[i] = "assistant"}

\* The lengths up to which the store holds them all.
Covered == {n \in 0..Len(transcript) : \A i \in Lasting : i <= n => i \in StoredEvents}

\* A trace holds what is kept of the transcript up to its boundary.
TracesOK ==
    \A k \in 1..Len(traces) :
        /\ traces[k].boundary.last <= Len(transcript)
        /\ traces[k].events =
              Kept(transcript, traces[k].boundary.last, traces[k].boundary.note.event)

SessionOK == session # None => session.size \in Covered

BoundariesOK ==
    \A r \in ReceiptIds :
        receipts[r].boundary # None => receipts[r].boundary.last \in Covered

\* The session row a hook has read may be old: it was as true as any.
SeenOK(p) ==
    hook[p].seen # None =>
        /\ hook[p].seen.size \in Covered
        /\ \E k \in 1..Len(traces) : hook[p].seen.events = traces[k].events

\* A receipt that is settled, or has a boundary, is about what is stored.
ReceiptsOK ==
    \A r \in ReceiptIds :
        /\ receipts[r].status # "absent" => r.version.size <= Len(transcript)
        /\ Suppressed(r) => r.version.size \in Covered
        /\ receipts[r].boundary # None => receipts[r].boundary.last \in Covered

Reads == {"boundary", "noop", "commit", "index", "close", "reconcile"}

\* No receipt is newer than the run that is under way, which has read at least
\* what it was notified of, and knows the session row as it is.
HookOK(p) ==
    /\ hook[p].pc \notin {"idle", "mark"} =>
          /\ hook[p].version.size <= Len(transcript)
          /\ \A r \in ReceiptIds :
                receipts[r].status # "absent" => r.version.size <= hook[p].version.size
    /\ hook[p].pc \in Reads =>
          hook[p].version.size <= hook[p].len /\ hook[p].len <= Len(transcript)
    /\ hook[p].pc \in {"noop", "reconcile"} => hook[p].len \in Covered
    /\ hook[p].pc \in {"idle", "mark"} /\ hook[p].result \in Done => hook[p].len \in Covered
    /\ hook[p].pc \in {"session", "replayable", "begin", "snapshot", "boundary"} =>
          hook[p].plan = None
    /\ hook[p].pc = "noop" => hook[p].plan \in {None, Boundary(p)}
    /\ hook[p].pc \in {"snapshot", "boundary", "commit", "index", "close"} => ~Suppressed(Rid(p))
    /\ hook[p].pc \in {"replayable", "begin", "snapshot", "boundary", "commit", "index", "close"} =>
          hook[p].seen = session
    /\ hook[p].pc \in {"commit", "index", "close"} =>
          Event(p) = "TaskCompleted" \/ session = None \/ Snapshot(p) # session.events
    /\ hook[p].pc = "mark" => hook[p].result \in Done
    /\ hook[p].pc = "mark" /\ receipts[hook[p].replay].status \in {"pending", "failed"} =>
          hook[p].replay.version.size <= hook[p].len

SoloInv ==
    /\ TracesOK /\ SessionOK /\ ReceiptsOK /\ ConsecutiveTracesDiffer
    /\ \A p \in Proc : HookOK(p)

\* What is kept of the first records does not depend on what follows them.
LEMMA KeptIsStable ==
    ASSUME NEW t \in Seq(RecordKinds), NEW kind \in RecordKinds, NEW n \in 0..Len(t), NEW e
    PROVE  Kept(Append(t, kind), n, e) = Kept(t, n, e)
<1> DEFINE u == Append(t, kind)
<1>1. \A i \in 1..n : u[i] = t[i]
  OBVIOUS
<1>2. TrailingPrompts(u, n) = TrailingPrompts(t, n)
  BY <1>1 DEF TrailingPrompts
<1>3. Normalized(u, n, e) = Normalized(t, n, e) /\ Normalized(t, n, e) \subseteq 1..n
  BY <1>1, <1>2 DEF Normalized
<1>4. DOMAIN t = 1..Len(t) /\ DOMAIN u = 1..(Len(t) + 1)
  OBVIOUS
<1>5. ASSUME NEW i \in 1..n, NEW j \in 1..n PROVE SameTurn(u, i, j) <=> SameTurn(t, i, j)
  <2>1. \A k : k \in (i + 1)..j \/ k \in (j + 1)..i => k \in 1..n
    OBVIOUS
  <2>2. \A k \in 1..n : k \in DOMAIN t /\ k \in DOMAIN u /\ u[k] = t[k]
    BY <1>1, <1>4
  <2> QED BY <2>1, <2>2 DEF SameTurn
<1>6. \A j \in 1..n : u[j] = "run" <=> t[j] = "run"
  BY <1>1
<1> HIDE DEF u
<1>7. \A i \in Normalized(t, n, e) :
         (\E j \in Normalized(t, n, e) : u[j] = "run" /\ SameTurn(u, i, j))
            <=> (\E j \in Normalized(t, n, e) : t[j] = "run" /\ SameTurn(t, i, j))
  BY <1>3, <1>5, <1>6
<1>8. Kept(u, n, e) = Kept(t, n, e)
  BY <1>3, <1>7 DEF Kept
<1> QED BY <1>8 DEF u

\* A response that lasts is kept with every prefix that contains it.
LEMMA LastingIsKept ==
    ASSUME NEW t \in Seq(RecordKinds), NEW n \in 0..Len(t), NEW e,
           NEW i \in Kept(t, Len(t), "Stop"), t[i] = "assistant", i <= n
    PROVE  i \in Kept(t, n, e)
<1>1. i \in 1..Len(t) /\ i \in Nat
  BY DEF Kept, Normalized
<1>2. i \in Normalized(t, n, e)
  BY <1>1 DEF Normalized, TrailingPrompts
<1>3. \A j \in Normalized(t, n, e) : t[j] = "run" => j \in Normalized(t, Len(t), "Stop")
  BY DEF Normalized
<1>4. \A j \in Normalized(t, Len(t), "Stop") : ~(t[j] = "run" /\ SameTurn(t, i, j))
  BY DEF Kept
<1> QED BY <1>2, <1>3, <1>4 DEF Kept

\* It was kept before the transcript grew.
LEMMA LastingLasted ==
    ASSUME NEW t \in Seq(RecordKinds), NEW kind \in RecordKinds,
           NEW i \in Kept(Append(t, kind), Len(t) + 1, "Stop"), i <= Len(t),
           Append(t, kind)[i] = "assistant"
    PROVE  i \in Kept(t, Len(t), "Stop") /\ t[i] = "assistant"
<1> DEFINE u == Append(t, kind)
<1>1. u \in Seq(RecordKinds) /\ Len(u) = Len(t) + 1 /\ Len(t) \in 0..Len(u)
  OBVIOUS
<1>2. i \in 1..Len(t)
  BY DEF Kept, Normalized
<1>3. u[i] = t[i]
  BY <1>2
<1>4. i \in Kept(u, Len(t), "Stop")
  BY <1>1, LastingIsKept
<1>5. Kept(u, Len(t), "Stop") = Kept(t, Len(t), "Stop")
  BY KeptIsStable
<1> QED BY <1>3, <1>4, <1>5

\* The transcript and the log of traces only grow.
LEMMA StoreGrows ==
    ASSUME IInv, [Next]_vars
    PROVE  /\ \/ transcript' = transcript
              \/ traces' = traces /\ \E kind \in RecordKinds : transcript' = Append(transcript, kind)
           /\ \/ traces' = traces
              \/ \E p \in Proc : /\ CloseCommit(p)
                    /\ traces' = Append(traces, [boundary |-> Boundary(p), events |-> Snapshot(p)])
<1>1. ASSUME NEW p \in Proc, Handle(p)
      PROVE  /\ transcript' = transcript
             /\ \/ traces' = traces
                \/ CloseCommit(p) /\ traces' = Append(traces, [boundary |-> Boundary(p), events |-> Snapshot(p)])
  <2>1. CASE LoadSession(p) \/ CheckReplayable(p) \/ BeginReceipt(p)
    BY <2>1 DEF LoadSession, CheckReplayable, BeginReceipt, store
  <2>2. CASE TakeSnapshot(p) \/ SnapshotFails(p) \/ DecideBoundary(p) \/ NoOp(p)
    BY <2>2 DEF TakeSnapshot, SnapshotFails, DecideBoundary, NoOp, store
  <2>3. CASE OpenCommit(p) \/ WriteIndex(p) \/ CloseCommit(p)
    BY <2>3 DEF OpenCommit, WriteIndex, CloseCommit, store
  <2>4. CASE Reconcile(p) \/ MarkFailed(p) \/ Busy(p) \/ MarkReconciled(p) \/ MarkBusy(p)
    BY <2>4 DEF Reconcile, MarkFailed, Busy, MarkReconciled, MarkBusy, store
  <2> QED BY <1>1, <2>1, <2>2, <2>3, <2>4 DEF Handle
<1>2. CASE Tear
  BY <1>2 DEF Tear, store
<1>3. ASSUME NEW kind \in RecordKinds, Record(kind)
      PROVE  traces' = traces /\ transcript' = Append(transcript, kind)
  BY <1>3 DEF Record, store
<1>4. ASSUME NEW p \in Proc, NEW note \in Notifications, Notify(p, note)
      PROVE  traces' = traces /\ transcript' = transcript
  BY <1>4 DEF Notify, store
<1>5. ASSUME NEW p \in Proc, NEW r \in ReceiptIds, Replay(p, r)
      PROVE  traces' = traces /\ transcript' = transcript
  BY <1>5 DEF Replay, store
<1>6. ASSUME NEW p \in Proc, ListReplayable(p) \/ Crash(p)
      PROVE  traces' = traces /\ transcript' = transcript
  BY <1>6 DEF ListReplayable, Crash, store
<1>7. CASE UNCHANGED vars
  BY <1>7 DEF vars, store
<1> QED BY <1>1, <1>2, <1>3, <1>4, <1>5, <1>6, <1>7 DEF Next, Host

\* So what is stored stays stored, and what was kept is kept.
LEMMA CoveredGrows ==
    ASSUME IInv, [Next]_vars
    PROVE  /\ transcript \in Seq(RecordKinds) /\ transcript' \in Seq(RecordKinds)
           /\ Len(transcript) <= Len(transcript')
           /\ Covered \subseteq Covered' /\ StoredEvents \subseteq StoredEvents'
           /\ \A n \in 0..Len(transcript) : \A e : Kept(transcript', n, e) = Kept(transcript, n, e)
<1>1. transcript \in Seq(RecordKinds) /\ traces \in Seq(Traces)
  BY DEF IInv, TypeOK
<1>2. StoredEvents \subseteq StoredEvents'
  <2>1. CASE traces' = traces
    BY <2>1 DEF StoredEvents
  <2>2. ASSUME NEW x, traces' = Append(traces, x) PROVE StoredEvents \subseteq StoredEvents'
    BY <1>1, <2>2 DEF StoredEvents
  <2> QED BY <2>1, <2>2, StoreGrows
<1>3. CASE transcript' = transcript
  BY <1>1, <1>2, <1>3 DEF Covered, Lasting
<1>4. ASSUME NEW kind \in RecordKinds, transcript' = Append(transcript, kind)
      PROVE  /\ transcript' \in Seq(RecordKinds) /\ Len(transcript) <= Len(transcript')
             /\ Covered \subseteq Covered'
             /\ \A n \in 0..Len(transcript) : \A e : Kept(transcript', n, e) = Kept(transcript, n, e)
  <2>1. transcript' \in Seq(RecordKinds) /\ Len(transcript') = Len(transcript) + 1
    BY <1>1, <1>4
  <2>2. \A n \in 0..Len(transcript) : \A e : Kept(transcript', n, e) = Kept(transcript, n, e)
    BY <1>1, <1>4, KeptIsStable
  <2>3. \A i \in Lasting' : i <= Len(transcript) => i \in Lasting
    BY <1>1, <1>4, <2>1, LastingLasted DEF Lasting
  <2>4. \A i \in Lasting' : i \in Nat
    BY <2>1 DEF Lasting, Kept, Normalized
  <2>5. ASSUME NEW n \in Covered PROVE n \in Covered'
    <3>1. n \in 0..Len(transcript) /\ \A i \in Lasting : i <= n => i \in StoredEvents
      BY DEF Covered
    <3>2. \A i \in Lasting' : i <= n => i \in StoredEvents'
      BY <1>1, <1>2, <2>3, <2>4, <3>1
    <3> QED BY <1>1, <2>1, <3>1, <3>2 DEF Covered
  <2> QED BY <1>1, <2>1, <2>2, <2>5
<1> QED BY <1>1, <1>2, <1>3, <1>4, StoreGrows

LEMMA GreatestOf ==
    ASSUME NEW n \in Nat, NEW S, S \subseteq 1..n, S # {}
    PROVE  Max(S) \in S /\ \A x \in S : x <= Max(S)
<1> DEFINE D == {n - x : x \in S}
<1>1. IsWellFoundedOn(OpToRel(<, Nat), Nat)
  BY NatLessThanWellFounded
<1>2. D \subseteq Nat /\ D # {}
  <2>1. \A x \in S : n - x \in Nat
    OBVIOUS
  <2> QED BY <2>1
<1>3. PICK d \in D : \A c \in D : ~(<<c, d>> \in OpToRel(<, Nat))
  BY <1>1, <1>2, WFMin
<1>4. PICK m \in S : d = n - m
  BY <1>3
<1>5. ASSUME NEW x \in S PROVE m >= x
  <2>1. n - x \in D /\ n - x \in Nat /\ d \in Nat
    BY <1>2
  <2>2. n - x < d => <<n - x, d>> \in OpToRel(<, Nat)
    BY <2>1 DEF OpToRel
  <2>3. ~(n - x < d)
    BY <1>3, <2>1, <2>2
  <2>4. x \in Nat /\ m \in Nat
    OBVIOUS
  <2> QED BY <1>4, <2>3, <2>4
<1>6. Max(S) \in S /\ \A x \in S : Max(S) >= x
  BY <1>5 DEF Max
<1>7. \A x \in S : x \in Nat
  OBVIOUS
<1> QED BY <1>6, <1>7

LEMMA CoveredUpTo ==
    ASSUME NEW n \in Covered, NEW m \in Nat, m <= n, Len(transcript) \in Nat,
           transcript \in Seq(RecordKinds)
    PROVE  m \in Covered
<1>1. \A i \in Lasting : i \in Nat
  BY DEF Lasting, Kept, Normalized
<1> QED BY <1>1 DEF Covered

\* A prefix is covered when the responses of what is kept of it are stored.
LEMMA CoveredByKept ==
    ASSUME TypeOK, NEW n \in 0..Len(transcript), NEW e,
           \A i \in Kept(transcript, n, e) : transcript[i] = "assistant" => i \in StoredEvents
    PROVE  n \in Covered
<1>1. transcript \in Seq(RecordKinds)
  BY DEF TypeOK
<1>2. \A i \in Lasting : i <= n => i \in Kept(transcript, n, e) /\ transcript[i] = "assistant"
  BY <1>1, LastingIsKept DEF Lasting
<1> QED BY <1>2 DEF Covered

\* When handle decides that there is nothing to store, there is nothing.
LEMMA NothingIsLost ==
    ASSUME TypeOK, TracesOK, BoundariesOK, NEW p \in Proc, SeenOK(p),
           hook[p].note \in Notifications, hook[p].len <= Len(transcript),
           DuplicateBoundary(p) \/ NothingToStore(p)
    PROVE  hook[p].len \in Covered
<1>1. TypeOK /\ hook[p].len <= Len(transcript) /\ hook[p].note \in Notifications
  OBVIOUS
<1>2. hook[p].len \in 0..Len(transcript) /\ hook[p].len \in Lengths
  <2>1. hook[p].len \in Lengths /\ Len(transcript) \in Nat
    BY <1>1 DEF TypeOK, Hooks
  <2> QED BY <1>1, <2>1, MaxRecordsAssumption DEF Lengths
<1>3. CASE DuplicateBoundary(p)
  <2>1. PICK q \in ReceiptIds : receipts[q].boundary = Boundary(p)
    BY <1>3 DEF DuplicateBoundary, HeldByOther
  <2>2. Boundary(p) \in Boundaries /\ Boundary(p) # None
    BY <1>1, <1>2, NoneAssumption DEF Boundary, Boundaries
  <2>3. Boundary(p).last \in Covered
    BY <2>1, <2>2 DEF BoundariesOK
  <2> QED BY <2>3 DEF Boundary
<1>4. CASE SameContent(p)
  BY <1>1, <1>4 DEF SameContent, SeenOK
<1>5. CASE Snapshot(p) = {} \/ Responses(transcript, Snapshot(p)) = {}
  <2>1. \A i \in Snapshot(p) : transcript[i] # "assistant"
    BY <1>5 DEF Responses
  <2> QED BY <1>1, <1>2, <2>1, CoveredByKept DEF Snapshot
<1>6. CASE SameEvents(p) /\ Snapshot(p) # {}
  <2>1. /\ hook[p].seen # None
        /\ Cardinality(hook[p].seen.events) = Cardinality(Snapshot(p))
        /\ Max(hook[p].seen.events) = Max(Snapshot(p))
    BY <1>1, <1>6 DEF SameEvents
  <2>2. PICK k \in 1..Len(traces) : hook[p].seen.events = traces[k].events
    BY <2>1 DEF SeenOK
  <2>3. /\ traces[k] \in Traces /\ traces[k].boundary.last <= Len(transcript)
        /\ traces[k].events = Kept(transcript, traces[k].boundary.last, traces[k].boundary.note.event)
    BY <1>1 DEF TracesOK, TypeOK
  <2>4. PICK last, event : /\ last = traces[k].boundary.last /\ event = traces[k].boundary.note.event
    OBVIOUS
  <2>5. last \in Lengths /\ last \in 0..Len(transcript)
    <3>1. last \in Lengths /\ Len(transcript) \in Nat
      BY <1>1, <2>3, <2>4 DEF Traces, Boundaries, TypeOK
    <3> QED BY <2>3, <2>4, <3>1, MaxRecordsAssumption DEF Lengths
  <2>6. hook[p].seen.events = Kept(transcript, last, event) /\ hook[p].seen.events \subseteq 1..last
    BY <2>2, <2>3, <2>4 DEF Kept, Normalized
  <2>7. hook[p].seen.events # {}
    <3>1. Snapshot(p) \subseteq 1..MaxRecords /\ IsFiniteSet(1..MaxRecords)
      BY <1>1, SnapshotType, FS_Interval, MaxRecordsAssumption
    <3>2. IsFiniteSet(Snapshot(p))
      BY <3>1, FS_Subset
    <3>3. Cardinality(Snapshot(p)) # 0
      BY <1>6, <3>2, FS_EmptySet
    <3> QED BY <2>1, <3>3, FS_EmptySet
  <2>8. Max(hook[p].seen.events) \in 1..last
    BY <2>5, <2>6, <2>7, GreatestOf
  <2>9. \A i \in Snapshot(p) : i <= Max(Snapshot(p)) /\ i \in Nat
    BY <1>1, <1>6, SnapshotType, GreatestOf, MaxRecordsAssumption
  <2>10. ASSUME NEW i \in Lasting, i <= hook[p].len PROVE i \in StoredEvents
    <3>1. transcript \in Seq(RecordKinds)
      BY <1>1 DEF TypeOK
    <3>2. i \in Snapshot(p)
      BY <1>2, <2>10, <3>1, LastingIsKept DEF Lasting, Snapshot
    <3>3. i <= Max(Snapshot(p)) /\ i \in Nat
      BY <2>9, <3>2
    <3>4. i <= last
      BY <2>1, <2>5, <2>8, <3>3
    <3>5. i \in Kept(transcript, last, event)
      BY <2>5, <3>1, <3>4, LastingIsKept DEF Lasting
    <3> QED BY <2>2, <2>6, <3>5 DEF StoredEvents
  <2> QED BY <1>2, <2>10 DEF Covered
<1> QED BY <1>3, <1>4, <1>5, <1>6 DEF NothingToStore

-----------------------------------------------------------------------------
(* Each step of the one process.                                           *)

\* What a step that leaves the store alone has to show.
LEMMA StoreStays ==
    ASSUME IInv, SoloInv, [Next]_vars, UNCHANGED store
    PROVE  /\ TracesOK' /\ SessionOK' /\ ReceiptsOK' /\ ConsecutiveTracesDiffer'
           /\ \A r \in ReceiptIds : Suppressed(r)' <=> Suppressed(r)
<1>1. /\ receipts' = receipts /\ traces' = traces /\ session' = session
  BY DEF store
<1>2. /\ Len(transcript) <= Len(transcript') /\ Covered \subseteq Covered'
      /\ \A n \in 0..Len(transcript) : \A e : Kept(transcript', n, e) = Kept(transcript, n, e)
      /\ transcript \in Seq(RecordKinds) /\ transcript' \in Seq(RecordKinds)
  BY CoveredGrows
<1>3. TracesOK'
  <2>1. ASSUME NEW k \in 1..Len(traces)
        PROVE  /\ traces[k].boundary.last <= Len(transcript')
               /\ traces[k].events =
                     Kept(transcript', traces[k].boundary.last, traces[k].boundary.note.event)
    <3>1. traces[k].boundary.last \in Lengths /\ Len(transcript) \in Nat /\ Len(transcript') \in Nat
      <4>1. traces \in Seq(Traces)
        BY DEF IInv, TypeOK
      <4>2. traces[k] \in Traces
        BY <4>1
      <4> QED BY <1>2, <4>2 DEF Traces, Boundaries
    <3>2. traces[k].boundary.last \in Nat
      BY <3>1, MaxRecordsAssumption DEF Lengths
    <3>3. /\ traces[k].boundary.last <= Len(transcript)
          /\ traces[k].events =
                Kept(transcript, traces[k].boundary.last, traces[k].boundary.note.event)
      BY DEF SoloInv, TracesOK
    <3> QED BY <1>2, <3>1, <3>2, <3>3
  <2> QED BY <1>1, <2>1 DEF TracesOK
<1>4. SessionOK' /\ ConsecutiveTracesDiffer'
  BY <1>1, <1>2 DEF SoloInv, SessionOK, ConsecutiveTracesDiffer
<1>5. \A r \in ReceiptIds : r.version.size \in Nat
  BY MaxRecordsAssumption DEF ReceiptIds, Versions, Lengths
<1>6. ReceiptsOK'
  <2>1. ASSUME NEW r \in ReceiptIds
        PROVE  /\ receipts[r].status # "absent" => r.version.size <= Len(transcript')
               /\ Suppressed(r) => r.version.size \in Covered'
               /\ receipts[r].boundary # None => receipts[r].boundary.last \in Covered'
    BY <1>2, <1>5 DEF SoloInv, ReceiptsOK
  <2> QED BY <1>1, <2>1 DEF ReceiptsOK, Suppressed
<1> QED BY <1>1, <1>3, <1>4, <1>6 DEF Suppressed

\* The lengths and versions that steps compare are numbers.
LEMMA SoloTypes ==
    ASSUME IInv, NEW p \in Proc
    PROVE  /\ hook[p] \in Hooks /\ hook \in [Proc -> Hooks] /\ TypeOK
           /\ hook[p].len \in Nat /\ hook[p].version.size \in Nat /\ Len(transcript) \in Nat
           /\ \A r \in ReceiptIds : r.version.size \in Nat
           /\ hook[p].pc # "idle" => hook[p].note \in Notifications /\ Rid(p) \in ReceiptIds
           /\ 0 \in Covered
<1>1. TypeOK /\ Notified
  BY DEF IInv
<1>2. hook[p] \in Hooks /\ hook \in [Proc -> Hooks] /\ transcript \in Seq(RecordKinds)
  BY <1>1 DEF TypeOK
<1>3. hook[p].len \in Nat /\ hook[p].version.size \in Nat /\ hook[p].version \in Versions
  BY <1>2, MaxRecordsAssumption DEF Hooks, Versions, Lengths
<1>4. \A r \in ReceiptIds : r.version.size \in Nat
  BY MaxRecordsAssumption DEF ReceiptIds, Versions, Lengths
<1>5. hook[p].pc # "idle" => hook[p].note \in Notifications /\ Rid(p) \in ReceiptIds
  BY <1>1, <1>2, <1>3 DEF Notified, Hooks, Rid, ReceiptIds
<1>6. 0 \in Covered
  <2>1. \A i \in Lasting : i \in Nat /\ i # 0
    BY <1>2 DEF Lasting, Kept, Normalized
  <2> QED BY <1>2, <2>1 DEF Covered
<1> QED BY <1>1, <1>2, <1>3, <1>4, <1>5, <1>6

LEMMA HostIsSolo ==
    ASSUME IInv, SoloInv, Host
    PROVE  SoloInv'
<1>1. [Next]_vars /\ UNCHANGED <<store, hook>>
  BY DEF Next, Host, Tear, Record
<1>2. /\ TracesOK' /\ SessionOK' /\ ReceiptsOK' /\ ConsecutiveTracesDiffer'
      /\ \A r \in ReceiptIds : Suppressed(r)' <=> Suppressed(r)
  BY <1>1, StoreStays
<1>3. /\ hook' = hook /\ receipts' = receipts /\ session' = session
  BY <1>1 DEF store
<1>4. /\ Len(transcript) <= Len(transcript') /\ Covered \subseteq Covered'
      /\ \A n \in 0..Len(transcript) : \A e : Kept(transcript', n, e) = Kept(transcript, n, e)
      /\ Len(transcript') \in Nat
  BY <1>1, CoveredGrows
<1>5. ASSUME NEW p \in Proc PROVE HookOK(p)'
  <2>1. HookOK(p) /\ hook[p].len \in Nat /\ hook[p].version.size \in Nat /\ Len(transcript) \in Nat
        /\ (hook[p].pc # "idle" => Rid(p) \in ReceiptIds)
    BY SoloTypes DEF SoloInv
  <2>2. Rid(p)' = Rid(p) /\ Boundary(p)' = Boundary(p) /\ Event(p)' = Event(p)
    BY <1>3 DEF Rid, Boundary, Event
  <2>3. hook[p].len <= Len(transcript) => Snapshot(p)' = Snapshot(p)
    BY <1>3, <1>4, <2>1 DEF Snapshot, Event
  <2>4. hook[p].pc \notin {"idle", "mark"} => hook[p].version.size <= Len(transcript')
    BY <1>4, <2>1 DEF HookOK
  <2>5. hook[p].pc \in Reads =>
           /\ hook[p].version.size <= hook[p].len /\ hook[p].len <= Len(transcript)
           /\ hook[p].len <= Len(transcript') /\ Snapshot(p)' = Snapshot(p)
    BY <1>4, <2>1, <2>3 DEF HookOK
  <2>6. hook[p].pc \in {"snapshot", "boundary", "commit", "index", "close"} => ~Suppressed(Rid(p))'
    BY <1>3, <2>1, <2>2 DEF HookOK, Suppressed, Rid
  <2>7. hook[p].pc \in {"commit", "index", "close"} =>
           (Event(p) = "TaskCompleted" \/ session = None \/ Snapshot(p) # session.events)'
    BY <1>3, <2>1, <2>2, <2>5 DEF HookOK, Reads
  <2> QED BY <1>3, <1>4, <2>1, <2>2, <2>4, <2>5, <2>6, <2>7 DEF HookOK
<1> QED BY <1>2, <1>5 DEF SoloInv

\* A step that leaves the store alone is about the hook.
LEMMA HookStep ==
    ASSUME IInv, SoloInv, NEW p, Proc = {p}, [Next]_vars, UNCHANGED <<transcript, store>>,
           HookOK(p)'
    PROVE  SoloInv'
<1>1. UNCHANGED store
  OBVIOUS
<1> QED BY <1>1, StoreStays DEF SoloInv

LEMMA SameStore ==
    ASSUME UNCHANGED <<transcript, store>>
    PROVE  /\ Covered' = Covered /\ receipts' = receipts /\ session' = session
           /\ transcript' = transcript /\ \A r : Suppressed(r)' <=> Suppressed(r)
BY DEF store, Covered, Lasting, StoredEvents, Suppressed

\* An answer of success speaks for what is covered; the replay it ends was
\* about no more.
LEMMA AnswerIsSolo ==
    ASSUME NEW p \in Proc, hook \in [Proc -> Hooks], NEW result, NEW len, Answer(p, result, len),
           result \in Done => len \in Covered',
           result \in Done /\ hook[p].replay # None
               /\ receipts'[hook[p].replay].status \in {"pending", "failed"} =>
                    hook[p].replay.version.size <= len
    PROVE  HookOK(p)'
<1>1. /\ hook'[p].pc = IF hook[p].replay # None /\ result \in Done THEN "mark" ELSE "idle"
      /\ hook'[p].len = len /\ hook'[p].result = result
      /\ hook'[p].replay = IF hook[p].replay # None /\ result \in Done THEN hook[p].replay ELSE None
  BY DEF Answer
<1>2. HookOK(p)' <=>
        /\ hook'[p].result \in Done => hook'[p].len \in Covered'
        /\ hook'[p].pc = "mark" => hook'[p].result \in Done
        /\ hook'[p].pc = "mark" /\ receipts'[hook'[p].replay].status \in {"pending", "failed"} =>
              hook'[p].replay.version.size <= hook'[p].len
  BY <1>1 DEF HookOK, Reads
<1> QED BY <1>1, <1>2

LEMMA BeginIsSolo ==
    ASSUME IInv, SoloInv, NEW p \in Proc, NEW note, NEW replay, Begin(p, note, replay),
           UNCHANGED <<transcript, store>>
    PROVE  HookOK(p)'
<1>1. hook \in [Proc -> Hooks] /\ transcript' = transcript /\ receipts' = receipts
      /\ Len(transcript) \in Nat
  BY SoloTypes DEF store
<1>2. hook'[p].pc = "session" /\ hook'[p].version.size = Len(transcript) /\ hook'[p].plan = None
  BY <1>1 DEF Begin
<1>3. \A r \in ReceiptIds : receipts[r].status # "absent" => r.version.size <= Len(transcript)
  BY DEF SoloInv, ReceiptsOK
<1> QED BY <1>1, <1>2, <1>3 DEF HookOK, Reads

LEMMA LoadSessionIsSolo ==
    ASSUME IInv, SoloInv, NEW p \in Proc, LoadSession(p)
    PROVE  HookOK(p)'
<1>1. UNCHANGED <<transcript, store>> /\ hook \in [Proc -> Hooks] /\ hook[p] \in Hooks /\ HookOK(p)
  BY SoloTypes DEF LoadSession, SoloInv
<1>2. /\ hook'[p].pc = "replayable" /\ hook'[p].seen = session
      /\ hook'[p].version = hook[p].version /\ hook[p].pc = "session"
      /\ hook'[p].plan = hook[p].plan
  BY <1>1 DEF LoadSession, Hooks
<1> QED BY <1>1, <1>2, SameStore DEF HookOK, Reads

LEMMA CheckReplayableIsSolo ==
    ASSUME IInv, SoloInv, NEW p \in Proc, CheckReplayable(p)
    PROVE  HookOK(p)'
<1>1. /\ UNCHANGED <<transcript, store>> /\ hook \in [Proc -> Hooks] /\ hook[p] \in Hooks
      /\ HookOK(p) /\ hook[p].pc = "replayable" /\ 0 \in Covered
  BY SoloTypes DEF CheckReplayable, SoloInv
<1>2. /\ Covered' = Covered /\ receipts' = receipts /\ session' = session
      /\ transcript' = transcript
  BY <1>1, SameStore
<1>3. hook[p].seen = session
  BY <1>1 DEF HookOK
<1>4. hook[p].replay \in ReceiptIds \cup {None}
  BY <1>1 DEF Hooks
<1>5. Replayable = {} /\ hook[p].replay # None =>
         receipts[hook[p].replay].status \notin {"pending", "failed"}
  BY <1>4 DEF Replayable
<1>6. CASE NothingYet(p) /\ Answer(p, "no_op", 0)
  BY <1>1, <1>2, <1>5, <1>6, AnswerIsSolo DEF NothingYet
<1>7. CASE Unchanged(p) /\ Answer(p, "no_op", hook[p].version.size)
  <2>1. hook[p].version.size \in Covered
    BY <1>3, <1>7 DEF Unchanged, SoloInv, SessionOK
  <2> QED BY <1>1, <1>2, <1>5, <1>7, <2>1, AnswerIsSolo DEF Unchanged
<1>8. CASE Goto(p, "begin")
  <2>1. /\ hook'[p].pc = "begin" /\ hook'[p].seen = hook[p].seen
        /\ hook'[p].version = hook[p].version /\ hook'[p].plan = hook[p].plan
    BY <1>1, <1>8 DEF Goto, Hooks
  <2> QED BY <1>1, <1>2, <1>3, <2>1 DEF HookOK, Reads
<1> QED BY <1>6, <1>7, <1>8 DEF CheckReplayable

LEMMA SnapshotIsSolo ==
    ASSUME IInv, SoloInv, NEW p \in Proc, TakeSnapshot(p) \/ SnapshotFails(p)
    PROVE  HookOK(p)'
<1>1. /\ UNCHANGED <<transcript, store>> /\ hook \in [Proc -> Hooks] /\ hook[p] \in Hooks
      /\ HookOK(p) /\ hook[p].pc = "snapshot"
  BY SoloTypes DEF TakeSnapshot, SnapshotFails, SoloInv
<1>2. /\ Covered' = Covered /\ receipts' = receipts /\ session' = session
      /\ transcript' = transcript
  BY <1>1, SameStore
<1>3. CASE hook' = [hook EXCEPT ![p] = [@ EXCEPT !.pc = "boundary", !.len = Len(transcript)]]
  <2>1. /\ hook'[p].pc = "boundary" /\ hook'[p].len = Len(transcript)
        /\ hook'[p].seen = hook[p].seen /\ hook'[p].version = hook[p].version
        /\ hook'[p].note = hook[p].note /\ hook'[p].plan = hook[p].plan
    BY <1>1, <1>3 DEF Hooks
  <2>2. Rid(p)' = Rid(p)
    BY <2>1 DEF Rid
  <2>3. ~Suppressed(Rid(p))'
    BY <1>1, <1>2, <2>1 DEF HookOK, Suppressed, Rid
  <2>4. Len(transcript) \in Nat
    BY SoloTypes
  <2> QED BY <1>1, <1>2, <2>1, <2>3, <2>4 DEF HookOK, Reads
<1>4. CASE Answer(p, "pending", 0)
  BY <1>1, <1>4, AnswerIsSolo DEF Done
<1>5. CASE Goto(p, "fail")
  <2>1. hook'[p].pc = "fail" /\ hook'[p].version = hook[p].version
    BY <1>1, <1>5 DEF Goto, Hooks
  <2> QED BY <1>1, <1>2, <2>1 DEF HookOK, Reads
<1> QED BY <1>3, <1>4, <1>5 DEF TakeSnapshot, SnapshotFails

LEMMA DecideBoundaryIsSolo ==
    ASSUME IInv, SoloInv, NEW p \in Proc, DecideBoundary(p)
    PROVE  HookOK(p)'
<1>1. /\ UNCHANGED <<transcript, store>> /\ hook \in [Proc -> Hooks] /\ hook[p] \in Hooks
      /\ HookOK(p) /\ hook[p].pc = "boundary"
  BY SoloTypes DEF DecideBoundary, SoloInv
<1>2. /\ Covered' = Covered /\ receipts' = receipts /\ session' = session
      /\ transcript' = transcript
  BY <1>1, SameStore
<1>3. DuplicateBoundary(p) \/ NothingToStore(p) => hook[p].len \in Covered
  <2>1. /\ TypeOK /\ SessionNamesNewestTrace /\ hook[p].seen = session
        /\ hook[p].len <= Len(transcript) /\ hook[p].note \in Notifications
    BY <1>1, SoloTypes DEF IInv, HookOK, Reads
  <2>2. SeenOK(p)
    <3>1. session # None => traces # <<>> /\ session.events = traces[Len(traces)].events
      BY <2>1 DEF SessionNamesNewestTrace
    <3> QED BY <2>1, <3>1 DEF SoloInv, SessionOK, SeenOK, TypeOK
  <2>3. TracesOK /\ BoundariesOK
    BY DEF SoloInv, ReceiptsOK, BoundariesOK
  <2> QED BY <2>1, <2>2, <2>3, NothingIsLost
<1>4. CASE DuplicateBoundary(p) /\ Goto(p, "noop")
  <2>1. hook[p].plan \in {None, Boundary(p)}
    BY <1>1 DEF HookOK
  <2>2. /\ hook'[p].pc = "noop" /\ hook'[p].len = hook[p].len /\ hook'[p].plan = hook[p].plan
        /\ hook'[p].version = hook[p].version /\ hook'[p].note = hook[p].note
    BY <1>1, <1>4 DEF Goto, Hooks
  <2>3. Boundary(p)' = Boundary(p)
    BY <2>2 DEF Boundary
  <2> QED BY <1>1, <1>2, <1>3, <1>4, <2>1, <2>2, <2>3 DEF HookOK, Reads
<1>5. CASE /\ NothingToStore(p)
           /\ hook' = [hook EXCEPT ![p] = [@ EXCEPT !.pc = "noop", !.plan = Boundary(p)]]
  <2>1. /\ hook'[p].pc = "noop" /\ hook'[p].len = hook[p].len /\ hook'[p].plan = Boundary(p)
        /\ hook'[p].version = hook[p].version /\ hook'[p].note = hook[p].note
    BY <1>1, <1>5 DEF Hooks
  <2>2. Boundary(p)' = Boundary(p)
    BY <2>1 DEF Boundary
  <2> QED BY <1>1, <1>2, <1>3, <1>5, <2>1, <2>2 DEF HookOK, Reads
<1>6. CASE ~NothingToStore(p) /\ Goto(p, "commit")
  <2>1. /\ hook'[p].pc = "commit" /\ hook'[p].len = hook[p].len /\ hook'[p].seen = hook[p].seen
        /\ hook'[p].version = hook[p].version /\ hook'[p].note = hook[p].note
    BY <1>1, <1>6 DEF Goto, Hooks
  <2>2. Event(p)' = Event(p) /\ Snapshot(p)' = Snapshot(p)
    BY <1>2, <2>1 DEF Event, Snapshot
  <2>3. Event(p) = "TaskCompleted" \/ session = None \/ Snapshot(p) # session.events
    BY <1>1, <1>6 DEF NothingToStore, SameEvents, HookOK
  <2>4. ~Suppressed(Rid(p))'
    BY <1>1, <1>2, <2>1 DEF HookOK, Suppressed, Rid
  <2>5. (Event(p) = "TaskCompleted" \/ session = None \/ Snapshot(p) # session.events)'
    BY <1>2, <2>2, <2>3
  <2> QED BY <1>1, <1>2, <2>1, <2>4, <2>5 DEF HookOK, Reads
<1> QED BY <1>4, <1>5, <1>6 DEF DecideBoundary

\* A step within the commit, and one that gives up.
LEMMA GotoIsSolo ==
    ASSUME IInv, SoloInv, NEW p \in Proc, NEW pc \in {"index", "close", "fail"}, Goto(p, pc),
           hook[p].pc \notin {"idle", "mark"},
           hook[p].pc \in {"commit", "index", "close"} \/ pc = "fail",
           UNCHANGED <<transcript, store>>
    PROVE  HookOK(p)'
<1>1. /\ hook \in [Proc -> Hooks] /\ hook[p] \in Hooks /\ HookOK(p)
  BY SoloTypes DEF SoloInv
<1>2. /\ Covered' = Covered /\ receipts' = receipts /\ session' = session
      /\ transcript' = transcript
  BY SameStore
<1>3. /\ hook'[p].pc = pc /\ hook'[p].len = hook[p].len /\ hook'[p].seen = hook[p].seen
      /\ hook'[p].version = hook[p].version /\ hook'[p].note = hook[p].note
  BY <1>1 DEF Goto, Hooks
<1>4. CASE pc = "fail"
  BY <1>1, <1>2, <1>3, <1>4 DEF HookOK, Reads
<1>5. CASE hook[p].pc \in {"commit", "index", "close"} /\ pc # "fail"
  <2>1. Event(p)' = Event(p) /\ Snapshot(p)' = Snapshot(p)
    BY <1>2, <1>3 DEF Event, Snapshot
  <2>2. ~Suppressed(Rid(p))'
    BY <1>1, <1>2, <1>3, <1>5 DEF HookOK, Suppressed, Rid
  <2>3. (Event(p) = "TaskCompleted" \/ session = None \/ Snapshot(p) # session.events)'
    BY <1>1, <1>2, <1>5, <2>1 DEF HookOK
  <2> QED BY <1>1, <1>2, <1>3, <1>5, <2>2, <2>3 DEF HookOK, Reads
<1> QED BY <1>4, <1>5

\* mark_failed and an answer of failure leave no claim.
LEMMA FailedIsSolo ==
    ASSUME NEW p \in Proc, hook \in [Proc -> Hooks], Answer(p, "failed", 0)
    PROVE  HookOK(p)'
BY AnswerIsSolo DEF Done

\* With one process nobody else holds the write lock.
LEMMA LockIsFree ==
    ASSUME IInv, NEW p, Proc = {p}, hook[p].pc \notin {"index", "close"}
    PROVE  writer = None
BY DEF IInv, LockHeld, TypeOK

LEMMA OpenCommitIsSolo ==
    ASSUME IInv, SoloInv, NEW p \in Proc, OpenCommit(p) \/ WriteIndex(p)
    PROVE  HookOK(p)'
<1>1. HookOK(p) /\ UNCHANGED <<transcript, store>>
  BY DEF SoloInv, OpenCommit, WriteIndex
<1>2. CASE OpenCommit(p)
  <2>1. ~Suppressed(Rid(p))
    BY <1>1, <1>2 DEF HookOK, OpenCommit
  <2>2. \E pc \in {"index", "fail"} : Goto(p, pc)
    BY <1>2, <2>1 DEF OpenCommit
  <2>3. hook[p].pc = "commit"
    BY <1>2 DEF OpenCommit
  <2> QED BY <1>1, <2>2, <2>3, GotoIsSolo
<1>3. CASE WriteIndex(p)
  <2>1. hook[p].pc = "index" /\ Goto(p, "close")
    BY <1>3 DEF WriteIndex
  <2> QED BY <1>1, <2>1, GotoIsSolo
<1> QED BY <1>2, <1>3

LEMMA CrashIsSolo ==
    ASSUME IInv, SoloInv, NEW p \in Proc, Crash(p)
    PROVE  HookOK(p)'
<1>1. hook'[p].pc = "idle" /\ hook'[p].result = "none"
  BY SoloTypes DEF Crash, IdleHook
<1> QED BY <1>1 DEF HookOK, Reads, Done

LEMMA ListIsSolo ==
    ASSUME IInv, SoloInv, NEW p \in Proc, ListReplayable(p)
    PROVE  HookOK(p)'
<1>1. UNCHANGED <<transcript, store, hook>> /\ HookOK(p)
  BY DEF ListReplayable, SoloInv
<1>2. /\ Covered' = Covered /\ receipts' = receipts /\ session' = session
      /\ transcript' = transcript
  BY <1>1, SameStore
<1> QED BY <1>1, <1>2 DEF HookOK, Reads, Suppressed, Rid, Boundary, Event, Snapshot

-----------------------------------------------------------------------------
(* The steps that change the receipts, the session row or the traces.      *)

\* What is written to receipts is about what is covered.
LEMMA ReceiptsStep ==
    ASSUME IInv, SoloInv, UNCHANGED <<transcript, traces>>,
           \A r \in ReceiptIds :
              \/ receipts'[r] = receipts[r]
              \/ /\ receipts'[r].status # "absent" => r.version.size <= Len(transcript)
                 /\ receipts'[r].status \in {"committed", "no_op"} => r.version.size \in Covered
                 /\ receipts'[r].boundary # None => receipts'[r].boundary.last \in Covered
    PROVE  /\ TracesOK' /\ ReceiptsOK' /\ ConsecutiveTracesDiffer' /\ Covered' = Covered
           /\ session' = session => SessionOK'
<1>1. Covered' = Covered
  BY DEF Covered, Lasting, StoredEvents
<1>2. TracesOK' /\ ConsecutiveTracesDiffer'
  BY DEF SoloInv, TracesOK, ConsecutiveTracesDiffer
<1>3. ReceiptsOK'
  BY <1>1 DEF SoloInv, ReceiptsOK, Suppressed
<1> QED BY <1>1, <1>2, <1>3 DEF SoloInv, SessionOK

LEMMA BeginReceiptIsSolo ==
    ASSUME IInv, SoloInv, NEW p, Proc = {p}, BeginReceipt(p)
    PROVE  SoloInv'
<1>1. /\ hook \in [Proc -> Hooks] /\ hook[p] \in Hooks /\ HookOK(p) /\ hook[p].pc = "begin"
      /\ Rid(p) \in ReceiptIds /\ receipts \in [ReceiptIds -> Receipts]
      /\ \A r \in ReceiptIds : r.version.size \in Nat
      /\ hook[p].version.size \in Nat /\ Rid(p).version = hook[p].version
  <2>1. hook[p].pc = "begin" /\ TypeOK /\ p \in Proc
    BY SoloTypes DEF BeginReceipt
  <2> QED BY <2>1, SoloTypes DEF TypeOK, SoloInv, Rid
<1>2. /\ receipts' = [receipts EXCEPT ![Rid(p)].status = IF @ = "absent" THEN "pending" ELSE @]
      /\ transcript' = transcript /\ traces' = traces /\ session' = session
  BY DEF BeginReceipt
<1>3. \A r \in ReceiptIds :
         /\ receipts'[r].boundary = receipts[r].boundary
         /\ \/ receipts'[r].status = receipts[r].status
            \/ r = Rid(p) /\ receipts[r].status = "absent" /\ receipts'[r].status = "pending"
  BY <1>1, <1>2 DEF Receipts
<1>4. hook[p].version.size <= Len(transcript)
  BY <1>1 DEF HookOK
<1>5. /\ TracesOK' /\ ReceiptsOK' /\ ConsecutiveTracesDiffer' /\ Covered' = Covered /\ SessionOK'
  <2>1. \A r \in ReceiptIds :
           /\ receipts'[r].status # "absent" => r.version.size <= Len(transcript)
           /\ receipts'[r].status \in {"committed", "no_op"} => r.version.size \in Covered
           /\ receipts'[r].boundary # None => receipts'[r].boundary.last \in Covered
    BY <1>1, <1>3, <1>4 DEF SoloInv, ReceiptsOK, Suppressed
  <2> QED BY <1>2, <2>1, ReceiptsStep
<1>6. \A r \in ReceiptIds :
         receipts'[r].status # "absent" => r.version.size <= hook[p].version.size
  BY <1>1, <1>3 DEF HookOK
<1>7. CASE Suppressed(Rid(p)) /\ Answer(p, "no_op", hook[p].version.size)
  <2>1. hook[p].version.size \in Covered
    BY <1>1, <1>7 DEF SoloInv, ReceiptsOK
  <2>2. hook[p].replay \in ReceiptIds \cup {None}
    BY <1>1 DEF Hooks
  <2>3. hook[p].replay # None /\ receipts'[hook[p].replay].status \in {"pending", "failed"} =>
           hook[p].replay.version.size <= hook[p].version.size
    BY <1>6, <2>2
  <2>4. HookOK(p)'
    BY <1>1, <1>5, <1>7, <2>1, <2>3, AnswerIsSolo
  <2> QED BY <1>5, <2>4 DEF SoloInv
<1>8. CASE ~Suppressed(Rid(p)) /\ Goto(p, "snapshot")
  <2>1. /\ hook'[p].pc = "snapshot" /\ hook'[p].seen = hook[p].seen
        /\ hook'[p].version = hook[p].version /\ hook'[p].note = hook[p].note
        /\ hook'[p].plan = hook[p].plan
    BY <1>1, <1>8 DEF Goto, Hooks
  <2>2. ~Suppressed(Rid(p))'
    BY <1>1, <1>3, <1>8, <2>1 DEF Suppressed, Rid
  <2>3. HookOK(p)'
    BY <1>1, <1>2, <1>4, <1>6, <2>1, <2>2 DEF HookOK, Reads
  <2> QED BY <1>5, <2>3 DEF SoloInv
<1> QED BY <1>7, <1>8 DEF BeginReceipt

LEMMA NoOpIsSolo ==
    ASSUME IInv, SoloInv, NEW p, Proc = {p}, NoOp(p)
    PROVE  SoloInv'
<1>1. /\ hook \in [Proc -> Hooks] /\ hook[p] \in Hooks /\ HookOK(p) /\ hook[p].pc = "noop"
      /\ Rid(p) \in ReceiptIds /\ receipts \in [ReceiptIds -> Receipts]
      /\ session \in Sessions \cup {None} /\ hook[p].len \in Nat
      /\ hook[p].version.size \in Nat /\ Rid(p).version = hook[p].version
      /\ transcript \in Seq(RecordKinds) /\ Len(transcript) \in Nat
  <2>1. hook[p].pc = "noop" /\ TypeOK /\ p \in Proc
    BY SoloTypes DEF NoOp
  <2> QED BY <2>1, SoloTypes DEF TypeOK, SoloInv, Rid
<1>2. hook[p].len \in Covered /\ hook[p].version.size \in Covered
      /\ hook[p].version.size <= Len(transcript) /\ hook[p].version.size <= hook[p].len
      /\ hook[p].len <= Len(transcript)
  <2>1. hook[p].len \in Covered /\ hook[p].version.size <= hook[p].len
        /\ hook[p].version.size <= Len(transcript) /\ hook[p].len <= Len(transcript)
    BY <1>1 DEF HookOK, Reads
  <2> QED BY <1>1, <2>1, CoveredUpTo
<1>3. CASE Goto(p, "fail") /\ UNCHANGED <<receipts, session>>
  <2>1. UNCHANGED <<transcript, store>> /\ [Next]_vars /\ p \in Proc
    BY <1>3 DEF NoOp, store, Next, Handle
  <2>2. HookOK(p)'
    BY <1>1, <1>3, <2>1, GotoIsSolo
  <2> QED BY <2>1, <2>2, HookStep
<1>4. CASE /\ receipts' = [receipts EXCEPT ![Rid(p)] = [status |-> "no_op", boundary |-> hook[p].plan]]
           /\ session' = IF session # None /\ Event(p) \in {"SessionStart", "SessionEnd"}
                         THEN [session EXCEPT
                                  !.size = hook[p].len, !.boundary = hook[p].plan,
                                  !.status = IF Event(p) = "SessionEnd" THEN "ended" ELSE "active"]
                         ELSE session
           /\ hook' = [hook EXCEPT ![p] = [@ EXCEPT !.pc = "reconcile", !.result = "no_op"]]
  <2>1. transcript' = transcript /\ traces' = traces
    BY DEF NoOp
  <2>2. \A r \in ReceiptIds :
           \/ receipts'[r] = receipts[r]
           \/ r = Rid(p) /\ receipts'[r].status = "no_op" /\ receipts'[r].boundary = hook[p].plan
    BY <1>1, <1>4
  <2>3. hook[p].plan # None => hook[p].plan.last = hook[p].len
    BY <1>1 DEF HookOK, Boundary
  <2>4. \A r \in ReceiptIds :
           \/ receipts'[r] = receipts[r]
           \/ /\ receipts'[r].status # "absent" => r.version.size <= Len(transcript)
              /\ receipts'[r].status \in {"committed", "no_op"} => r.version.size \in Covered
              /\ receipts'[r].boundary # None => receipts'[r].boundary.last \in Covered
    BY <1>1, <1>2, <2>2, <2>3
  <2>5. TracesOK' /\ ReceiptsOK' /\ ConsecutiveTracesDiffer' /\ Covered' = Covered
    BY <2>1, <2>4, ReceiptsStep
  <2>6. SessionOK'
    <3>1. CASE session' = session
      BY <2>5, <3>1 DEF SoloInv, SessionOK
    <3>2. CASE session # None /\ Event(p) \in {"SessionStart", "SessionEnd"}
      <4>1. session \in Sessions
        BY <1>1, <3>2
      <4>2. session'.size = hook[p].len
        BY <1>4, <3>2, <4>1 DEF Sessions
      <4> QED BY <1>2, <2>5, <4>2 DEF SessionOK
    <3> QED BY <1>4, <3>1, <3>2
  <2>7. /\ hook'[p].pc = "reconcile" /\ hook'[p].len = hook[p].len
        /\ hook'[p].version = hook[p].version
    BY <1>1, <1>4 DEF Hooks
  <2>8. \A r \in ReceiptIds :
           receipts'[r].status # "absent" => r.version.size <= hook[p].version.size
    BY <1>1, <2>2 DEF HookOK
  <2>9. HookOK(p)'
    BY <1>1, <1>2, <2>1, <2>5, <2>7, <2>8 DEF HookOK, Reads
  <2> QED BY <2>5, <2>6, <2>9 DEF SoloInv
<1> QED BY <1>3, <1>4 DEF NoOp

LEMMA CloseCommitIsSolo ==
    ASSUME IInv, SoloInv, NEW p, Proc = {p}, CloseCommit(p)
    PROVE  SoloInv'
<1>1. /\ hook \in [Proc -> Hooks] /\ hook[p] \in Hooks /\ HookOK(p) /\ hook[p].pc = "close"
      /\ Rid(p) \in ReceiptIds /\ receipts \in [ReceiptIds -> Receipts]
      /\ hook[p].len \in Nat /\ hook[p].version.size \in Nat /\ Rid(p).version = hook[p].version
      /\ transcript \in Seq(RecordKinds) /\ Len(transcript) \in Nat /\ TypeOK
      /\ traces \in Seq(Traces) /\ SessionNamesNewestTrace
      /\ \A r \in ReceiptIds : r.version.size \in Nat
  <2>1. hook[p].pc = "close" /\ TypeOK /\ p \in Proc
    BY SoloTypes DEF CloseCommit
  <2> QED BY <2>1, SoloTypes DEF TypeOK, SoloInv, Rid, IInv
<1>2. /\ hook[p].version.size <= hook[p].len /\ hook[p].version.size <= Len(transcript)
      /\ hook[p].len <= Len(transcript) /\ hook[p].len \in 0..Len(transcript)
  BY <1>1 DEF HookOK, Reads
<1>3. CASE Goto(p, "fail") /\ UNCHANGED store
  <2>1. UNCHANGED <<transcript, store>> /\ [Next]_vars /\ p \in Proc
    BY <1>3 DEF CloseCommit, store, Next, Handle
  <2>2. HookOK(p)'
    BY <1>1, <1>3, <2>1, GotoIsSolo
  <2> QED BY <2>1, <2>2, HookStep
<1>4. CASE /\ traces' = Append(traces, [boundary |-> Boundary(p), events |-> Snapshot(p)])
           /\ session' = SessionRow(p)
           /\ receipts' = [receipts EXCEPT
                   ![Rid(p)] = [status |-> "committed", boundary |-> Boundary(p)]]
           /\ hook' = [hook EXCEPT ![p] = [@ EXCEPT !.pc = "reconcile", !.result = "captured"]]
  <2>1. transcript' = transcript /\ [Next]_vars
    BY <1>1 DEF CloseCommit, Next, Handle
  <2>2. Covered \subseteq Covered' /\ StoredEvents \subseteq StoredEvents'
    BY <2>1, CoveredGrows
  <2>3. PICK x : x = [boundary |-> Boundary(p), events |-> Snapshot(p)]
    OBVIOUS
  <2>4. /\ x.boundary.last = hook[p].len /\ x.boundary.note.event = Event(p)
        /\ x.events = Kept(transcript, hook[p].len, Event(p)) /\ x.events = Snapshot(p)
    BY <2>3 DEF Boundary, Event, Snapshot
  <2>5. /\ Len(traces') = Len(traces) + 1 /\ traces'[Len(traces) + 1] = x
        /\ \A k \in 1..Len(traces) : traces'[k] = traces[k]
        /\ Len(traces) \in Nat
    BY <1>1, <1>4, <2>3
  <2>6. hook[p].len \in Covered'
    <3>1. x.events \subseteq StoredEvents'
      BY <2>5 DEF StoredEvents
    <3>2. ASSUME NEW i \in Lasting, i <= hook[p].len PROVE i \in StoredEvents'
      <4>1. i \in Kept(transcript, hook[p].len, Event(p))
        BY <1>1, <1>2, <3>2, LastingIsKept DEF Lasting
      <4> QED BY <2>4, <3>1, <4>1
    <3> QED BY <1>2, <2>1, <3>2 DEF Covered, Lasting
  <2>7. hook[p].version.size \in Covered'
    <3>1. \A i \in Lasting' : i \in Nat
      BY <1>1, <2>1 DEF Lasting, Kept, Normalized
    <3> QED BY <1>1, <1>2, <2>1, <2>6, <3>1 DEF Covered
  <2>8. TracesOK'
    <3>1. ASSUME NEW k \in 1..Len(traces')
          PROVE  /\ traces'[k].boundary.last <= Len(transcript)
                 /\ traces'[k].events =
                       Kept(transcript, traces'[k].boundary.last, traces'[k].boundary.note.event)
      <4>1. CASE k = Len(traces) + 1
        BY <1>2, <2>4, <2>5, <4>1
      <4>2. CASE k \in 1..Len(traces)
        BY <2>5, <4>2 DEF SoloInv, TracesOK
      <4> QED BY <2>5, <4>1, <4>2
    <3> QED BY <2>1, <3>1 DEF TracesOK
  <2>9. SessionOK'
    <3>1. session'.size = hook[p].len
      BY <1>4 DEF SessionRow
    <3> QED BY <2>6, <3>1 DEF SessionOK
  <2>10. \A r \in ReceiptIds :
            \/ receipts'[r] = receipts[r]
            \/ r = Rid(p) /\ receipts'[r].status = "committed"
                 /\ receipts'[r].boundary = Boundary(p)
    BY <1>1, <1>4
  <2>11. ReceiptsOK'
    <3>1. \A r \in ReceiptIds :
             /\ receipts'[r].status # "absent" => r.version.size <= Len(transcript)
             /\ receipts'[r].status \in {"committed", "no_op"} => r.version.size \in Covered'
             /\ receipts'[r].boundary # None => receipts'[r].boundary.last \in Covered'
      BY <1>1, <1>2, <2>2, <2>4, <2>3, <2>6, <2>7, <2>10 DEF SoloInv, ReceiptsOK, Suppressed
    <3> QED BY <2>1, <3>1 DEF ReceiptsOK, Suppressed
  <2>12. ConsecutiveTracesDiffer'
    <3>1. ASSUME NEW k \in 2..Len(traces')
          PROVE  \/ traces'[k].events # traces'[k - 1].events
                 \/ traces'[k].boundary.note.event = "TaskCompleted"
      <4>1. CASE k = Len(traces) + 1
        <5>1. traces # <<>> /\ k - 1 = Len(traces) /\ traces'[k - 1] = traces[Len(traces)]
          BY <2>5, <4>1
        <5>2. session # None /\ session.events = traces[Len(traces)].events
          BY <1>1, <5>1 DEF SessionNamesNewestTrace
        <5>3. Event(p) = "TaskCompleted" \/ Snapshot(p) # session.events
          BY <1>1, <5>2 DEF HookOK
        <5> QED BY <2>4, <2>5, <4>1, <5>1, <5>2, <5>3
      <4>2. CASE k \in 2..Len(traces)
        <5>1. traces'[k] = traces[k] /\ traces'[k - 1] = traces[k - 1]
          BY <2>5, <4>2
        <5> QED BY <4>2, <5>1 DEF SoloInv, ConsecutiveTracesDiffer
      <4> QED BY <2>5, <4>1, <4>2
    <3> QED BY <3>1 DEF ConsecutiveTracesDiffer
  <2>13. /\ hook'[p].pc = "reconcile" /\ hook'[p].len = hook[p].len
         /\ hook'[p].version = hook[p].version
    BY <1>1, <1>4 DEF Hooks
  <2>14. \A r \in ReceiptIds :
            receipts'[r].status # "absent" => r.version.size <= hook[p].version.size
    BY <1>1, <2>10 DEF HookOK
  <2>15. HookOK(p)'
    BY <1>1, <1>2, <2>1, <2>6, <2>13, <2>14 DEF HookOK, Reads
  <2> QED BY <2>8, <2>9, <2>11, <2>12, <2>15 DEF SoloInv
<1> QED BY <1>3, <1>4 DEF CloseCommit

LEMMA ReconcileIsSolo ==
    ASSUME IInv, SoloInv, NEW p, Proc = {p}, Reconcile(p)
    PROVE  SoloInv'
<1>1. /\ hook \in [Proc -> Hooks] /\ hook[p] \in Hooks /\ HookOK(p) /\ hook[p].pc = "reconcile"
      /\ receipts \in [ReceiptIds -> Receipts]
      /\ hook[p].len \in Nat /\ hook[p].version.size \in Nat
      /\ transcript \in Seq(RecordKinds) /\ Len(transcript) \in Nat
      /\ \A r \in ReceiptIds : r.version.size \in Nat
  <2>1. hook[p].pc = "reconcile" /\ TypeOK /\ p \in Proc
    BY SoloTypes DEF Reconcile
  <2> QED BY <2>1, SoloTypes DEF TypeOK, SoloInv
<1>2. /\ transcript' = transcript /\ traces' = traces /\ session' = session
      /\ Answer(p, hook[p].result, hook[p].len)
  BY DEF Reconcile
<1>3. hook[p].len \in Covered /\ hook[p].version.size <= hook[p].len
  BY <1>1 DEF HookOK, Reads
<1>4. \A r \in ReceiptIds :
         receipts[r].status # "absent" => r.version.size <= hook[p].len /\ r.version.size \in Covered
  BY <1>1, <1>3, CoveredUpTo DEF HookOK
<1>5. \A r \in ReceiptIds :
         \/ receipts'[r] = receipts[r]
         \/ /\ receipts[r].status \in {"pending", "failed"} /\ receipts'[r].status = "no_op"
            /\ receipts'[r].boundary = receipts[r].boundary
  BY <1>1 DEF Reconcile, Replayable, Receipts
<1>6. /\ TracesOK' /\ ReceiptsOK' /\ ConsecutiveTracesDiffer' /\ Covered' = Covered /\ SessionOK'
  <2>1. \A r \in ReceiptIds :
           \/ receipts'[r] = receipts[r]
           \/ /\ receipts'[r].status # "absent" => r.version.size <= Len(transcript)
              /\ receipts'[r].status \in {"committed", "no_op"} => r.version.size \in Covered
              /\ receipts'[r].boundary # None => receipts'[r].boundary.last \in Covered
    BY <1>4, <1>5 DEF SoloInv, ReceiptsOK
  <2> QED BY <1>2, <2>1, ReceiptsStep
<1>7. hook[p].replay \in ReceiptIds \cup {None}
  BY <1>1 DEF Hooks
<1>8. hook[p].replay # None /\ receipts'[hook[p].replay].status \in {"pending", "failed"} =>
         hook[p].replay.version.size <= hook[p].len
  BY <1>4, <1>5, <1>7
<1>9. HookOK(p)'
  BY <1>1, <1>2, <1>3, <1>6, <1>8, AnswerIsSolo
<1> QED BY <1>6, <1>9 DEF SoloInv

LEMMA MarkFailedIsSolo ==
    ASSUME IInv, SoloInv, NEW p, Proc = {p}, MarkFailed(p)
    PROVE  SoloInv'
<1>1. /\ hook \in [Proc -> Hooks] /\ Rid(p) \in ReceiptIds /\ receipts \in [ReceiptIds -> Receipts]
  <2>1. hook[p].pc = "fail" /\ TypeOK /\ p \in Proc
    BY SoloTypes DEF MarkFailed
  <2> QED BY <2>1, SoloTypes DEF TypeOK
<1>2. /\ transcript' = transcript /\ traces' = traces /\ session' = session
      /\ Answer(p, "failed", 0)
  BY DEF MarkFailed
<1>3. \A r \in ReceiptIds :
         \/ receipts'[r] = receipts[r]
         \/ /\ receipts[r].status # "absent" /\ receipts'[r].status = "failed"
            /\ receipts'[r].boundary = receipts[r].boundary
  <2>1. receipts' = [receipts EXCEPT ![Rid(p)].status = IF @ = "absent" THEN "absent" ELSE "failed"]
    BY DEF MarkFailed
  <2> QED BY <1>1, <2>1 DEF Receipts
<1>4. /\ TracesOK' /\ ReceiptsOK' /\ ConsecutiveTracesDiffer' /\ Covered' = Covered /\ SessionOK'
  <2>1. \A r \in ReceiptIds :
           \/ receipts'[r] = receipts[r]
           \/ /\ receipts'[r].status # "absent" => r.version.size <= Len(transcript)
              /\ receipts'[r].status \in {"committed", "no_op"} => r.version.size \in Covered
              /\ receipts'[r].boundary # None => receipts'[r].boundary.last \in Covered
    BY <1>3 DEF SoloInv, ReceiptsOK
  <2> QED BY <1>2, <2>1, ReceiptsStep
<1>5. HookOK(p)'
  BY <1>1, <1>2, FailedIsSolo
<1> QED BY <1>4, <1>5 DEF SoloInv

LEMMA MarkReconciledIsSolo ==
    ASSUME IInv, SoloInv, NEW p, Proc = {p}, MarkReconciled(p)
    PROVE  SoloInv'
<1>1. /\ hook \in [Proc -> Hooks] /\ hook[p] \in Hooks /\ HookOK(p) /\ hook[p].pc = "mark"
      /\ receipts \in [ReceiptIds -> Receipts] /\ hook[p].len \in Nat
      /\ transcript \in Seq(RecordKinds) /\ Len(transcript) \in Nat
      /\ \A r \in ReceiptIds : r.version.size \in Nat
  <2>1. hook[p].pc = "mark" /\ TypeOK /\ p \in Proc
    BY SoloTypes DEF MarkReconciled
  <2> QED BY <2>1, SoloTypes DEF TypeOK, SoloInv
<1>2. /\ transcript' = transcript /\ traces' = traces /\ session' = session
      /\ receipts' = [receipts EXCEPT ![hook[p].replay].status =
                         IF @ \in {"pending", "failed"} THEN "no_op" ELSE @]
      /\ hook' = [hook EXCEPT ![p] = [@ EXCEPT !.pc = "idle", !.replay = None]]
  BY DEF MarkReconciled, Return
<1>3. hook[p].len \in Covered
  BY <1>1 DEF HookOK
<1>4. \A r \in ReceiptIds :
         \/ receipts'[r] = receipts[r]
         \/ /\ receipts'[r].status = "no_op" /\ receipts'[r].boundary = receipts[r].boundary
            /\ receipts[r].status \in {"pending", "failed"} /\ r.version.size <= hook[p].len
  <2>1. ASSUME NEW r \in ReceiptIds, r # hook[p].replay PROVE receipts'[r] = receipts[r]
    BY <1>1, <1>2, <2>1
  <2>2. ASSUME NEW r \in ReceiptIds, r = hook[p].replay
        PROVE  \/ receipts'[r] = receipts[r]
               \/ /\ receipts'[r].status = "no_op" /\ receipts'[r].boundary = receipts[r].boundary
                  /\ receipts[r].status \in {"pending", "failed"}
                  /\ r.version.size <= hook[p].len
    <3>1. CASE receipts[r].status \in {"pending", "failed"}
      <4>1. r.version.size <= hook[p].len
        BY <1>1, <2>2, <3>1 DEF HookOK
      <4> QED BY <1>1, <1>2, <2>2, <3>1, <4>1 DEF Receipts
    <3>2. CASE receipts[r].status \notin {"pending", "failed"}
      BY <1>1, <1>2, <2>2, <3>2 DEF Receipts
    <3> QED BY <3>1, <3>2
  <2> QED BY <2>1, <2>2
<1>5. /\ TracesOK' /\ ReceiptsOK' /\ ConsecutiveTracesDiffer' /\ Covered' = Covered /\ SessionOK'
  <2>1. \A r \in ReceiptIds :
           \/ receipts'[r] = receipts[r]
           \/ /\ receipts'[r].status # "absent" => r.version.size <= Len(transcript)
              /\ receipts'[r].status \in {"committed", "no_op"} => r.version.size \in Covered
              /\ receipts'[r].boundary # None => receipts'[r].boundary.last \in Covered
    BY <1>1, <1>3, <1>4, CoveredUpTo DEF SoloInv, ReceiptsOK
  <2> QED BY <1>2, <2>1, ReceiptsStep
<1>6. hook'[p].pc = "idle" /\ hook'[p].len = hook[p].len
  BY <1>1, <1>2 DEF Hooks
<1>7. HookOK(p)'
  BY <1>3, <1>5, <1>6 DEF HookOK, Reads
<1> QED BY <1>5, <1>7 DEF SoloInv
-----------------------------------------------------------------------------
LEMMA SoloInit == Init => SoloInv
<1> SUFFICES ASSUME Init PROVE SoloInv
  OBVIOUS
<1>1. TracesOK /\ SessionOK /\ ConsecutiveTracesDiffer
  BY DEF Init, TracesOK, SessionOK, ConsecutiveTracesDiffer
<1>2. ReceiptsOK
  BY DEF Init, ReceiptsOK, Suppressed
<1>3. \A p \in Proc : HookOK(p)
  BY DEF Init, HookOK, IdleHook, Reads, Done
<1> QED BY <1>1, <1>2, <1>3 DEF SoloInv

LEMMA SoloNext ==
    ASSUME IInv, SoloInv, NEW p, Proc = {p}, [Next]_vars
    PROVE  SoloInv'
<1>1. CASE Host
  BY <1>1, HostIsSolo
<1>2. ASSUME NEW note \in Notifications, Notify(p, note) PROVE SoloInv'
  <2>1. UNCHANGED <<transcript, store>> /\ Begin(p, note, None)
    BY <1>2 DEF Notify
  <2> QED BY <2>1, BeginIsSolo, HookStep
<1>3. ASSUME NEW r \in ReceiptIds, Replay(p, r) PROVE SoloInv'
  <2>1. UNCHANGED <<transcript, store>> /\ Begin(p, r.note, r)
    BY <1>3 DEF Replay
  <2> QED BY <2>1, BeginIsSolo, HookStep
<1>4. CASE ListReplayable(p) \/ Crash(p)
  <2>1. UNCHANGED <<transcript, store>> /\ HookOK(p)'
    BY <1>4, ListIsSolo, CrashIsSolo DEF ListReplayable, Crash
  <2> QED BY <2>1, HookStep
<1>5. CASE LoadSession(p) \/ CheckReplayable(p) \/ TakeSnapshot(p) \/ SnapshotFails(p)
           \/ DecideBoundary(p) \/ OpenCommit(p) \/ WriteIndex(p)
  <2>1. UNCHANGED <<transcript, store>>
    BY <1>5 DEF LoadSession, CheckReplayable, TakeSnapshot, SnapshotFails, DecideBoundary,
                OpenCommit, WriteIndex
  <2>2. HookOK(p)'
    BY <1>5, LoadSessionIsSolo, CheckReplayableIsSolo, SnapshotIsSolo, DecideBoundaryIsSolo,
       OpenCommitIsSolo
  <2> QED BY <2>1, <2>2, HookStep
<1>6. CASE BeginReceipt(p) \/ NoOp(p) \/ CloseCommit(p) \/ Reconcile(p) \/ MarkFailed(p)
           \/ MarkReconciled(p)
  BY <1>6, BeginReceiptIsSolo, NoOpIsSolo, CloseCommitIsSolo, ReconcileIsSolo, MarkFailedIsSolo,
     MarkReconciledIsSolo
<1>7. CASE Busy(p) \/ MarkBusy(p)
  BY <1>7, LockIsFree DEF Busy, MarkBusy
<1>8. CASE UNCHANGED vars
  <2>1. UNCHANGED <<transcript, store>> /\ UNCHANGED <<hook, receipts, session>>
    BY <1>8 DEF vars, store
  <2>2. HookOK(p)'
    BY <2>1, SameStore DEF SoloInv, HookOK, Reads, Suppressed, Rid, Boundary, Event, Snapshot
  <2> QED BY <2>1, <2>2, HookStep
<1> QED BY <1>1, <1>2, <1>3, <1>4, <1>5, <1>6, <1>7, <1>8 DEF Next, Handle

\* What is covered is stored.
LEMMA CoveredIsStored ==
    ASSUME NEW n \in Covered
    PROVE  FinishedBy(n) \subseteq StoredEvents
<1>1. \A i \in Kept(transcript, n, "Stop") : i <= n
  BY DEF Covered, Kept, Normalized
<1> QED BY <1>1 DEF FinishedBy, Covered, Lasting, Responses

\* Hooks that never overlap lose no response: whatever crashed or could not be
\* read before, an answer of success means that the responses it saw are
\* stored, or left out by a later run of AgentDebugX.
THEOREM AnsweredIsStoredAlone ==
    ASSUME NEW CONSTANT p, Proc = {p}
    PROVE  Spec => []AnsweredIsStored
<1>1. SoloInv /\ IInv => AnsweredIsStored
  <2> SUFFICES ASSUME SoloInv, IInv, hook[p].result \in Done, hook[p].pc \in {"idle", "mark"}
               PROVE  FinishedBy(hook[p].len) \subseteq StoredEvents
    BY DEF AnsweredIsStored
  <2>1. hook[p].len \in Covered
    BY DEF SoloInv, HookOK
  <2> QED BY <2>1, CoveredIsStored
<1>2. IInv /\ SoloInv /\ [Next]_vars => SoloInv'
  BY SoloNext
<1> QED BY <1>1, <1>2, SoloInit, Invariance, PTL DEF Spec

\* Nor do they store the same events twice in a row, but for a task.
THEOREM ConsecutiveTracesDifferAlone ==
    ASSUME NEW CONSTANT p, Proc = {p}
    PROVE  Spec => []ConsecutiveTracesDiffer
<1>1. SoloInv => ConsecutiveTracesDiffer
  BY DEF SoloInv
<1>2. IInv /\ SoloInv /\ [Next]_vars => SoloInv'
  BY SoloNext
<1> QED BY <1>1, <1>2, SoloInit, Invariance, PTL DEF Spec

-----------------------------------------------------------------------------
(* Any number of processes: what the database claims is stored.            *)

Early == {"session", "replayable", "begin", "snapshot", "boundary"}

\* A run that has read the transcript read a prefix of what it is now; one
\* about to record a no-op has found that prefix covered.
SharedHookOK(p) ==
    /\ hook[p].pc \in Reads => hook[p].len <= Len(transcript)
    /\ hook[p].pc = "noop" =>
          hook[p].len \in Covered /\ hook[p].plan \in {None, Boundary(p)}
    /\ hook[p].pc \in Early => hook[p].plan = None
    /\ hook[p].pc \in Early \ {"session"} => SeenOK(p)

SharedInv ==
    /\ TracesOK /\ SessionOK /\ BoundariesOK
    /\ \A p \in Proc : SharedHookOK(p)

\* Whatever another process did, what this one knows stays true.
LEMMA SharedStays ==
    ASSUME IInv, SharedInv, [Next]_vars, NEW q \in Proc, hook'[q] = hook[q]
    PROVE  SharedHookOK(q)'
<1>1. /\ transcript \in Seq(RecordKinds) /\ transcript' \in Seq(RecordKinds)
      /\ Len(transcript) <= Len(transcript') /\ Covered \subseteq Covered'
  BY CoveredGrows
<1>2. hook[q].len \in Nat /\ Len(transcript) \in Nat /\ Len(transcript') \in Nat
  BY <1>1, SoloTypes
<1>3. SharedHookOK(q)
  BY DEF SharedInv
<1>4. SeenOK(q) => SeenOK(q)'
  <2>1. traces \in Seq(Traces)
    BY DEF IInv, TypeOK
  <2>2. \A k \in 1..Len(traces) : k \in 1..Len(traces') /\ traces'[k] = traces[k]
    <3>1. ASSUME NEW x, traces' = Append(traces, x)
          PROVE  \A k \in 1..Len(traces) : k \in 1..Len(traces') /\ traces'[k] = traces[k]
      BY <2>1, <3>1
    <3> QED BY <3>1, StoreGrows
  <2> QED BY <1>1, <2>2 DEF SeenOK
<1>5. Boundary(q)' = Boundary(q)
  BY DEF Boundary
<1> QED BY <1>1, <1>2, <1>3, <1>4, <1>5 DEF SharedHookOK

\* A run that returns or fails claims nothing more.
LEMMA SharedRests ==
    ASSUME NEW p \in Proc, hook'[p].pc \in {"idle", "mark", "fail"}
    PROVE  SharedHookOK(p)'
BY DEF SharedHookOK, Reads, Early

\* The traces keep standing for prefixes of the transcript.
LEMMA SharedTraces ==
    ASSUME IInv, SharedInv, [Next]_vars
    PROVE  TracesOK'
<1>1. /\ Len(transcript) <= Len(transcript') /\ Len(transcript) \in Nat
      /\ \A n \in 0..Len(transcript) : \A e : Kept(transcript', n, e) = Kept(transcript, n, e)
      /\ Len(transcript') \in Nat /\ traces \in Seq(Traces)
  BY CoveredGrows DEF IInv, TypeOK
<1>2. ASSUME NEW k \in 1..Len(traces)
      PROVE  /\ traces[k].boundary.last <= Len(transcript')
             /\ traces[k].events =
                   Kept(transcript', traces[k].boundary.last, traces[k].boundary.note.event)
  <2>1. traces[k] \in Traces
    BY <1>1
  <2>2. traces[k].boundary.last \in Nat
    BY <2>1, MaxRecordsAssumption DEF Traces, Boundaries, Lengths
  <2>3. /\ traces[k].boundary.last <= Len(transcript)
        /\ traces[k].events =
              Kept(transcript, traces[k].boundary.last, traces[k].boundary.note.event)
    BY DEF SharedInv, TracesOK
  <2> QED BY <1>1, <2>2, <2>3
<1>3. CASE traces' = traces
  BY <1>2, <1>3 DEF TracesOK
<1>4. ASSUME NEW p \in Proc, CloseCommit(p),
             traces' = Append(traces, [boundary |-> Boundary(p), events |-> Snapshot(p)])
      PROVE  TracesOK'
  <2>1. hook[p].len <= Len(transcript) /\ hook[p].len \in Nat /\ transcript' = transcript
    BY <1>4, SoloTypes DEF CloseCommit, SharedInv, SharedHookOK, Reads
  <2>2. PICK x : x = [boundary |-> Boundary(p), events |-> Snapshot(p)]
    OBVIOUS
  <2>3. /\ x.boundary.last <= Len(transcript')
        /\ x.events = Kept(transcript', x.boundary.last, x.boundary.note.event)
    BY <2>1, <2>2 DEF Boundary, Event, Snapshot
  <2>4. /\ Len(traces') = Len(traces) + 1 /\ traces'[Len(traces) + 1] = x
        /\ \A k \in 1..Len(traces) : traces'[k] = traces[k]
        /\ Len(traces) \in Nat
    BY <1>1, <1>4, <2>2
  <2>5. \A k \in 1..Len(traces') : k \in 1..Len(traces) \/ k = Len(traces) + 1
    BY <2>4
  <2> QED BY <1>2, <2>3, <2>4, <2>5 DEF TracesOK
<1> QED BY <1>3, <1>4, StoreGrows

\* A step that takes no boundary and leaves the session row is about hooks.
LEMMA SharedStep ==
    ASSUME IInv, SharedInv, [Next]_vars, NEW p \in Proc,
           \A q \in Proc \ {p} : hook'[q] = hook[q],
           SharedHookOK(p)', session' = session,
           \A r \in ReceiptIds : receipts'[r].boundary = receipts[r].boundary
    PROVE  SharedInv'
<1>1. Covered \subseteq Covered'
  BY CoveredGrows
<1>2. SessionOK' /\ BoundariesOK'
  BY <1>1 DEF SharedInv, SessionOK, BoundariesOK
<1>3. \A q \in Proc : SharedHookOK(q)'
  BY SharedStays
<1> QED BY <1>2, <1>3, SharedTraces DEF SharedInv

\* Within a run: the next step knows no more than the one before.
LEMMA SharedGoto ==
    ASSUME IInv, SharedInv, [Next]_vars, NEW p \in Proc, NEW pc, Goto(p, pc),
           UNCHANGED <<transcript, store>>,
           \/ pc \in Early \ {"session"} /\ hook[p].pc \in Early \ {"session"}
           \/ pc \in {"commit", "index", "close"} /\ hook[p].pc \in Reads
           \/ pc \in {"fail"},
           pc = "boundary" => hook[p].pc \in Reads
    PROVE  SharedInv'
<1>1. hook \in [Proc -> Hooks] /\ hook[p] \in Hooks /\ SharedHookOK(p)
  BY SoloTypes DEF SharedInv
<1>2. /\ hook'[p].pc = pc /\ hook'[p].len = hook[p].len /\ hook'[p].seen = hook[p].seen
      /\ hook'[p].plan = hook[p].plan /\ hook'[p].note = hook[p].note
  BY <1>1 DEF Goto, Hooks
<1>3. /\ Covered' = Covered /\ transcript' = transcript /\ traces' = traces
  BY SameStore DEF store
<1>4. SeenOK(p)' <=> SeenOK(p)
  BY <1>2, <1>3 DEF SeenOK
<1>5. SharedHookOK(p)'
  BY <1>1, <1>2, <1>3, <1>4 DEF SharedHookOK, Reads, Early
<1>6. \A q \in Proc \ {p} : hook'[q] = hook[q]
  BY <1>1 DEF Goto
<1> QED BY <1>5, <1>6, SharedStep DEF store

LEMMA AnswerRests ==
    ASSUME IInv, SharedInv, [Next]_vars, NEW p \in Proc, NEW result, NEW len,
           Answer(p, result, len), session' = session,
           \A r \in ReceiptIds : receipts'[r].boundary = receipts[r].boundary
    PROVE  SharedInv'
<1>1. hook \in [Proc -> Hooks]
  BY SoloTypes
<1>2. hook'[p].pc \in {"idle", "mark"} /\ \A q \in Proc \ {p} : hook'[q] = hook[q]
  BY <1>1 DEF Answer
<1> QED BY <1>2, SharedRests, SharedStep

LEMMA SharedEarly ==
    ASSUME IInv, SharedInv, [Next]_vars, NEW p \in Proc,
           LoadSession(p) \/ CheckReplayable(p) \/ TakeSnapshot(p) \/ SnapshotFails(p)
    PROVE  SharedInv'
<1>1. /\ UNCHANGED <<transcript, store>> /\ hook \in [Proc -> Hooks] /\ hook[p] \in Hooks
      /\ SharedHookOK(p) /\ receipts' = receipts /\ session' = session
      /\ transcript \in Seq(RecordKinds)
  BY SoloTypes DEF LoadSession, CheckReplayable, TakeSnapshot, SnapshotFails, SharedInv, store,
                   TypeOK
<1>2. CASE LoadSession(p)
  <2>1. /\ hook'[p].pc = "replayable" /\ hook'[p].seen = session
        /\ hook'[p].plan = hook[p].plan /\ hook[p].pc = "session"
        /\ \A q \in Proc \ {p} : hook'[q] = hook[q]
    BY <1>1, <1>2 DEF LoadSession, Hooks
  <2>2. Covered' = Covered /\ traces' = traces
    BY <1>1, SameStore DEF store
  <2>3. session # None => \E k \in 1..Len(traces) : session.events = traces[k].events
    <3>1. session # None => traces # <<>> /\ session.events = traces[Len(traces)].events
      BY DEF IInv, SessionNamesNewestTrace
    <3>2. traces \in Seq(Traces)
      BY DEF IInv, TypeOK
    <3> QED BY <3>1, <3>2
  <2>4. SeenOK(p)'
    BY <2>1, <2>2, <2>3 DEF SeenOK, SharedInv, SessionOK
  <2>5. SharedHookOK(p)'
    BY <1>1, <2>1, <2>4 DEF SharedHookOK, Reads, Early
  <2> QED BY <1>1, <2>1, <2>5, SharedStep
<1>3. CASE Goto(p, "begin") /\ hook[p].pc = "replayable"
  BY <1>1, <1>3, SharedGoto DEF Early
<1>4. ASSUME NEW result, NEW len, Answer(p, result, len) PROVE SharedInv'
  BY <1>1, <1>4, AnswerRests
<1>5. CASE Goto(p, "fail")
  BY <1>1, <1>5, SharedGoto DEF Early
<1>6. CASE /\ hook[p].pc = "snapshot"
           /\ hook' = [hook EXCEPT ![p] = [@ EXCEPT !.pc = "boundary", !.len = Len(transcript)]]
  <2>1. /\ hook'[p].pc = "boundary" /\ hook'[p].len = Len(transcript)
        /\ hook'[p].plan = hook[p].plan /\ hook'[p].seen = hook[p].seen
        /\ \A q \in Proc \ {p} : hook'[q] = hook[q]
    BY <1>1, <1>6 DEF Hooks
  <2>2. Covered' = Covered /\ traces' = traces /\ transcript' = transcript
    BY <1>1, SameStore DEF store
  <2>3. SeenOK(p)' <=> SeenOK(p)
    BY <2>1, <2>2 DEF SeenOK
  <2>4. SharedHookOK(p)'
    BY <1>1, <1>6, <2>1, <2>2, <2>3 DEF SharedHookOK, Reads, Early
  <2> QED BY <1>1, <2>1, <2>4, SharedStep
<1> QED BY <1>2, <1>3, <1>4, <1>5, <1>6 DEF CheckReplayable, TakeSnapshot, SnapshotFails

LEMMA SharedDecides ==
    ASSUME IInv, SharedInv, [Next]_vars, NEW p \in Proc, DecideBoundary(p)
    PROVE  SharedInv'
<1>1. /\ UNCHANGED <<transcript, store>> /\ hook \in [Proc -> Hooks] /\ hook[p] \in Hooks
      /\ SharedHookOK(p) /\ receipts' = receipts /\ session' = session
      /\ hook[p].pc = "boundary" /\ hook[p].note \in Notifications /\ TypeOK
  BY SoloTypes DEF DecideBoundary, SharedInv, store
<1>2. /\ hook[p].len <= Len(transcript) /\ SeenOK(p) /\ hook[p].plan = None
  BY <1>1 DEF SharedHookOK, Reads, Early
<1>3. Covered' = Covered /\ transcript' = transcript
  BY <1>1, SameStore
<1>4. ASSUME DuplicateBoundary(p) \/ NothingToStore(p),
             hook'[p].pc = "noop", hook'[p].len = hook[p].len, hook'[p].note = hook[p].note,
             hook'[p].plan \in {None, Boundary(p)}, \A q \in Proc \ {p} : hook'[q] = hook[q]
      PROVE  SharedInv'
  <2>1. hook[p].len \in Covered
    BY <1>1, <1>2, <1>4, NothingIsLost DEF SharedInv
  <2>2. Boundary(p)' = Boundary(p)
    BY <1>4 DEF Boundary
  <2>3. SharedHookOK(p)'
    BY <1>2, <1>3, <1>4, <2>1, <2>2 DEF SharedHookOK, Reads, Early
  <2> QED BY <1>1, <1>4, <2>3, SharedStep
<1>5. CASE DuplicateBoundary(p) /\ Goto(p, "noop")
  <2>1. /\ hook'[p].pc = "noop" /\ hook'[p].len = hook[p].len /\ hook'[p].note = hook[p].note
        /\ hook'[p].plan = None /\ \A q \in Proc \ {p} : hook'[q] = hook[q]
    BY <1>1, <1>2, <1>5 DEF Goto, Hooks
  <2> QED BY <1>4, <1>5, <2>1
<1>6. CASE /\ NothingToStore(p)
           /\ hook' = [hook EXCEPT ![p] = [@ EXCEPT !.pc = "noop", !.plan = Boundary(p)]]
  <2>1. /\ hook'[p].pc = "noop" /\ hook'[p].len = hook[p].len /\ hook'[p].note = hook[p].note
        /\ hook'[p].plan = Boundary(p) /\ \A q \in Proc \ {p} : hook'[q] = hook[q]
    BY <1>1, <1>6 DEF Hooks
  <2> QED BY <1>4, <1>6, <2>1
<1>7. CASE Goto(p, "commit")
  BY <1>1, <1>7, SharedGoto DEF Reads
<1> QED BY <1>5, <1>6, <1>7 DEF DecideBoundary

LEMMA SharedNoOp ==
    ASSUME IInv, SharedInv, [Next]_vars, NEW p \in Proc, NoOp(p)
    PROVE  SharedInv'
<1>1. /\ hook \in [Proc -> Hooks] /\ hook[p] \in Hooks /\ SharedHookOK(p)
      /\ hook[p].pc = "noop" /\ Rid(p) \in ReceiptIds
      /\ receipts \in [ReceiptIds -> Receipts] /\ session \in Sessions \cup {None}
      /\ transcript' = transcript /\ traces' = traces
  BY SoloTypes DEF NoOp, SharedInv, TypeOK
<1>2. CASE Goto(p, "fail") /\ UNCHANGED <<receipts, session>>
  BY <1>1, <1>2, SharedGoto DEF store
<1>3. CASE /\ receipts' = [receipts EXCEPT ![Rid(p)] = [status |-> "no_op", boundary |-> hook[p].plan]]
           /\ session' = IF session # None /\ Event(p) \in {"SessionStart", "SessionEnd"}
                         THEN [session EXCEPT
                                  !.size = hook[p].len, !.boundary = hook[p].plan,
                                  !.status = IF Event(p) = "SessionEnd" THEN "ended" ELSE "active"]
                         ELSE session
           /\ hook' = [hook EXCEPT ![p] = [@ EXCEPT !.pc = "reconcile", !.result = "no_op"]]
  <2>1. /\ hook[p].len \in Covered /\ hook[p].plan \in {None, Boundary(p)}
        /\ hook[p].len <= Len(transcript)
    BY <1>1 DEF SharedHookOK, Reads
  <2>2. hook[p].plan # None => hook[p].plan.last = hook[p].len
    BY <2>1 DEF Boundary
  <2>3. Covered \subseteq Covered'
    BY CoveredGrows
  <2>4. BoundariesOK'
    <3>1. ASSUME NEW r \in ReceiptIds, receipts'[r].boundary # None
          PROVE  receipts'[r].boundary.last \in Covered
      <4>1. receipts'[r] = receipts[r] \/ receipts'[r].boundary = hook[p].plan
        BY <1>1, <1>3
      <4> QED BY <2>1, <2>2, <3>1, <4>1 DEF SharedInv, BoundariesOK
    <3> QED BY <2>3, <3>1 DEF BoundariesOK
  <2>5. SessionOK'
    <3>1. session' # None => session'.size \in Covered
      <4>1. CASE session' = session
        BY <4>1 DEF SharedInv, SessionOK
      <4>2. CASE session # None /\ Event(p) \in {"SessionStart", "SessionEnd"}
        <5>1. session'.size = hook[p].len
          BY <1>1, <1>3, <4>2 DEF Sessions
        <5> QED BY <2>1, <5>1
      <4> QED BY <1>3, <4>1, <4>2
    <3> QED BY <2>3, <3>1 DEF SessionOK
  <2>6. SharedHookOK(p)'
    <3>1. hook'[p].pc = "reconcile" /\ hook'[p].len = hook[p].len
      BY <1>1, <1>3 DEF Hooks
    <3> QED BY <1>1, <2>1, <3>1 DEF SharedHookOK, Reads, Early
  <2>7. \A q \in Proc : SharedHookOK(q)'
    BY <1>1, <1>3, <2>6, SharedStays
  <2> QED BY <2>4, <2>5, <2>7, SharedTraces DEF SharedInv
<1> QED BY <1>2, <1>3 DEF NoOp

LEMMA SharedCloseCommit ==
    ASSUME IInv, SharedInv, [Next]_vars, NEW p \in Proc, CloseCommit(p)
    PROVE  SharedInv'
<1>1. /\ hook \in [Proc -> Hooks] /\ hook[p] \in Hooks /\ SharedHookOK(p)
      /\ hook[p].pc = "close" /\ Rid(p) \in ReceiptIds
      /\ receipts \in [ReceiptIds -> Receipts] /\ transcript' = transcript
      /\ transcript \in Seq(RecordKinds) /\ traces \in Seq(Traces)
      /\ hook[p].len \in Nat /\ Len(transcript) \in Nat
  BY SoloTypes DEF CloseCommit, SharedInv, TypeOK
<1>2. CASE Goto(p, "fail") /\ UNCHANGED store
  BY <1>1, <1>2, SharedGoto
<1>3. CASE /\ traces' = Append(traces, [boundary |-> Boundary(p), events |-> Snapshot(p)])
           /\ session' = SessionRow(p)
           /\ receipts' = [receipts EXCEPT
                   ![Rid(p)] = [status |-> "committed", boundary |-> Boundary(p)]]
           /\ hook' = [hook EXCEPT ![p] = [@ EXCEPT !.pc = "reconcile", !.result = "captured"]]
  <2>1. hook[p].len \in 0..Len(transcript)
    BY <1>1 DEF SharedHookOK, Reads
  <2>2. Covered \subseteq Covered'
    BY CoveredGrows
  <2>3. Snapshot(p) \subseteq StoredEvents'
    <3>1. PICK x : x = [boundary |-> Boundary(p), events |-> Snapshot(p)]
      OBVIOUS
    <3>2. Len(traces') \in 1..Len(traces') /\ traces'[Len(traces')] = x
      BY <1>1, <1>3, <3>1
    <3>3. x.events = Snapshot(p)
      BY <3>1
    <3> QED BY <3>2, <3>3 DEF StoredEvents
  <2>4. hook[p].len \in Covered'
    <3>1. ASSUME NEW i \in Lasting, i <= hook[p].len PROVE i \in StoredEvents'
      <4>1. i \in Kept(transcript, hook[p].len, Event(p))
        BY <1>1, <2>1, <3>1, LastingIsKept DEF Lasting
      <4> QED BY <2>3, <4>1 DEF Snapshot
    <3> QED BY <1>1, <2>1, <3>1 DEF Covered, Lasting
  <2>5. BoundariesOK'
    <3>1. ASSUME NEW r \in ReceiptIds, receipts'[r].boundary # None
          PROVE  receipts'[r].boundary.last \in Covered'
      <4>1. receipts'[r] = receipts[r] \/ receipts'[r].boundary = Boundary(p)
        BY <1>1, <1>3
      <4>2. Boundary(p).last = hook[p].len
        BY DEF Boundary
      <4> QED BY <2>2, <2>4, <3>1, <4>1, <4>2 DEF SharedInv, BoundariesOK
    <3> QED BY <3>1 DEF BoundariesOK
  <2>6. SessionOK'
    <3>1. session'.size = hook[p].len
      BY <1>3 DEF SessionRow
    <3> QED BY <2>4, <3>1 DEF SessionOK
  <2>7. SharedHookOK(p)'
    <3>1. hook'[p].pc = "reconcile" /\ hook'[p].len = hook[p].len
      BY <1>1, <1>3 DEF Hooks
    <3> QED BY <1>1, <2>1, <3>1 DEF SharedHookOK, Reads, Early
  <2>8. \A q \in Proc : SharedHookOK(q)'
    BY <1>1, <1>3, <2>7, SharedStays
  <2> QED BY <2>5, <2>6, <2>8, SharedTraces DEF SharedInv
<1> QED BY <1>2, <1>3 DEF CloseCommit

\* The statements that change the status of receipts only.
LEMMA SharedSettles ==
    ASSUME IInv, SharedInv, [Next]_vars, NEW p \in Proc,
           \/ BeginReceipt(p) \/ Reconcile(p) \/ MarkFailed(p) \/ MarkReconciled(p)
    PROVE  SharedInv'
<1>1. /\ hook \in [Proc -> Hooks] /\ receipts \in [ReceiptIds -> Receipts]
      /\ session' = session
  BY SoloTypes DEF BeginReceipt, Reconcile, MarkFailed, MarkReconciled, TypeOK
<1>2. \A r \in ReceiptIds : receipts'[r].boundary = receipts[r].boundary
  BY <1>1 DEF BeginReceipt, Reconcile, MarkFailed, MarkReconciled, Receipts
<1>3. CASE \E result, len : Answer(p, result, len)
  BY <1>1, <1>2, <1>3, AnswerRests
<1>4. CASE Return(p)
  <2>1. hook'[p].pc = "idle" /\ \A q \in Proc \ {p} : hook'[q] = hook[q]
    <3>1. hook[p] \in Hooks
      BY <1>1
    <3> QED BY <1>1, <1>4, <3>1 DEF Return, Hooks
  <2> QED BY <1>1, <1>2, <2>1, SharedRests, SharedStep
<1>5. CASE BeginReceipt(p) /\ Goto(p, "snapshot")
  <2>1. hook[p] \in Hooks /\ SharedHookOK(p) /\ hook[p].pc = "begin"
        /\ transcript' = transcript /\ traces' = traces
    BY <1>1, <1>5 DEF BeginReceipt, SharedInv
  <2>2. /\ hook'[p].pc = "snapshot" /\ hook'[p].plan = hook[p].plan
        /\ hook'[p].seen = hook[p].seen /\ \A q \in Proc \ {p} : hook'[q] = hook[q]
    BY <1>1, <1>5, <2>1 DEF Goto, Hooks
  <2>3. SeenOK(p)' <=> SeenOK(p)
    BY <2>1, <2>2 DEF SeenOK, Covered, Lasting, StoredEvents
  <2>4. SharedHookOK(p)'
    BY <2>1, <2>2, <2>3 DEF SharedHookOK, Reads, Early
  <2> QED BY <1>1, <1>2, <2>2, <2>4, SharedStep
<1> QED BY <1>3, <1>4, <1>5 DEF BeginReceipt, Reconcile, MarkFailed, MarkReconciled

LEMMA SharedInit == Init => SharedInv
<1> SUFFICES ASSUME Init PROVE SharedInv
  OBVIOUS
<1>1. TracesOK /\ SessionOK /\ BoundariesOK
  BY DEF Init, TracesOK, SessionOK, BoundariesOK
<1>2. \A p \in Proc : SharedHookOK(p)
  BY DEF Init, SharedHookOK, IdleHook, Reads, Early
<1> QED BY <1>1, <1>2 DEF SharedInv

LEMMA SharedNext ==
    ASSUME IInv, SharedInv, [Next]_vars
    PROVE  SharedInv'
<1>1. CASE UNCHANGED <<hook, store>>
  <2>1. Covered \subseteq Covered'
    BY CoveredGrows
  <2>2. SessionOK' /\ BoundariesOK'
    BY <1>1, <2>1 DEF SharedInv, SessionOK, BoundariesOK, store
  <2>3. \A q \in Proc : SharedHookOK(q)'
    BY <1>1, SharedStays
  <2> QED BY <2>2, <2>3, SharedTraces DEF SharedInv
<1>2. ASSUME NEW p \in Proc, NEW note, NEW replay, Begin(p, note, replay), UNCHANGED store
      PROVE  SharedInv'
  <2>1. hook \in [Proc -> Hooks]
    BY SoloTypes
  <2>2. /\ hook'[p].pc = "session" /\ hook'[p].plan = None
        /\ \A q \in Proc \ {p} : hook'[q] = hook[q]
    BY <1>2, <2>1 DEF Begin
  <2>3. SharedHookOK(p)'
    BY <2>2 DEF SharedHookOK, Reads, Early
  <2> QED BY <1>2, <2>2, <2>3, SharedStep DEF store
<1>3. ASSUME NEW p \in Proc, Crash(p) PROVE SharedInv'
  <2>1. hook'[p].pc = "idle" /\ \A q \in Proc \ {p} : hook'[q] = hook[q]
    BY <1>3, SoloTypes DEF Crash, IdleHook
  <2>2. receipts' = receipts /\ session' = session
    BY <1>3 DEF Crash, store
  <2> QED BY <2>1, <2>2, SharedRests, SharedStep
<1>4. ASSUME NEW p \in Proc, OpenCommit(p) \/ WriteIndex(p) PROVE SharedInv'
  <2>1. UNCHANGED <<transcript, store>> /\ hook \in [Proc -> Hooks] /\ hook[p] \in Hooks
    BY <1>4, SoloTypes DEF OpenCommit, WriteIndex
  <2>2. ASSUME NEW pc \in {"index", "close", "fail"}, Goto(p, pc) PROVE SharedInv'
    <3>1. hook[p].pc \in Reads
      BY <1>4 DEF OpenCommit, WriteIndex, Reads
    <3> QED BY <2>1, <2>2, <3>1, SharedGoto
  <2>3. CASE /\ hook[p].pc = "commit"
             /\ hook' = [hook EXCEPT ![p] = [@ EXCEPT !.pc = "reconcile", !.result = "captured"]]
    <3>1. /\ hook'[p].pc = "reconcile" /\ hook'[p].len = hook[p].len
          /\ \A q \in Proc \ {p} : hook'[q] = hook[q]
      BY <2>1, <2>3 DEF Hooks
    <3>2. SharedHookOK(p)'
      BY <2>1, <2>3, <3>1 DEF SharedInv, SharedHookOK, Reads, Early
    <3> QED BY <2>1, <3>1, <3>2, SharedStep DEF store
  <2> QED BY <1>4, <2>2, <2>3 DEF OpenCommit, WriteIndex
<1>5. ASSUME NEW p \in Proc, Busy(p) \/ MarkBusy(p) PROVE SharedInv'
  <2>1. UNCHANGED <<transcript, store>> /\ hook \in [Proc -> Hooks] /\ hook[p] \in Hooks
    BY <1>5, SoloTypes DEF Busy, MarkBusy
  <2>2. hook'[p].pc \in {"idle", "mark", "fail"} /\ \A q \in Proc \ {p} : hook'[q] = hook[q]
    <3>1. CASE Goto(p, "fail")
      BY <2>1, <3>1 DEF Goto
    <3>2. CASE Answer(p, "failed", 0)
      BY <2>1, <3>2 DEF Answer
    <3>3. CASE Return(p)
      BY <2>1, <3>3 DEF Return, Hooks
    <3> QED BY <1>5, <3>1, <3>2, <3>3 DEF Busy, MarkBusy
  <2>3. SharedHookOK(p)' /\ receipts' = receipts /\ session' = session
    BY <2>1, <2>2, SharedRests DEF store
  <2> QED BY <2>2, <2>3, SharedStep
<1>6. CASE Host
  BY <1>1, <1>6 DEF Host, Tear, Record
<1>7. ASSUME NEW p \in Proc,
             \/ \E note \in Notifications : Notify(p, note)
             \/ ListReplayable(p)
             \/ \E r \in ReceiptIds : Replay(p, r)
      PROVE  SharedInv'
  <2>1. CASE \E note \in Notifications : Notify(p, note)
    BY <1>2, <2>1 DEF Notify
  <2>2. CASE ListReplayable(p)
    BY <1>1, <2>2 DEF ListReplayable
  <2>3. CASE \E r \in ReceiptIds : Replay(p, r)
    BY <1>2, <2>3 DEF Replay
  <2> QED BY <1>7, <2>1, <2>2, <2>3
<1>8. CASE UNCHANGED vars
  BY <1>1, <1>8 DEF vars
<1>9. ASSUME NEW p \in Proc, Handle(p), [Next]_vars PROVE SharedInv'
  <2>1. CASE LoadSession(p) \/ CheckReplayable(p) \/ TakeSnapshot(p) \/ SnapshotFails(p)
    BY <2>1, SharedEarly
  <2>2. CASE DecideBoundary(p) \/ NoOp(p) \/ CloseCommit(p)
    BY <2>2, SharedDecides, SharedNoOp, SharedCloseCommit
  <2>3. CASE BeginReceipt(p) \/ Reconcile(p) \/ MarkFailed(p) \/ MarkReconciled(p)
    BY <2>3, SharedSettles
  <2>4. CASE OpenCommit(p) \/ WriteIndex(p) \/ Busy(p) \/ MarkBusy(p)
    BY <1>4, <1>5, <2>4
  <2> QED BY <1>9, <2>1, <2>2, <2>3, <2>4 DEF Handle
<1> QED BY <1>3, <1>6, <1>7, <1>8, <1>9 DEF Next

\* However many hooks and commands overlap, and whichever is killed: every
\* finished response before the recorded size of the session row, and before
\* each boundary that a receipt has taken, is in a stored trace.  A hook that
\* answers no_op because the size has not changed, or because the boundary is
\* taken, is right.
THEOREM ProgressIsAlwaysBacked == Spec => []ProgressIsBacked
<1>1. SharedInv => ProgressIsBacked
  BY CoveredIsStored DEF SharedInv, SessionOK, BoundariesOK, ProgressIsBacked
<1>2. IInv /\ SharedInv /\ [Next]_vars => SharedInv'
  BY SharedNext
<1> QED BY <1>1, <1>2, SharedInit, Invariance, PTL DEF Spec
=============================================================================
