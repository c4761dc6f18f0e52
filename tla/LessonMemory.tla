---------------------------- MODULE LessonMemory ----------------------------
(***************************************************************************)
(* The lesson store of the GUI pipeline, shared by the threads of one      *)
(* process behind RWLock. Each addition may set off merges: a rule names   *)
(* lessons, they are popped, a language model writes their replacement.    *)
(* A lesson stands for the episodes it was distilled from (episodic_refs). *)
(***************************************************************************)
EXTENDS RWLock, Sequences

CONSTANTS
    Rules,      \* the bound rules in order, each "map" or "semantic"
    Threshold,  \* of MapMergeRule
    MaxLessons, \* bound on lessons created before a call of add
    MaxOps,     \* bound on the other calls
    MaxFaults   \* bound on failures of the database and the models

VARIABLES
    op,      \* what each thread is doing
    store,   \* the lessons in the database
    queued,  \* MapMergeRule.map for the one bucket modelled
    added,   \* number of lessons created so far: ids and episodes are drawn from it
    calls,   \* calls other than add
    faults,  \* failures so far
    acked,   \* history: episodes of the lessons whose add returned
    dropped, \* history: episodes of lessons that callers removed or replaced
    spoilt   \* history: episodes of lessons in a merge or an update that failed

ldata == <<op, store, queued, added, calls, faults, acked, dropped, spoilt>>
lvars == <<lockvars, ldata>>

Idle == [kind |-> "none", step |-> "none", node |-> 0, rule |-> 0, bucket |-> {}]

Refs(lessons) == UNION {l.refs : l \in lessons}

LessonInit ==
    /\ LockInit
    /\ op = [t \in Thread |-> Idle]
    /\ store = {} /\ queued = <<>> /\ added = 0 /\ calls = 0 /\ faults = 0
    /\ acked = {} /\ dropped = {} /\ spoilt = {}
-----------------------------------------------------------------------------
(* Calls and the lock around them: _read, _write                           *)

Begin(t) ==
    /\ op[t].kind = "none"
    /\ Ask(t)
    /\ \E kind \in {"add", "pop", "update", "clear", "get", "dump"} :
          /\ at'[t] = IF kind \in {"get", "dump"} THEN "askRead" ELSE "askWrite"
          /\ kind = "dump" => t \in Nested
          /\ op' = [op EXCEPT ![t].kind = kind, ![t].step = "first",
                              ![t].node = IF kind = "add" THEN added + 1 ELSE 0]
          /\ IF kind = "add" THEN added < MaxLessons /\ added' = added + 1 /\ UNCHANGED calls
             ELSE calls < MaxOps /\ calls' = calls + 1 /\ UNCHANGED added
    /\ UNCHANGED <<store, queued, faults, acked, dropped, spoilt>>

Lock(t) ==
    /\ AcquireRead(t) \/ AcquireWrite(t) \/ RetryWrite(t)
    /\ UNCHANGED ldata

\* get, len, iteration and retrieval read once and release.
Get(t) ==
    /\ op[t].kind = "get" /\ ReleaseRead(t)
    /\ op' = [op EXCEPT ![t] = Idle]
    /\ UNCHANGED <<store, queued, added, calls, faults, acked, dropped, spoilt>>

\* dump iterates over the memory, which reads again, while it holds the lock.
DumpLessons(t) ==
    /\ op[t].kind = "dump"
    /\ \/ op[t].step = "first" /\ Ask(t) /\ op' = [op EXCEPT ![t].step = "again"]
       \/ op[t].step = "again" /\ at[t] = "rereading" /\ ReleaseRead(t)
          /\ op' = [op EXCEPT ![t].step = "save"]
       \/ op[t].step = "save" /\ ReleaseRead(t) /\ op' = [op EXCEPT ![t] = Idle]
    /\ UNCHANGED <<store, queued, added, calls, faults, acked, dropped, spoilt>>

\* The end of a call under the write lock, by return or by exception.
EndCall(t) == ReleaseWrite(t) /\ op' = [op EXCEPT ![t] = Idle]

Fault == faults < MaxFaults /\ faults' = faults + 1
-----------------------------------------------------------------------------
(* Calls that write                                                        *)

\* pop and delete: one lesson, if it is there.
Pop(t) ==
    /\ op[t].kind = "pop" /\ EndCall(t)
    /\ \/ UNCHANGED <<store, dropped>>
       \/ \E l \in store : store' = store \ {l} /\ dropped' = dropped \cup l.refs
    /\ UNCHANGED <<queued, added, calls, faults, acked, spoilt>>

\* The old lesson is deleted, then the caller's is inserted under its id; the
\* database may refuse that one.
Update(t) ==
    /\ op[t].kind = "update" /\ EndCall(t)
    /\ \/ UNCHANGED <<store, faults, dropped, spoilt>>
       \/ \E l \in store :
             /\ store' = (store \ {l}) \cup {[l EXCEPT !.refs = {}]}
             /\ dropped' = dropped \cup l.refs
             /\ UNCHANGED <<faults, spoilt>>
       \/ \E l \in store :
             store' = store \ {l} /\ spoilt' = spoilt \cup l.refs /\ Fault /\ UNCHANGED dropped
    /\ UNCHANGED <<queued, added, calls, acked>>

Clear(t) ==
    /\ op[t].kind = "clear" /\ EndCall(t)
    /\ store' = {} /\ dropped' = dropped \cup Refs(store)
    /\ UNCHANGED <<queued, added, calls, faults, acked, spoilt>>

\* The lesson itself is stored, or its insertion failed three times.
Insert(t) ==
    /\ op[t].kind = "add" /\ op[t].step = "first" /\ at[t] = "writing"
    /\ \/ /\ store' = store \cup {[id |-> op[t].node, refs |-> {op[t].node}]}
          /\ op' = [op EXCEPT ![t].step = "rules", ![t].rule = 1]
          /\ UNCHANGED <<lockvars, faults>>
       \/ Fault /\ EndCall(t) /\ UNCHANGED store
    /\ UNCHANGED <<queued, added, calls, acked, dropped, spoilt>>

Named(ids) == {l \in store : \E i \in DOMAIN ids : l.id = ids[i]}

\* MapMergeRule: ids queue up; above the threshold all of them are due.
FireMap(t) ==
    LET ids == Append(queued, op[t].node)
        due == Len(ids) > Threshold
    IN  /\ queued' = IF due THEN <<>> ELSE ids
        /\ op' = [op EXCEPT ![t].bucket = IF due THEN Named(ids) ELSE {},
                            ![t].step = IF due THEN "merge" ELSE "rules",
                            ![t].rule = IF due THEN @ ELSE @ + 1]
        /\ store' = IF due THEN store \ Named(ids) ELSE store

\* SemanticMergeRule: the router finds any lessons close to this one, which
\* an earlier rule may have popped already.
FireSemantic(t) ==
    /\ \E near \in SUBSET {l \in store : l.id # op[t].node} :
          LET bucket == {l \in store : l.id = op[t].node} \cup near
          IN  IF near = {}
              THEN op' = [op EXCEPT ![t].rule = @ + 1] /\ UNCHANGED store
              ELSE /\ op' = [op EXCEPT ![t].bucket = bucket, ![t].step = "merge"]
                   /\ store' = store \ bucket
    /\ UNCHANGED queued

Fire(t) ==
    /\ op[t].step = "rules" /\ op[t].rule <= Len(Rules)
    /\ IF Rules[op[t].rule] = "map" THEN FireMap(t) ELSE FireSemantic(t)
    /\ UNCHANGED <<lockvars, added, calls, faults, acked, dropped, spoilt>>

\* Mutant: the replacement refers to the episodes of one of its lessons.
MutantReplacement(id, bucket) == [id |-> id, refs |-> (CHOOSE l \in bucket : TRUE).refs]

\* The refs of the popped lessons are united in what replaces them.
Replacement(id, bucket) == [id |-> id, refs |-> Refs(bucket)]

\* merge_func and the insertion of its result. A list of lessons all carry
\* the same refs and count as one here; above a threshold of 1 the model may
\* also answer with an empty list.
Merge(t) ==
    /\ op[t].step = "merge"
    /\ op' = [op EXCEPT ![t].bucket = {}, ![t].step = "rules", ![t].rule = @ + 1]
    /\ IF op[t].bucket = {}
       THEN UNCHANGED <<store, added, faults, spoilt>>
       ELSE \/ /\ store' = store \cup {Replacement(added + 1, op[t].bucket)}
               /\ added' = added + 1
               /\ UNCHANGED <<faults, spoilt>>
            \/ /\ Rules[op[t].rule] = "map" /\ Threshold > 1 /\ Fault
               /\ spoilt' = spoilt \cup Refs(op[t].bucket)
               /\ UNCHANGED <<store, added>>
    /\ UNCHANGED <<lockvars, queued, calls, acked, dropped>>

\* The model or the database fails: add raises, the popped lessons are gone.
MergeFails(t) ==
    /\ op[t].step = "merge" /\ op[t].bucket # {} /\ Fault /\ EndCall(t)
    /\ spoilt' = spoilt \cup Refs(op[t].bucket)
    /\ UNCHANGED <<store, queued, added, calls, acked, dropped>>

Return(t) ==
    /\ op[t].step = "rules" /\ op[t].rule > Len(Rules) /\ EndCall(t)
    /\ acked' = acked \cup {op[t].node}
    /\ UNCHANGED <<store, queued, added, calls, faults, dropped, spoilt>>
-----------------------------------------------------------------------------
LessonNext == \E t \in Thread :
    \/ Begin(t) \/ Lock(t) \/ Get(t) \/ DumpLessons(t)
    \/ Pop(t) \/ Update(t) \/ Clear(t)
    \/ Insert(t) \/ Fire(t) \/ Merge(t) \/ MergeFails(t) \/ Return(t)

LessonSpec == LessonInit /\ [][LessonNext]_lvars
-----------------------------------------------------------------------------
LessonTypeOK ==
    /\ at \in [Thread -> Place] /\ readers \in Nat /\ waiting \in Nat /\ writing \in BOOLEAN
    /\ \A l \in store : l.id \in 1..added /\ l.refs \subseteq 1..added
    /\ \A l, m \in store : l.id = m.id => l = m
    /\ \A t \in Thread : op[t].kind = "none" <=> at[t] = "out"

\* Whenever no writer is inside, so whenever a reader may look, the episode of
\* each lesson whose add returned is still referred to by a stored lesson,
\* through any chain of merges by several rules and threads, unless a caller
\* removed it or a merge or an update that took it out failed (add, _pop,
\* merge_func, _absorb_into_neighbor, _build_merged_fields).
AddedStaysReferred ==
    ~writing => acked \subseteq Refs(store) \cup dropped \cup spoilt
=============================================================================
