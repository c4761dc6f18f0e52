-------------------------- MODULE EvolvingTaxonomy --------------------------
(***************************************************************************)
(* The evolving taxonomy of the GUI package: cases one after the other,    *)
(* each changing the taxonomy, with an audit trail from which --resume     *)
(* rebuilds it after a crash or an error.                                  *)
(***************************************************************************)
EXTENDS Naturals, Sequences, FiniteSets

CONSTANTS
    Case,   \* 1 .. n, in the shuffled order
    Code,   \* codes of subtypes
    MaxEvolvingRuns,
    MaxCrashes

ASSUME EvolvingAssumption == IsFiniteSet(Case) /\ Case = 1..Cardinality(Case)

VARIABLES
    driver,   \* run_full_evolving_pipeline: where it is and its locals
    trail,    \* the lines of audit_trail.jsonl
    perCase,  \* rca_<case>.json: none, cut short, or the taxonomy it led to
    final,    \* final_taxonomy.json
    starts, crashes

evars == <<driver, trail, perCase, final, starts, crashes>>

\* A taxonomy is a set of subtypes; def is the case that defined one last.
Taxonomy == SUBSET [code : Code, def : Case]
Codes(tax) == {s.code : s \in tax}
KeptCodes(tax, codes) == {s \in tax : s.code \notin codes}
Defined(tax, codes, case) == KeptCodes(tax, codes) \cup {[code |-> c, def |-> case] : c \in codes}

\* A line is an audit entry, with or without the end of the line, or is no JSON.
BrokenLine == [case |-> 0, before |-> {}, after |-> {}, ended |-> TRUE]
CutShort == {[code |-> "cut", def |-> 0]}
NoResult == {[code |-> "none", def |-> 0]}

NotDriving == [pc |-> "off", idx |-> 0, tax |-> {}, done |-> {}, next |-> {}]

EvolvingInit ==
    /\ driver = NotDriving
    /\ trail = <<>> /\ final = {} /\ starts = 0 /\ crashes = 0
    /\ perCase = [c \in Case |-> NoResult]
-----------------------------------------------------------------------------
\* EDIT_RENAME and EDIT_SPLIT; the new codes may be codes already in use.
Split(tax, code, case) == {Defined(KeptCodes(tax, {code}), new, case) : new \in SUBSET Code}

\* EDIT_MERGE.
Merged(tax, code, case) ==
    {Defined(KeptCodes(tax, sources), {code}, case) : sources \in (SUBSET Codes(tax)) \ {{}}}

\* apply_op, with REUSE and DISCOVER_APPEND, which defines a code anew if need be.
Applied(tax, case) ==
    (IF tax = {} THEN {} ELSE {tax})
    \cup {Defined(tax, {c}, case) : c \in Code}
    \cup (UNION {Split(tax, c, case) : c \in Codes(tax)})
    \cup (UNION {Merged(tax, c, case) : c \in Code})

LastLine(lines) == lines[Len(lines)]

\* Mutant: the taxonomy of the first entry that is left is taken.
MutantRebuilt == IF trail = <<>> THEN {} ELSE trail[1].after

\* The state after the last entry of the trail.
Rebuilt == IF trail = <<>> THEN {} ELSE LastLine(trail).after

\* A run from scratch empties the trail; a resumed one parses each line of it.
StartEvolving ==
    /\ driver.pc = "off" /\ starts < MaxEvolvingRuns
    /\ starts' = starts + 1
    /\ \/ driver' = [NotDriving EXCEPT !.pc = "case", !.idx = 1] /\ trail' = <<>>
       \/ /\ trail # <<>> /\ \A i \in DOMAIN trail : trail[i] # BrokenLine
          /\ driver' = [pc |-> "case", idx |-> 1, tax |-> Rebuilt, next |-> {},
                        done |-> {trail[i].case : i \in DOMAIN trail}]
          /\ UNCHANGED trail
    /\ UNCHANGED <<perCase, final, crashes>>

\* Mutant: a case that is done is done again.
MutantRunCase ==
    /\ driver.pc = "case" /\ driver.idx \in Case
    /\ \/ driver' = [driver EXCEPT !.idx = @ + 1] /\ UNCHANGED perCase
       \/ /\ \E next \in Applied(driver.tax, driver.idx) :
                driver' = [driver EXCEPT !.pc = "result", !.next = next]
          /\ perCase' = [perCase EXCEPT ![driver.idx] = CutShort]
    /\ UNCHANGED <<trail, final, starts, crashes>>

\* A case is done already, has no trajectory, or fails; or the model finishes
\* it and its result file is opened.
RunCase ==
    /\ driver.pc = "case" /\ driver.idx \in Case
    /\ \/ driver' = [driver EXCEPT !.idx = @ + 1] /\ UNCHANGED perCase
       \/ /\ driver.idx \notin driver.done
          /\ \E next \in Applied(driver.tax, driver.idx) :
                driver' = [driver EXCEPT !.pc = "result", !.next = next]
          /\ perCase' = [perCase EXCEPT ![driver.idx] = CutShort]
    /\ UNCHANGED <<trail, final, starts, crashes>>

WriteCase ==
    /\ driver.pc = "result"
    /\ perCase' = [perCase EXCEPT ![driver.idx] = driver.next]
    /\ driver' = [driver EXCEPT !.pc = "audit"]
    /\ UNCHANGED <<trail, final, starts, crashes>>

\* An entry appended to a line that has no end spoils that line too.
Appended(entry) ==
    IF trail # <<>> /\ ~LastLine(trail).ended
    THEN [trail EXCEPT ![Len(trail)] = BrokenLine] ELSE Append(trail, entry)

AuditEntry(ended) ==
    [case |-> driver.idx, before |-> driver.tax, after |-> driver.next, ended |-> ended]

Audit ==
    /\ driver.pc = "audit"
    /\ trail' = Appended(AuditEntry(TRUE))
    /\ driver' = [driver EXCEPT !.pc = "case", !.idx = @ + 1, !.tax = driver.next, !.next = {}]
    /\ UNCHANGED <<perCase, final, starts, crashes>>

FinishEvolving ==
    /\ driver.pc = "case" /\ driver.idx \notin Case
    /\ final' = driver.tax /\ driver' = NotDriving
    /\ UNCHANGED <<trail, perCase, starts, crashes>>

\* A crash may leave an entry that is appended without its end, or cut short.
CrashEvolving ==
    /\ driver.pc # "off" /\ crashes < MaxCrashes
    /\ crashes' = crashes + 1 /\ driver' = NotDriving
    /\ \/ UNCHANGED trail
       \/ /\ driver.pc = "audit"
          /\ trail' \in {Appended(AuditEntry(FALSE)), Appended(BrokenLine)}
    /\ UNCHANGED <<perCase, final, starts>>
-----------------------------------------------------------------------------
EvolvingNext == StartEvolving \/ RunCase \/ WriteCase \/ Audit \/ FinishEvolving \/ CrashEvolving

EvolvingSpec == EvolvingInit /\ [][EvolvingNext]_evars
-----------------------------------------------------------------------------
Whole(i) == trail[i] # BrokenLine

\* The entries of the trail form one history: each starts from the taxonomy
\* the one before it ended with, no case is in it twice, and the driver goes on
\* from the last, over any sequence of runs, resumptions, errors and crashes
\* (run_full_evolving_pipeline).
TrailIsAChain ==
    /\ \A i \in 2..Len(trail) : Whole(i) /\ Whole(i - 1) => trail[i].before = trail[i - 1].after
    /\ \A i, j \in DOMAIN trail : Whole(i) /\ Whole(j) /\ trail[i].case = trail[j].case => i = j
    /\ trail # <<>> /\ Whole(1) => trail[1].before = {}
    /\ driver.pc # "off" /\ trail # <<>> /\ Whole(Len(trail)) => driver.tax = Rebuilt

\* An audited case has its result on disk, whole and from the same decision;
\* a case that a crash left half done has none that the trail names
\* (the order of the two writes in run_full_evolving_pipeline).
AuditedHasResult ==
    \A i \in DOMAIN trail : Whole(i) => perCase[trail[i].case] = trail[i].after
=============================================================================
