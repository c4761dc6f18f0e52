----------------------------- MODULE Attribution -----------------------------
(***************************************************************************)
(* What is to blame for one failed trajectory: the ensemble runs its       *)
(* backends in turn, each of which ranks events, most of them by asking a  *)
(* language model that may fail or answer nonsense, and merges what they   *)
(* say into one ranking. Several events may belong to one step.            *)
(***************************************************************************)
EXTENDS Integers, Sequences, FiniteSets, SequencesExt

CONSTANTS
    MaxEvents,     \* bound on the length of a trajectory
    Numberings,    \* how the events of a trajectory may be numbered by steps
    MaxFindings,   \* bound on the findings of the detectors
    Ensembles,     \* the sequences of backends considered
    MaxScan,       \* max_steps of step_by_step
    MaxCandidates, \* max_candidates of counterfactual
    MaxBackends,   \* max_backends of the budget
    TopK,          \* top_k of the ensemble, and of sbfl
    LastPlace,     \* 10**9, where the sorts put an event without a step
    Confidence     \* confidences and probabilities, in tenths

NoStep == -1  \* no step_index

ASSUME AttributionAssumption ==
    /\ {MaxEvents, MaxFindings, MaxBackends} \subseteq Nat
    /\ {MaxScan, MaxCandidates, TopK, LastPlace} \subseteq Nat \ {0}
    /\ Confidence \subseteq 0..10
    /\ \A f \in Numberings :
          /\ \E n \in 0..MaxEvents : f \in [0..(n - 1) -> Int]
          /\ \A e \in DOMAIN f : f[e] = NoStep \/ f[e] \in 0..(LastPlace - 1)

VARIABLES
    events,      \* the number of events; they are 0, ..., events - 1
    step_index,  \* of each event
    root,        \* history: the event that is really to blame
    findings,    \* the event and the step each finding of the detectors names
    errors,      \* the events that recorded an error
    ensemble,    \* backends, NO_FALLBACK, merge strategy
    place,       \* the backend whose turn it is
    work,        \* what it is doing
    reported,    \* per_backend
    verdict      \* what attribute() returns or raises

avars == <<events, step_index, root, findings, errors, ensemble, place, work, reported, verdict>>

Event == 0..(events - 1)
NoEvent == -1  \* no span, or one that is no event's
StepIndex == Range(step_index) \cup {NoStep}

\* What a blame names, and the key of a row of the merge.
Row(e) == [span |-> e, step |-> step_index[e]]
Blame(row, c) == [row |-> row, conf |-> c]

\* lo and hi: the segment of binary_search. left: what is still to be asked
\* about. truthful: whether the model named the right half each time.
NoWork == [kind |-> "none", retried |-> FALSE, lo |-> 0, hi |-> 0, probes |-> 0,
           truthful |-> TRUE, left |-> <<>>, hyps |-> <<>>]
Undecided == [how |-> "pending", blamed |-> <<>>]

AttributionInit ==
    /\ events \in 0..MaxEvents /\ step_index \in {f \in Numberings : DOMAIN f = Event}
    /\ root \in (IF events = 0 THEN {0} ELSE Event)
    /\ findings \in UNION {[1..n -> [span : Event \cup {NoEvent}, step : StepIndex]] : n \in 0..MaxFindings}
    /\ errors \in {{}} \cup {{e} : e \in Event}
    /\ ensemble \in [backends : Ensembles, refuse : BOOLEAN, merge : {"borda", "bayesian"}]
    /\ place = 1 /\ work = NoWork /\ reported = <<>> /\ verdict = Undecided

given == <<events, step_index, root, findings, errors, ensemble>>
-----------------------------------------------------------------------------
(* What a backend ends with                                                *)

\* The pairs of elements of S of which the first comes before the second.
Pairs(S, Before(_, _)) == {p \in S \X S : Before(p[1], p[2])}

\* The first n of S in the order R: k - 1 others come before the k-th.
FirstOf(n, S, R) ==
    [k \in 1..(IF Cardinality(S) < n THEN Cardinality(S) ELSE n) |->
        CHOOSE x \in S : Cardinality({y \in S : <<y, x>> \in R}) = k - 1]

\* The hypotheses in the order R of their places.
Arranged(hyps, R) ==
    LET order == FirstOf(Len(hyps), DOMAIN hyps, R)
    IN  [k \in DOMAIN hyps |-> hyps[order[k]]]

\* Where a step comes in a sort by steps.
StepOrLast(s) == IF s = NoStep THEN LastPlace ELSE s

\* step_by_step: by step, those of one step as they came; a sort is stable.
ByStep(hyps) ==
    LET Sooner(j, k) == \/ StepOrLast(hyps[j].row.step) < StepOrLast(hyps[k].row.step)
                        \/ StepOrLast(hyps[j].row.step) = StepOrLast(hyps[k].row.step) /\ j < k
    IN  Arranged(hyps, Pairs(DOMAIN hyps, Sooner))

\* counterfactual. turn: how hypotheses of equal probability go by their
\* confidence, and those of equal confidence as they came.
ByRescue(hyps, turn) ==
    LET Surer(j, k) == \/ hyps[j].conf > hyps[k].conf
                       \/ hyps[j].conf = hyps[k].conf /\ turn[j] < turn[k]
    IN  Arranged(hyps, Pairs(DOMAIN hyps, Surer))

Turns(hyps) == {f \in [DOMAIN hyps -> DOMAIN hyps] : IsInjective(f)}

Report(w, hyps, own) ==
    /\ reported' = Append(reported, [by |-> w.kind, hyps |-> hyps, own |-> own,
                                   probes |-> w.probes, truthful |-> w.truthful])
    /\ place' = place + 1 /\ work' = NoWork

\* The findings of the earliest step; their confidences decide among them.
Earliest == {f \in ToSet(findings) : \A g \in ToSet(findings) : StepOrLast(f.step) <= StepOrLast(g.step)}

\* An earliest finding, with whatever confidence the detector gave it.
Heuristic == IF findings = <<>> THEN {<<>>} ELSE {<<Blame(f, c)>> : f \in Earliest, c \in Confidence}

\* The fallback of a backend. NO_FALLBACK raises, and the ensemble goes on
\* without the backend; the heuristic's ranking passes for the backend's own.
Substitute(w) ==
    IF ensemble.refuse
    THEN place' = place + 1 /\ work' = NoWork /\ UNCHANGED reported
    ELSE \E hyps \in Heuristic : Report(w, hyps, FALSE)

\* A backend goes on with w: it asks, it reports, or it has nothing to report.
Proceed(w) ==
    \/ /\ \/ w.kind = "all_at_once"
          \/ w.kind = "binary_search" /\ w.lo < w.hi
          \/ w.left # <<>>
       /\ work' = w /\ UNCHANGED <<place, reported>>
    \/ /\ w.kind = "binary_search" /\ w.lo = w.hi
       /\ Report(w, <<Blame(Row(w.lo), 6 + (IF w.probes < 4 THEN w.probes ELSE 4))>>, TRUE)
    \/ /\ w.kind = "step_by_step" /\ w.left = <<>> /\ events > 0
       /\ Report(w, ByStep(w.hyps), TRUE)
    \/ /\ w.kind = "counterfactual" /\ w.left = <<>> /\ w.hyps # <<>>
       /\ \E turn \in Turns(w.hyps) : Report(w, ByRescue(w.hyps, turn), TRUE)
    \/ /\ \/ w.kind = "binary_search" /\ w.lo > w.hi
          \/ w.kind = "step_by_step" /\ events = 0
          \/ w.kind = "counterfactual" /\ w.left = <<>> /\ w.hyps = <<>>
       /\ Substitute(w)
-----------------------------------------------------------------------------
(* The backends                                                            *)

Scanned == [k \in 1..(IF events < MaxScan THEN events ELSE MaxScan) |-> k - 1]

\* _pick_candidates: the findings, the errors in order, then from the end.
Candidates ==
    LET Naming(e) == {k \in DOMAIN findings : findings[k].span = e}
        Turn(e) == IF Naming(e) # {} THEN CHOOSE k \in Naming(e) : \A j \in Naming(e) : k <= j
                   ELSE IF e \in errors THEN Len(findings) + 1 + e
                   ELSE Len(findings) + 2 * events - e
    IN  FirstOf(MaxCandidates, Event, Pairs(Event, LAMBDA d, e : Turn(d) < Turn(e)))

\* sbfl ranks the events with a positive score; of equal ones the earlier step
\* goes first, except that "step_index or 10**9" puts step 0 last.
Spectrum(score) ==
    LET Late(e) == IF step_index[e] = 0 THEN LastPlace ELSE StepOrLast(step_index[e])
        Above(d, e) == \/ score[d] > score[e]
                       \/ score[d] = score[e] /\ Late(d) < Late(e)
                       \/ score[d] = score[e] /\ Late(d) = Late(e) /\ d < e
        ranked == FirstOf(TopK, {e \in Event : score[e] > 0}, Pairs(Event, Above))
    IN  [k \in DOMAIN ranked |-> Blame(Row(ranked[k]), score[ranked[k]])]

Begun(kind) == [NoWork EXCEPT
    !.kind = kind, !.hi = events - 1,
    !.left = IF kind = "step_by_step" THEN Scanned
             ELSE IF kind = "counterfactual" THEN Candidates ELSE <<>>]

\* The loop of EnsembleAttributor.attribute, up to the budget of backends.
BeginBackend ==
    /\ verdict = Undecided /\ work = NoWork
    /\ place <= Len(ensemble.backends) /\ Len(reported) < MaxBackends
    /\ LET w == Begun(ensemble.backends[place])
       IN  \/ w.kind = "heuristic" /\ \E hyps \in Heuristic : Report(w, hyps, TRUE)
           \/ /\ w.kind = "sbfl"
              /\ \E score \in [Event -> Confidence \cup {0}] :
                    IF Spectrum(score) = <<>> THEN Substitute(w) ELSE Report(w, Spectrum(score), TRUE)
           \/ w.kind \notin {"heuristic", "sbfl"} /\ Proceed(w)
    /\ UNCHANGED <<given, verdict>>

\* A call that raises is made once more, but for counterfactual.
CallRaises ==
    /\ work # NoWork /\ work.kind # "counterfactual" /\ ~work.retried
    /\ work' = [work EXCEPT !.retried = TRUE]
    /\ UNCHANGED <<given, place, reported, verdict>>

Onward(w) == [w EXCEPT !.retried = FALSE, !.left = Tail(@)]

\* The second call raises too, or the answer cannot be read.
NoAnswer ==
    /\ work # NoWork
    /\ IF work.kind \in {"all_at_once", "binary_search"} THEN Substitute(work) ELSE Proceed(Onward(work))
    /\ UNCHANGED <<given, verdict>>

\* What an answer of all_at_once names once _normalize_blame has looked it up:
\* an event, under the step the model named if the event has none of its own,
\* or nothing that can be found.
Answers ==
    {Row(e) : e \in Event}
    \cup {[span |-> e, step |-> s] : e \in {d \in Event : step_index[d] = NoStep}, s \in StepIndex}
    \cup {[span |-> NoEvent, step |-> s] : s \in {NoStep, LastPlace}}

\* _prefer_supported_finding may move it to a finding of the same step.
Anchored(row) == {row} \cup {f \in ToSet(findings) : f.span # NoEvent /\ f.step = row.step}

AnswerAllAtOnce ==
    /\ work.kind = "all_at_once"
    /\ \E row \in UNION {Anchored(r) : r \in Answers}, c \in Confidence :
          Report(work, <<Blame(row, c)>>, TRUE)
    /\ UNCHANGED <<given, verdict>>

\* Mutant: the first event alone is set against the others.
MutantUpperSize(n) == 1

\* The size of the upper half of a segment of n events.
UpperSize(n) == IF n \div 2 > 1 THEN n \div 2 ELSE 1

\* The events the model is shown as the upper half.
ShownAsUpper(lo, hi) == lo..(lo + UpperSize(hi - lo + 1) - 1)

\* Mutant: one event more than the model was shown.
MutantMid(lo, hi) == lo + UpperSize(hi - lo + 1)

\* The last event of the segment that is searched when it names the upper half.
Mid(lo, hi) == lo + UpperSize(hi - lo + 1) - 1

AnswerHalf ==
    /\ work.kind = "binary_search"
    /\ \E upper \in BOOLEAN :
          LET mid == Mid(work.lo, work.hi)
              right == upper = (root \in ShownAsUpper(work.lo, work.hi))
          IN  Proceed([work EXCEPT !.lo = IF upper THEN @ ELSE mid + 1,
                                !.hi = IF upper THEN mid ELSE @,
                                !.probes = @ + 1, !.retried = FALSE,
                                !.truthful = @ /\ right])
    /\ UNCHANGED <<given, verdict>>

\* step_by_step keeps the events that are called failures.
AnswerStep ==
    /\ work.kind = "step_by_step"
    /\ \/ Proceed(Onward(work))
       \/ \E c \in Confidence :
             Proceed([Onward(work) EXCEPT !.hyps = Append(@, Blame(Row(Head(work.left)), c))])
    /\ UNCHANGED <<given, verdict>>

\* counterfactual keeps every candidate that got a probability.
AnswerRescue ==
    /\ work.kind = "counterfactual"
    /\ \E c \in Confidence :
          Proceed([Onward(work) EXCEPT !.hyps = Append(@, Blame(Row(Head(work.left)), c))])
    /\ UNCHANGED <<given, verdict>>
-----------------------------------------------------------------------------
(* The merge                                                               *)

\* Mutant: the last of n hypotheses gets the most points.
MutantBorda(n, rank) == rank

\* The first of n hypotheses gets n points, the last gets one.
Borda(n, rank) == n - rank + 1

\* The sum of a sequence.
SumOf(f) ==
    LET to[k \in 0..Len(f)] == IF k = 0 THEN 0 ELSE to[k - 1] + f[k]
    IN  to[Len(f)]

\* What the backends' hypotheses that name this row add up to. Backends that
\* name one step by different events name different rows.
Total(row, Of(_, _)) ==
    SumOf([i \in DOMAIN reported |->
              LET hyps == reported[i].hyps
              IN  SumOf([k \in DOMAIN hyps |-> IF hyps[k].row = row THEN Of(hyps, k) ELSE 0])])
Points(row) == Total(row, LAMBDA hyps, k : Borda(Len(hyps), k))
Conviction(row) == Total(row, LAMBDA hyps, k : hyps[k].conf)

\* The probability that no backend is right about it, on a common scale.
Doubt(row) ==
    FoldLeft(LAMBDA d, r : FoldLeft(LAMBDA e, h : e * (IF h.row = row THEN 10 - h.conf ELSE 10), d, r.hyps),
             1, reported)

\* The rows, and their order: that of the first mention.
Rows == UNION {{reported[i].hyps[k].row : k \in DOMAIN reported[i].hyps} : i \in DOMAIN reported}
NamedBefore(r, t) ==
    \E i \in DOMAIN reported : \E k \in DOMAIN reported[i].hyps :
        /\ reported[i].hyps[k].row = r
        /\ \A j \in 1..i : \A l \in DOMAIN reported[j].hyps :
              reported[j].hyps[l].row = t => j = i /\ k < l

Ranking ==
    LET score == [r \in Rows |-> IF ensemble.merge = "borda" THEN Points(r) ELSE -Doubt(r)]
        Above(r, t) == \/ score[r] > score[t]
                       \/ /\ score[r] = score[t]
                          /\ \/ Conviction(r) > Conviction(t)
                             \/ Conviction(r) = Conviction(t) /\ NamedBefore(r, t)
    IN  FirstOf(TopK, Rows, Pairs(Rows, Above))

\* The backends are done, or the budget is: the seconds may be at any time.
Conclude ==
    /\ verdict = Undecided /\ work = NoWork
    /\ \/ Rows # {} /\ verdict' = [how |-> "merged", blamed |-> Ranking]
       \/ Rows = {} /\ ~ensemble.refuse
          /\ \E hyps \in Heuristic :
                verdict' = [how |-> "fallback", blamed |-> [k \in DOMAIN hyps |-> hyps[k].row]]
       \/ Rows = {} /\ ensemble.refuse /\ verdict' = [Undecided EXCEPT !.how = "unavailable"]
    /\ UNCHANGED <<given, place, work, reported>>
-----------------------------------------------------------------------------
AttributionNext ==
    BeginBackend \/ CallRaises \/ NoAnswer \/ AnswerAllAtOnce \/ AnswerHalf \/ AnswerStep
    \/ AnswerRescue \/ Conclude

AttributionSpec == AttributionInit /\ [][AttributionNext]_avars

\* What binary_search itself reports is the event to blame, if the model named
\* the right half each time it was asked ("the decisive step lives inside the
\* current inclusive segment", class BinarySearchAttributor): the halves that
\* are shown are the halves that are searched.
BisectFindsRoot ==
    \A i \in DOMAIN reported :
        reported[i].by = "binary_search" /\ reported[i].own /\ reported[i].truthful
            => reported[i].hyps[1].row = Row(root)

PowerOfTwo[n \in Nat] == IF n = 0 THEN 1 ELSE 2 * PowerOfTwo[n - 1]

\* It asks once for each time the trajectory can be halved, whatever is
\* answered ("Costs O(log N) LLM calls").
BisectIsLogarithmic ==
    \A i \in DOMAIN reported :
        reported[i].probes > 0 => PowerOfTwo[reported[i].probes - 1] < events

\* A row (an event and its step, the merge's key) that all backends that blame
\* any rank first is first in the Borda ranking, however many rows each of them
\* ranks and however confident it is. Backends that put the same step first but
\* different events of it have not agreed: another step may then come first.
AgreedIsFirst ==
    verdict.how = "merged" /\ ensemble.merge = "borda" =>
        \A row \in Rows :
            (\A i \in DOMAIN reported : reported[i].hyps # <<>> => reported[i].hyps[1].row = row)
                => verdict.blamed[1] = row
=============================================================================
