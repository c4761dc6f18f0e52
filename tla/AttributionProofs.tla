-------------------------- MODULE AttributionProofs --------------------------
(***************************************************************************)
(* The search by halves finds the event to blame, and asks a logarithmic   *)
(* number of questions, for trajectories of any length and any ensemble;   *)
(* and the merge keeps first the row that all backends put first.          *)
(***************************************************************************)
EXTENDS Attribution, FiniteSetTheorems, SequenceTheorems, WellFoundedInduction, TLAPS

\* The fields of what a backend is doing.
Field == {"kind", "retried", "lo", "hi", "probes", "truthful", "left", "hyps"}
IsWork(w) == w = [f \in Field |-> w[f]]

\* What the search has left, while the model has told the truth.
SegmentHasRoot ==
    work.kind = "binary_search" =>
        /\ work.lo \in Nat /\ work.hi \in Nat /\ work.lo < work.hi /\ work.left = <<>>
        /\ work.truthful => root \in work.lo..work.hi

\* The reports are a sequence, of whatever.
ReportsAreASequence == \E S : reported \in Seq(S)

AInv ==
    /\ root \in Nat /\ events \in Nat /\ (events > 0 => root < events)
    /\ IsWork(work) /\ SegmentHasRoot /\ ReportsAreASequence /\ BisectFindsRoot

\* A report that is added is harmless unless it is binary_search's own.
LEMMA AddedReport ==
    ASSUME NEW r, ReportsAreASequence, BisectFindsRoot, UNCHANGED <<root, step_index>>,
           reported' = Append(reported, r),
           r.by = "binary_search" /\ r.own /\ r.truthful => r.hyps[1].row = Row(root)
    PROVE  ReportsAreASequence' /\ BisectFindsRoot'
<1>1. PICK S : reported \in Seq(S)
  BY DEF ReportsAreASequence
<1>2. reported \in Seq(S \cup {r}) /\ r \in S \cup {r}
  BY <1>1
<1>3. /\ reported' \in Seq(S \cup {r})
      /\ Len(reported') = Len(reported) + 1 /\ Len(reported) \in Nat
      /\ \A i \in 1..Len(reported) : reported'[i] = reported[i]
      /\ reported'[Len(reported) + 1] = r
  BY <1>2
<1>4. ReportsAreASequence'
  BY <1>3 DEF ReportsAreASequence
<1>5. \A i \in DOMAIN reported' : i \in DOMAIN reported \/ reported'[i] = r
  <2>1. DOMAIN reported' = 1..Len(reported') /\ DOMAIN reported = 1..Len(reported)
    BY <1>1, <1>3
  <2> QED BY <2>1, <1>3
<1>6. \A i \in DOMAIN reported : reported'[i] = reported[i]
  BY <1>1, <1>3
<1> QED BY <1>4, <1>5, <1>6 DEF BisectFindsRoot, Row

\* What Report does, whatever w is.
LEMMA ReportKeeps ==
    ASSUME NEW w, NEW hyps, NEW own, AInv, UNCHANGED given,
           Report(w, hyps, own),
           w.kind = "binary_search" /\ own /\ w.truthful => hyps[1].row = Row(root)
    PROVE  AInv'
<1> DEFINE r == [by |-> w.kind, hyps |-> hyps, own |-> own,
                 probes |-> w.probes, truthful |-> w.truthful]
<1>1. reported' = Append(reported, r) /\ work' = NoWork
  BY DEF Report
<1>2. r.by = w.kind /\ r.own = own /\ r.truthful = w.truthful /\ r.hyps = hyps
  OBVIOUS
<1>3. UNCHANGED <<root, events, step_index>>
  BY DEF given
<1>4. ReportsAreASequence' /\ BisectFindsRoot'
  <2> HIDE DEF r
  <2> QED BY <1>1, <1>2, <1>3, AddedReport DEF AInv
<1>5. IsWork(work') /\ SegmentHasRoot'
  BY <1>1 DEF SegmentHasRoot, NoWork, IsWork, Field
<1> QED BY <1>3, <1>4, <1>5 DEF AInv

LEMMA SubstituteKeeps ==
    ASSUME NEW w, AInv, UNCHANGED given, Substitute(w)
    PROVE  AInv'
<1>1. CASE ensemble.refuse
  BY <1>1 DEF Substitute, AInv, IsWork, Field, SegmentHasRoot, NoWork, ReportsAreASequence, BisectFindsRoot, Row, given
<1>2. CASE ~ensemble.refuse
  <2>1. PICK h \in Heuristic : Report(w, h, FALSE)
    BY <1>2 DEF Substitute
  <2> QED BY <2>1, ReportKeeps
<1> QED BY <1>1, <1>2

\* A backend goes on with a segment that has the root, or with none.
LEMMA GoesOn ==
    ASSUME NEW w, AInv, UNCHANGED given, Proceed(w), IsWork(w),
           w.kind = "binary_search" =>
               /\ w.lo \in Nat /\ w.hi \in Int /\ w.left = <<>>
               /\ w.lo <= w.hi /\ w.truthful => root \in w.lo..w.hi
    PROVE  AInv'
<1>1. CASE /\ \/ w.kind = "all_at_once"
              \/ w.kind = "binary_search" /\ w.lo < w.hi
              \/ w.left # <<>>
           /\ work' = w /\ UNCHANGED <<place, reported>>
  BY <1>1 DEF AInv, SegmentHasRoot, ReportsAreASequence, BisectFindsRoot, Row, given
<1>2. CASE /\ w.kind = "binary_search" /\ w.lo = w.hi
           /\ Report(w, <<Blame(Row(w.lo), 6 + (IF w.probes < 4 THEN w.probes ELSE 4))>>, TRUE)
  <2> DEFINE hyps == <<Blame(Row(w.lo), 6 + (IF w.probes < 4 THEN w.probes ELSE 4))>>
  <2>1. hyps[1].row = Row(w.lo)
    BY DEF Blame
  <2>2. w.truthful => w.lo = root
    BY <1>2 DEF AInv
  <2> QED BY <1>2, <2>1, <2>2, ReportKeeps
<1>3. CASE w.kind = "step_by_step" /\ Report(w, ByStep(w.hyps), TRUE)
  BY <1>3, ReportKeeps
<1>4. CASE w.kind = "counterfactual" /\ \E turn : Report(w, ByRescue(w.hyps, turn), TRUE)
  BY <1>4, ReportKeeps
<1>5. CASE Substitute(w)
  BY <1>5, SubstituteKeeps
<1> QED BY <1>1, <1>2, <1>3, <1>4, <1>5 DEF Proceed

\* Both computations of the middle agree, and both halves have an event.
LEMMA Halves ==
    ASSUME NEW lo \in Nat, NEW hi \in Nat, lo < hi
    PROVE  /\ Mid(lo, hi) \in Nat /\ lo <= Mid(lo, hi) /\ Mid(lo, hi) < hi
           /\ ShownAsUpper(lo, hi) = lo..Mid(lo, hi)
<1> DEFINE n == hi - lo + 1
<1>1. n \in Nat /\ n >= 2
  OBVIOUS
<1>2. n \div 2 \in Nat /\ n \div 2 < n
  BY <1>1
<1>3. UpperSize(n) \in Nat /\ 1 <= UpperSize(n) /\ UpperSize(n) < n
  <2> HIDE DEF n
  <2> QED BY <1>1, <1>2 DEF UpperSize
<1> QED BY <1>3 DEF Mid, ShownAsUpper

LEMMA InitAInv == AttributionInit => AInv
<1> SUFFICES ASSUME AttributionInit PROVE AInv
  OBVIOUS
<1>1. events \in Nat /\ root \in Nat /\ (events > 0 => root < events)
  BY AttributionAssumption DEF AttributionInit, Event
<1>2. IsWork(work) /\ SegmentHasRoot
  BY DEF AttributionInit, SegmentHasRoot, NoWork, IsWork, Field
<1>3. reported = <<>>
  BY DEF AttributionInit
<1>4. ReportsAreASequence /\ BisectFindsRoot
  <2>1. reported \in Seq({})
    BY <1>3
  <2> QED BY <1>3, <2>1 DEF ReportsAreASequence, BisectFindsRoot
<1> QED BY <1>1, <1>2, <1>4 DEF AInv

LEMMA NextAInv == AInv /\ [AttributionNext]_avars => AInv'
<1> SUFFICES ASSUME AInv, [AttributionNext]_avars PROVE AInv'
  OBVIOUS
<1>1. CASE BeginBackend
  <2> DEFINE w == Begun(ensemble.backends[place])
  <2>1. UNCHANGED given
    BY <1>1 DEF BeginBackend
  <2>2. CASE w.kind = "heuristic" /\ \E h \in Heuristic : Report(w, h, TRUE)
    <3> HIDE DEF w
    <3>1. PICK h \in Heuristic : Report(w, h, TRUE)
      BY <2>2
    <3> QED BY <2>1, <2>2, <3>1, ReportKeeps
  <2>3. CASE /\ w.kind = "sbfl"
             /\ \E score \in [Event -> Confidence \cup {0}] :
                   IF Spectrum(score) = <<>> THEN Substitute(w) ELSE Report(w, Spectrum(score), TRUE)
    <3> HIDE DEF w
    <3>1. PICK score : IF Spectrum(score) = <<>> THEN Substitute(w) ELSE Report(w, Spectrum(score), TRUE)
      BY <2>3
    <3>2. CASE Spectrum(score) = <<>>
      BY <2>1, <3>1, <3>2, SubstituteKeeps
    <3>3. CASE Spectrum(score) # <<>>
      BY <2>1, <2>3, <3>1, <3>3, ReportKeeps
    <3> QED BY <3>2, <3>3
  <2>4. CASE Proceed(w)
    <3>1. w.lo = 0 /\ w.hi = events - 1
      BY DEF Begun, NoWork
    <3>2. w.kind = "binary_search" => w.left = <<>>
      BY DEF Begun, NoWork
    <3>4. IsWork(w)
      BY DEF IsWork, Field, Begun, NoWork
    <3>3. w.lo \in Nat /\ w.hi \in Int /\ (w.lo <= w.hi => root \in w.lo..w.hi)
      BY <3>1 DEF AInv
    <3> HIDE DEF w
    <3> QED BY <2>1, <2>4, <3>2, <3>3, <3>4, GoesOn
  <2> QED BY <1>1, <2>2, <2>3, <2>4 DEF BeginBackend
<1>2. CASE CallRaises
  BY <1>2 DEF CallRaises, AInv, IsWork, SegmentHasRoot, ReportsAreASequence, BisectFindsRoot, Row, given
<1>3. CASE NoAnswer
  <2>1. CASE work.kind \in {"all_at_once", "binary_search"}
    BY <1>3, <2>1, SubstituteKeeps DEF NoAnswer
  <2>2. CASE work.kind \notin {"all_at_once", "binary_search"}
    <3>1. Proceed(Onward(work)) /\ UNCHANGED given
      BY <1>3, <2>2 DEF NoAnswer
    <3>2. Onward(work).kind # "binary_search" /\ IsWork(Onward(work))
      BY <2>2 DEF Onward, AInv, IsWork, Field
    <3> QED BY <3>1, <3>2, GoesOn
  <2> QED BY <2>1, <2>2
<1>4. CASE AnswerAllAtOnce
  <2>1. PICK s, c : Report(work, <<Blame(s, c)>>, TRUE)
    BY <1>4 DEF AnswerAllAtOnce
  <2> QED BY <1>4, <2>1, ReportKeeps DEF AnswerAllAtOnce
<1>5. CASE AnswerHalf
  <2> DEFINE mid == Mid(work.lo, work.hi)
             right(upper) == upper = (root \in ShownAsUpper(work.lo, work.hi))
             w(upper) == [work EXCEPT !.lo = IF upper THEN @ ELSE mid + 1,
                                      !.hi = IF upper THEN mid ELSE @,
                                      !.probes = @ + 1, !.retried = FALSE,
                                      !.truthful = @ /\ right(upper)]
  <2>1. PICK upper \in BOOLEAN : Proceed(w(upper))
    BY <1>5 DEF AnswerHalf
  <2>2. /\ work.lo \in Nat /\ work.hi \in Nat /\ work.lo < work.hi /\ work.left = <<>>
        /\ work.truthful => root \in work.lo..work.hi
    BY <1>5 DEF AnswerHalf, AInv, SegmentHasRoot
  <2>3. /\ mid \in Nat /\ work.lo <= mid /\ mid < work.hi
        /\ ShownAsUpper(work.lo, work.hi) = work.lo..mid
    BY <2>2, Halves
  <2>4. /\ w(upper).lo = IF upper THEN work.lo ELSE mid + 1
        /\ w(upper).hi = IF upper THEN mid ELSE work.hi
        /\ w(upper).truthful = (work.truthful /\ right(upper))
        /\ w(upper).left = work.left
        /\ IsWork(w(upper))
    <3> HIDE DEF mid, right
    <3> QED BY DEF AInv, IsWork, Field
  <2>5. w(upper).truthful => root \in w(upper).lo..w(upper).hi
    <3>1. right(upper) = (upper = (root \in work.lo..mid))
      BY <2>3
    <3>2. root \in Nat
      BY DEF AInv
    <3> HIDE DEF w, mid, right
    <3>3. SUFFICES ASSUME w(upper).truthful PROVE root \in w(upper).lo..w(upper).hi
      OBVIOUS
    <3>4. work.truthful /\ right(upper)
      BY <2>4, <3>3
    <3>5. root \in work.lo..work.hi
      BY <2>2, <3>4
    <3>6. upper <=> root \in work.lo..mid
      BY <3>1, <3>4
    <3>7. CASE upper
      BY <2>4, <3>6, <3>7
    <3>8. CASE ~upper
      BY <2>2, <2>3, <2>4, <3>2, <3>5, <3>6, <3>8
    <3> QED BY <3>7, <3>8
  <2>6. /\ w(upper).lo \in Nat /\ w(upper).hi \in Int /\ w(upper).left = <<>>
    <3> HIDE DEF w, mid
    <3> QED BY <2>2, <2>3, <2>4
  <2>7. UNCHANGED given
    BY <1>5 DEF AnswerHalf
  <2> HIDE DEF w
  <2> QED BY <2>1, <2>4, <2>5, <2>6, <2>7, GoesOn
<1>6. CASE AnswerStep
  <2>1. PICK w : /\ Proceed(w)
                 /\ \/ w = Onward(work)
                    \/ \E c : w = [Onward(work) EXCEPT !.hyps = Append(@, Blame(Row(Head(work.left)), c))]
    BY <1>6 DEF AnswerStep
  <2>2. w.kind # "binary_search" /\ IsWork(w)
    BY <1>6, <2>1 DEF AnswerStep, Onward, AInv, IsWork, Field
  <2> QED BY <1>6, <2>1, <2>2, GoesOn DEF AnswerStep
<1>7. CASE AnswerRescue
  <2>1. PICK c : Proceed([Onward(work) EXCEPT !.hyps = Append(@, Blame(Row(Head(work.left)), c))])
    BY <1>7 DEF AnswerRescue
  <2> DEFINE w == [Onward(work) EXCEPT !.hyps = Append(@, Blame(Row(Head(work.left)), c))]
  <2>2. w.kind # "binary_search" /\ IsWork(w)
    BY <1>7 DEF AnswerRescue, Onward, AInv, IsWork, Field
  <2> HIDE DEF w
  <2>3. Proceed(w)
    BY <2>1 DEF w
  <2> QED BY <1>7, <2>2, <2>3, GoesOn DEF AnswerRescue
<1>8. CASE Conclude
  BY <1>8 DEF Conclude, AInv, IsWork, SegmentHasRoot, ReportsAreASequence, BisectFindsRoot, Row, given
<1>9. CASE UNCHANGED avars
  BY <1>9 DEF avars, AInv, IsWork, SegmentHasRoot, ReportsAreASequence, BisectFindsRoot, Row
<1> QED BY <1>1, <1>2, <1>3, <1>4, <1>5, <1>6, <1>7, <1>8, <1>9 DEF AttributionNext

\* If the model names the right half each time, binary_search reports the event
\* that is to blame.
THEOREM BisectFindsRootHolds == AttributionSpec => []BisectFindsRoot
<1>1. AInv => BisectFindsRoot
  BY DEF AInv
<1> QED BY <1>1, InitAInv, NextAInv, PTL DEF AttributionSpec

-----------------------------------------------------------------------------
(* The search asks a number of questions logarithmic in the events.         *)

\* What holds of 0 and of n + 1 when it holds of n holds of all.
LEMMA NaturalsFrom ==
    ASSUME NEW S \in SUBSET Nat, 0 \in S, \A n \in S : n + 1 \in S
    PROVE  S = Nat
<1> DEFINE T == Nat \ S
<1> SUFFICES ASSUME T # {} PROVE FALSE
  OBVIOUS
<1>1. T \subseteq Nat /\ IsWellFoundedOn(OpToRel(<, Nat), Nat)
  BY NatLessThanWellFounded
<1>2. PICK n \in T : \A m \in T : ~(<<m, n>> \in OpToRel(<, Nat))
  <2> HIDE DEF T
  <2> QED BY <1>1, WFMin
<1>3. n \in Nat /\ n \notin S /\ n - 1 \in Nat /\ n - 1 < n
  BY n \in Nat \ S
<1>4. <<n - 1, n>> \in OpToRel(<, Nat)
  BY <1>3 DEF OpToRel
<1>5. n - 1 \in S
  BY <1>2, <1>3, <1>4
<1>6. (n - 1) + 1 \in S
  BY <1>5
<1> QED BY <1>3, <1>6

Doubles(g, n) == g \in [0..n -> Nat] /\ g[0] = 1 /\ \A i \in 1..n : g[i] = 2 * g[i - 1]

LEMMA DoublesExist == \A n \in Nat : \E g : Doubles(g, n)
<1> DEFINE S == {n \in Nat : \E g : Doubles(g, n)}
<1>1. 0 \in S
  <2>1. Doubles([i \in 0..0 |-> 1], 0)
    BY DEF Doubles
  <2> QED BY <2>1
<1>2. ASSUME NEW n \in S PROVE n + 1 \in S
  <2>1. PICK g : Doubles(g, n)
    OBVIOUS
  <2> DEFINE h == [i \in 0..(n + 1) |-> IF i = n + 1 THEN 2 * g[n] ELSE g[i]]
  <2>2. g \in [0..n -> Nat] /\ g[n] \in Nat
    BY <2>1 DEF Doubles
  <2>3. h \in [0..(n + 1) -> Nat]
    BY <2>2
  <2>4. h[0] = 1
    BY <2>1 DEF Doubles
  <2>5. \A i \in 1..(n + 1) : h[i] = 2 * h[i - 1]
    BY <2>1 DEF Doubles
  <2>6. Doubles(h, n + 1)
    BY <2>3, <2>4, <2>5 DEF Doubles
  <2> QED BY <2>6
<1>3. S = Nat
  BY <1>1, <1>2, NaturalsFrom
<1> QED BY <1>3

LEMMA DoublesAgree ==
    ASSUME NEW m \in Nat, NEW n \in Nat, NEW g, NEW h, Doubles(g, m), Doubles(h, n)
    PROVE  \A i \in Nat : i <= m /\ i <= n => g[i] = h[i]
<1> DEFINE S == {i \in Nat : i <= m /\ i <= n => g[i] = h[i]}
<1>1. 0 \in S
  BY DEF Doubles
<1>2. ASSUME NEW i \in S PROVE i + 1 \in S
  <2>1. i + 1 <= m /\ i + 1 <= n => g[i + 1] = 2 * g[i] /\ h[i + 1] = 2 * h[i]
    BY DEF Doubles
  <2> QED BY <2>1
<1>3. S = Nat
  BY <1>1, <1>2, NaturalsFrom
<1> QED BY <1>3

LEMMA PowerOfTwoIs ==
    PowerOfTwo = [n \in Nat |-> IF n = 0 THEN 1 ELSE 2 * PowerOfTwo[n - 1]]
<1> DEFINE G(n) == CHOOSE g : Doubles(g, n)
           f == [n \in Nat |-> G(n)[n]]
<1>1. \A n \in Nat : Doubles(G(n), n)
  BY DoublesExist
<1>2. ASSUME NEW n \in Nat PROVE f[n] = IF n = 0 THEN 1 ELSE 2 * f[n - 1]
  <2>1. CASE n = 0
    BY <1>1, <2>1 DEF Doubles
  <2>2. CASE n # 0
    <3>1. n - 1 \in Nat /\ n - 1 <= n /\ n \in 1..n
      BY <2>2
    <3>2. Doubles(G(n), n) /\ Doubles(G(n - 1), n - 1)
      BY <1>1, <3>1
    <3> HIDE DEF G
    <3>3. G(n)[n - 1] = G(n - 1)[n - 1]
      BY <3>1, <3>2, DoublesAgree
    <3>4. G(n)[n] = 2 * G(n)[n - 1]
      BY <3>1, <3>2 DEF Doubles
    <3> QED BY <2>2, <3>1, <3>3, <3>4
  <2> QED BY <2>1, <2>2
<1> HIDE DEF G
<1>3. f = [n \in Nat |-> IF n = 0 THEN 1 ELSE 2 * f[n - 1]]
  <2> HIDE DEF f
  <2>1. f = [n \in Nat |-> f[n]]
    BY DEF f
  <2> QED BY <1>2, <2>1
<1>4. \E p : p = [n \in Nat |-> IF n = 0 THEN 1 ELSE 2 * p[n - 1]]
  BY <1>3
<1> QED BY <1>4 DEF PowerOfTwo

LEMMA PowersDouble ==
    /\ PowerOfTwo[0] = 1
    /\ \A n \in Nat : PowerOfTwo[n + 1] = 2 * PowerOfTwo[n] /\ PowerOfTwo[n] \in Nat
<1>1. \A n \in Nat : PowerOfTwo[n] = IF n = 0 THEN 1 ELSE 2 * PowerOfTwo[n - 1]
  BY PowerOfTwoIs
<1>2. PowerOfTwo[0] = 1
  BY <1>1
<1>3. \A n \in Nat : PowerOfTwo[n + 1] = 2 * PowerOfTwo[n]
  BY <1>1
<1> DEFINE S == {n \in Nat : PowerOfTwo[n] \in Nat}
<1>4. 0 \in S
  BY <1>2
<1>5. ASSUME NEW n \in S PROVE n + 1 \in S
  BY <1>3
<1>6. S = Nat
  BY <1>4, <1>5, NaturalsFrom
<1>7. \A n \in Nat : PowerOfTwo[n] \in Nat
  BY <1>6
<1> HIDE DEF S
<1> QED BY <1>2, <1>3, <1>7

\* The questions asked so far, p, fit in the trajectory, the last one too.
Fits(p) == p \in Nat /\ (p > 0 => PowerOfTwo[p - 1] < events)

\* What the search has left has been halved once for each question.
SegmentHalved(w) ==
    /\ Fits(w.probes)
    /\ w.kind = "binary_search" /\ w.lo <= w.hi =>
          (w.hi - w.lo) * PowerOfTwo[w.probes] <= events - 1

HalvingInv == SegmentHalved(work) /\ BisectIsLogarithmic

LEMMA ReportHalves ==
    ASSUME NEW w, NEW hyps, NEW own, AInv, HalvingInv, UNCHANGED given,
           Report(w, hyps, own), Fits(w.probes)
    PROVE  HalvingInv'
<1> DEFINE r == [by |-> w.kind, hyps |-> hyps, own |-> own,
                 probes |-> w.probes, truthful |-> w.truthful]
<1>1. reported' = Append(reported, r) /\ work' = NoWork /\ r.probes = w.probes /\ events' = events
  BY DEF Report, given
<1> HIDE DEF r
<1>2. PICK S : reported \in Seq(S)
  BY DEF AInv, ReportsAreASequence
<1>3. \A i \in DOMAIN reported' :
         \/ reported'[i] = r
         \/ i \in DOMAIN reported /\ reported'[i] = reported[i]
  <2>1. reported \in Seq(S \cup {r}) /\ r \in S \cup {r}
    BY <1>2
  <2>2. DOMAIN reported' = 1..(Len(reported) + 1) /\ DOMAIN reported = 1..Len(reported)
    BY <1>1, <2>1
  <2>3. Len(reported) \in Nat /\ reported'[Len(reported) + 1] = r
        /\ \A i \in 1..Len(reported) : reported'[i] = reported[i]
    BY <1>1, <2>1
  <2> QED BY <2>2, <2>3
<1>4. BisectIsLogarithmic'
  BY <1>1, <1>3 DEF HalvingInv, BisectIsLogarithmic, Fits
<1>5. SegmentHalved(work)'
  BY <1>1 DEF SegmentHalved, NoWork, Fits
<1> QED BY <1>4, <1>5 DEF HalvingInv

\* Nothing is reported.
LEMMA NothingReported ==
    ASSUME HalvingInv, UNCHANGED <<events, reported>>, SegmentHalved(work')
    PROVE  HalvingInv'
BY DEF HalvingInv, SegmentHalved, Fits, BisectIsLogarithmic

LEMMA NoWorkHalved == SegmentHalved(NoWork)
BY DEF SegmentHalved, NoWork, Fits

LEMMA SubstituteHalves ==
    ASSUME NEW w, AInv, HalvingInv, UNCHANGED given, Substitute(w), Fits(w.probes)
    PROVE  HalvingInv'
<1>1. CASE ensemble.refuse
  <2>1. work' = NoWork /\ UNCHANGED <<events, reported>>
    BY <1>1 DEF Substitute, given
  <2> QED BY <2>1, NoWorkHalved, NothingReported
<1>2. CASE ~ensemble.refuse
  <2>1. PICK h \in Heuristic : Report(w, h, FALSE)
    BY <1>2 DEF Substitute
  <2> QED BY <2>1, ReportHalves DEF Report
<1> QED BY <1>1, <1>2

LEMMA GoesOnHalved ==
    ASSUME NEW w, AInv, HalvingInv, UNCHANGED given, Proceed(w), SegmentHalved(w)
    PROVE  HalvingInv'
<1>1. Fits(w.probes)
  BY DEF SegmentHalved
<1>2. CASE work' = w /\ UNCHANGED <<place, reported>>
  BY <1>2, NothingReported DEF given
<1>3. ASSUME NEW hyps, Report(w, hyps, TRUE) PROVE HalvingInv'
  BY <1>1, <1>3, ReportHalves
<1>4. CASE Substitute(w)
  BY <1>1, <1>4, SubstituteHalves
<1> QED BY <1>2, <1>3, <1>4 DEF Proceed

\* Either half has at most half the distance between its ends.
LEMMA HalfIsShorter ==
    ASSUME NEW lo \in Nat, NEW hi \in Nat, lo < hi
    PROVE  /\ 2 * (Mid(lo, hi) - lo) <= hi - lo
           /\ 2 * (hi - (Mid(lo, hi) + 1)) <= hi - lo
<1> DEFINE n == hi - lo + 1
<1>1. n \in Nat /\ n >= 2
  OBVIOUS
<1>2. UpperSize(n) \in Nat /\ 2 * UpperSize(n) <= n /\ n <= 2 * UpperSize(n) + 1
  <2> HIDE DEF n
  <2> QED BY <1>1 DEF UpperSize
<1>3. Mid(lo, hi) = lo + UpperSize(n) - 1
  BY DEF Mid
<1>4. n = hi - lo + 1
  OBVIOUS
<1> HIDE DEF n
<1> QED BY <1>1, <1>2, <1>3, <1>4

LEMMA ProductHalved ==
    ASSUME NEW a \in Nat, NEW b \in Nat, NEW p \in Nat, 2 * a <= b
    PROVE  a * (2 * p) <= b * p
<1>1. a * (2 * p) = (2 * a) * p
  OBVIOUS
<1>2. \A c, d \in Nat : c <= d => c * p <= d * p
  OBVIOUS
<1> QED BY <1>1, <1>2

LEMMA HalvingStarts == AttributionInit => HalvingInv
<1> SUFFICES ASSUME AttributionInit PROVE HalvingInv
  OBVIOUS
<1>1. work = NoWork /\ reported = <<>>
  BY DEF AttributionInit
<1> QED BY <1>1, NoWorkHalved DEF HalvingInv, BisectIsLogarithmic

LEMMA AnswerHalfHalves ==
    ASSUME AInv, HalvingInv, AnswerHalf
    PROVE  HalvingInv'
<1> DEFINE mid == Mid(work.lo, work.hi)
           right(upper) == upper = (root \in ShownAsUpper(work.lo, work.hi))
           w(upper) == [work EXCEPT !.lo = IF upper THEN @ ELSE mid + 1,
                                    !.hi = IF upper THEN mid ELSE @,
                                    !.probes = @ + 1, !.retried = FALSE,
                                    !.truthful = @ /\ right(upper)]
           p == work.probes
<1>1. PICK upper \in BOOLEAN : Proceed(w(upper))
  BY DEF AnswerHalf
<1>2. /\ work.lo \in Nat /\ work.hi \in Nat /\ work.lo < work.hi
      /\ work.kind = "binary_search" /\ events \in Nat
  BY DEF AnswerHalf, AInv, SegmentHasRoot
<1>3. /\ mid \in Nat /\ work.lo <= mid /\ mid < work.hi
      /\ 2 * (mid - work.lo) <= work.hi - work.lo
      /\ 2 * (work.hi - (mid + 1)) <= work.hi - work.lo
  BY <1>2, Halves, HalfIsShorter
<1>4. /\ w(upper).lo = IF upper THEN work.lo ELSE mid + 1
      /\ w(upper).hi = IF upper THEN mid ELSE work.hi
      /\ w(upper).probes = p + 1
  <2> HIDE DEF mid, right
  <2> QED BY DEF AInv, IsWork, Field
<1>5. p \in Nat /\ (work.hi - work.lo) * PowerOfTwo[p] <= events - 1
  BY <1>2 DEF HalvingInv, SegmentHalved, Fits
<1>6. PowerOfTwo[p] \in Nat /\ PowerOfTwo[p + 1] = 2 * PowerOfTwo[p]
  BY <1>5, PowersDouble
<1>7. PowerOfTwo[p] <= (work.hi - work.lo) * PowerOfTwo[p]
  <2>1. \A a, q \in Nat : a >= 1 => q <= a * q
    OBVIOUS
  <2>2. work.hi - work.lo \in Nat /\ work.hi - work.lo >= 1
    BY <1>2
  <2> HIDE DEF p
  <2> QED BY <1>6, <2>1, <2>2
<1>8. Fits(p + 1)
  <2>1. (work.hi - work.lo) * PowerOfTwo[p] \in Int
    BY <1>2, <1>6
  <2>2. PowerOfTwo[p] < events
    BY <1>2, <1>5, <1>6, <1>7, <2>1
  <2> HIDE DEF p
  <2> QED BY <1>5, <2>2 DEF Fits
<1>9. (w(upper).hi - w(upper).lo) * PowerOfTwo[p + 1] <= events - 1
  <2> DEFINE a == w(upper).hi - w(upper).lo
             b == work.hi - work.lo
  <2>1. a \in Nat /\ b \in Nat /\ 2 * a <= b
    <3> HIDE DEF mid, w
    <3> QED BY <1>2, <1>3, <1>4
  <2> HIDE DEF a, p, w, mid
  <2>2. a * (2 * PowerOfTwo[p]) <= b * PowerOfTwo[p]
    BY <1>6, <2>1, ProductHalved
  <2>3. a * PowerOfTwo[p + 1] <= events - 1
    <3>1. b * PowerOfTwo[p] \in Int /\ a * PowerOfTwo[p + 1] \in Int
      BY <1>6, <2>1
    <3>2. a * PowerOfTwo[p + 1] <= b * PowerOfTwo[p]
      BY <1>6, <2>2
    <3> QED BY <1>2, <1>5, <3>1, <3>2
  <2> QED BY <2>3 DEF a
<1>10. SegmentHalved(w(upper))
  <2> HIDE DEF w, p
  <2> QED BY <1>4, <1>8, <1>9 DEF SegmentHalved
<1>11. UNCHANGED given
  BY DEF AnswerHalf
<1> HIDE DEF w
<1> QED BY <1>1, <1>10, <1>11, GoesOnHalved

LEMMA HalvingStep == AInv /\ HalvingInv /\ [AttributionNext]_avars => HalvingInv'
<1> SUFFICES ASSUME AInv, HalvingInv, [AttributionNext]_avars PROVE HalvingInv'
  OBVIOUS
<1>0. Fits(work.probes)
  BY DEF HalvingInv, SegmentHalved
<1>1. CASE BeginBackend
  <2> DEFINE w == Begun(ensemble.backends[place])
  <2>1. UNCHANGED given
    BY <1>1 DEF BeginBackend
  <2>2. w.probes = 0 /\ w.lo = 0 /\ w.hi = events - 1
    BY DEF Begun, NoWork
  <2>3. Fits(w.probes)
    BY <2>2 DEF Fits
  <2> HIDE DEF w
  <2>4. SegmentHalved(w)
    <3>1. (events - 1) - 0 = events - 1 /\ (events - 1) * 1 = events - 1 /\ events \in Nat
      BY DEF AInv
    <3> QED BY <2>2, <2>3, <3>1, PowersDouble DEF SegmentHalved
  <2>5. CASE \E h \in Heuristic : Report(w, h, TRUE)
    BY <2>1, <2>3, <2>5, ReportHalves
  <2>6. CASE \E score \in [Event -> Confidence \cup {0}] :
                IF Spectrum(score) = <<>> THEN Substitute(w) ELSE Report(w, Spectrum(score), TRUE)
    BY <2>1, <2>3, <2>6, ReportHalves, SubstituteHalves
  <2>7. CASE Proceed(w)
    BY <2>1, <2>4, <2>7, GoesOnHalved
  <2> QED BY <1>1, <2>5, <2>6, <2>7 DEF BeginBackend, w
<1>2. CASE CallRaises
  <2>1. /\ work'.kind = work.kind /\ work'.lo = work.lo /\ work'.hi = work.hi
        /\ work'.probes = work.probes
    BY <1>2 DEF CallRaises, AInv, IsWork, Field
  <2>2. UNCHANGED <<events, reported>>
    BY <1>2 DEF CallRaises, given
  <2>3. SegmentHalved(work')
    BY <2>1 DEF HalvingInv, SegmentHalved
  <2> QED BY <2>2, <2>3, NothingReported
<1>3. \A w : w.kind # "binary_search" /\ w.probes = work.probes => SegmentHalved(w)
  BY <1>0 DEF SegmentHalved
<1>4. work.kind # "binary_search" =>
         /\ Onward(work).kind # "binary_search" /\ Onward(work).probes = work.probes
         /\ \A h : [Onward(work) EXCEPT !.hyps = Append(@, h)].kind # "binary_search"
         /\ \A h : [Onward(work) EXCEPT !.hyps = Append(@, h)].probes = work.probes
  BY DEF Onward, AInv, IsWork, Field
<1>5. CASE NoAnswer
  <2>1. CASE work.kind \in {"all_at_once", "binary_search"}
    BY <1>0, <1>5, <2>1, SubstituteHalves DEF NoAnswer
  <2>2. CASE work.kind \notin {"all_at_once", "binary_search"}
    <3>1. Proceed(Onward(work)) /\ UNCHANGED given
      BY <1>5, <2>2 DEF NoAnswer
    <3> QED BY <1>3, <1>4, <2>2, <3>1, GoesOnHalved
  <2> QED BY <2>1, <2>2
<1>6. CASE AnswerAllAtOnce
  BY <1>0, <1>6, ReportHalves DEF AnswerAllAtOnce
<1>7. CASE AnswerHalf
  BY <1>7, AnswerHalfHalves
<1>8. CASE AnswerStep
  <2>1. PICK w : /\ Proceed(w)
                 /\ \/ w = Onward(work)
                    \/ \E h : w = [Onward(work) EXCEPT !.hyps = Append(@, h)]
    BY <1>8 DEF AnswerStep
  <2>2. w.kind # "binary_search" /\ w.probes = work.probes
    BY <1>4, <1>8, <2>1 DEF AnswerStep
  <2> QED BY <1>3, <1>8, <2>1, <2>2, GoesOnHalved DEF AnswerStep
<1>9. CASE AnswerRescue
  <2>1. PICK h : Proceed([Onward(work) EXCEPT !.hyps = Append(@, h)])
    BY <1>9 DEF AnswerRescue
  <2> DEFINE w == [Onward(work) EXCEPT !.hyps = Append(@, h)]
  <2>2. w.kind # "binary_search" /\ w.probes = work.probes
    BY <1>4, <1>9 DEF AnswerRescue
  <2>3. Proceed(w)
    BY <2>1
  <2> HIDE DEF w
  <2> QED BY <1>3, <1>9, <2>2, <2>3, GoesOnHalved DEF AnswerRescue
<1>10. CASE Conclude
  <2>1. UNCHANGED <<events, reported, work>>
    BY <1>10 DEF Conclude, given
  <2> QED BY <2>1, NothingReported DEF HalvingInv
<1>11. CASE UNCHANGED avars
  <2>1. UNCHANGED <<events, reported, work>>
    BY <1>11 DEF avars
  <2> QED BY <2>1, NothingReported DEF HalvingInv
<1> QED BY <1>1, <1>2, <1>5, <1>6, <1>7, <1>8, <1>9, <1>10, <1>11 DEF AttributionNext

\* Whatever the model answers, binary_search asks no more questions than the
\* trajectory can be halved, for trajectories of any length.
THEOREM BisectIsLogarithmicHolds == AttributionSpec => []BisectIsLogarithmic
<1>1. AInv /\ HalvingInv /\ [AttributionNext]_avars => AInv' /\ HalvingInv'
  BY NextAInv, HalvingStep
<1>2. AInv /\ HalvingInv => BisectIsLogarithmic
  BY DEF HalvingInv
<1> QED BY <1>1, <1>2, InitAInv, HalvingStarts, PTL DEF AttributionSpec
-----------------------------------------------------------------------------
(* Sums, and the first elements of a set in an order.                      *)

Steps(f, a, g, n) == f[0] = a /\ \A k \in 1..n : f[k] = f[k - 1] + g[k]

LEMMA StepsExist ==
    ASSUME NEW n \in Nat, NEW g \in [1..n -> Nat]
    PROVE  \E f \in [0..n -> Nat] : Steps(f, 0, g, n)
<1> DEFINE Possible(m) == \E f \in [0..m -> Nat] : Steps(f, 0, g, m)
           T == {m \in Nat : m <= n => Possible(m)}
<1>1. 0 \in T
  <2>1. [k \in 0..0 |-> 0] \in [0..0 -> Nat] /\ Steps([k \in 0..0 |-> 0], 0, g, 0)
    BY DEF Steps
  <2> QED BY <2>1
<1>2. ASSUME NEW m \in Nat, m + 1 <= n, Possible(m) PROVE Possible(m + 1)
  <2>1. PICK f \in [0..m -> Nat] : Steps(f, 0, g, m)
    BY <1>2
  <2> DEFINE h == [k \in 0..(m + 1) |-> IF k = m + 1 THEN f[m] + g[m + 1] ELSE f[k]]
  <2>2. g[m + 1] \in Nat /\ f[m] \in Nat
    BY <1>2
  <2>3. h \in [0..(m + 1) -> Nat]
    BY <2>2
  <2>4. h[0] = 0
    BY <2>1 DEF Steps
  <2>5. ASSUME NEW k \in 1..(m + 1) PROVE h[k] = h[k - 1] + g[k]
    <3>1. m \in Nat /\ k \in 0..(m + 1) /\ k - 1 \in 0..(m + 1) /\ k - 1 # m + 1
      OBVIOUS
    <3>2. CASE k = m + 1
      <4>1. h[k] = f[m] + g[m + 1] /\ h[k - 1] = f[k - 1] /\ k - 1 = m
        BY <3>1, <3>2
      <4> QED BY <3>2, <4>1
    <3>3. CASE k # m + 1
      <4>1. h[k] = f[k] /\ h[k - 1] = f[k - 1]
        BY <3>1, <3>3
      <4>2. k \in 1..m
        BY <3>1, <3>3
      <4>3. f[k] = f[k - 1] + g[k]
        BY <2>1, <4>2 DEF Steps
      <4> QED BY <4>1, <4>3
    <3> QED BY <3>2, <3>3
  <2>6. Steps(h, 0, g, m + 1)
    BY <2>4, <2>5 DEF Steps
  <2> QED BY <2>3, <2>6
<1>3. ASSUME NEW m \in T PROVE m + 1 \in T
  <2>1. m \in Nat /\ (m + 1 <= n => m <= n)
    OBVIOUS
  <2> HIDE DEF Possible
  <2> QED BY <1>2, <2>1
<1>4. T = Nat
  <2> HIDE DEF Possible
  <2> QED BY <1>1, <1>3, NaturalsFrom
<1>5. Possible(n)
  <2>1. n \in T
    <3> HIDE DEF T
    <3> QED BY <1>4
  <2> HIDE DEF Possible
  <2> QED BY <2>1
<1> QED BY <1>5

\* The sum is the last of the partial sums.
LEMMA SumIs ==
    ASSUME NEW n \in Nat, NEW g \in [1..n -> Nat]
    PROVE  \E f \in [0..n -> Nat] : Steps(f, 0, g, n) /\ SumOf(g) = f[n]
<1>1. Len(g) = n
  <2>1. g \in Seq(Nat)
    BY SeqDef
  <2> QED BY <2>1, LenProperties
<1> DEFINE Is(h) == h = [k \in 0..n |-> IF k = 0 THEN 0 ELSE h[k - 1] + g[k]]
           to == CHOOSE h : Is(h)
<1>2. SumOf(g) = to[n]
  BY <1>1 DEF SumOf
<1>3. PICK f \in [0..n -> Nat] : Steps(f, 0, g, n)
  BY StepsExist
<1>4. f = [k \in 0..n |-> IF k = 0 THEN 0 ELSE f[k - 1] + g[k]]
  BY <1>3 DEF Steps
<1>5. Is(f)
  BY <1>4
<1>6. Is(to)
  <2> HIDE DEF Is
  <2> QED BY <1>5
<1>7. \A k \in 0..n : to[k] = IF k = 0 THEN 0 ELSE to[k - 1] + g[k]
  <2> HIDE DEF to
  <2> QED BY <1>6
<1>8. DOMAIN to = 0..n
  <2> HIDE DEF to
  <2> QED BY <1>6
<1>9. to = [k \in 0..n |-> to[k]]
  <2> HIDE DEF to
  <2> QED BY <1>6
<1> HIDE DEF to
<1> DEFINE T == {k \in Nat : k <= n => to[k] = f[k]}
<1>10. 0 \in T
  BY <1>3, <1>7 DEF Steps
<1>11. ASSUME NEW k \in T PROVE k + 1 \in T
  <2> SUFFICES ASSUME k + 1 <= n PROVE to[k + 1] = f[k + 1]
    OBVIOUS
  <2>1. k + 1 \in 0..n /\ k + 1 \in 1..n /\ k + 1 # 0 /\ (k + 1) - 1 = k /\ to[k] = f[k]
    OBVIOUS
  <2>2. to[k + 1] = to[k] + g[k + 1]
    BY <1>7, <2>1
  <2>3. f[k + 1] = f[k] + g[k + 1]
    BY <1>3, <2>1 DEF Steps
  <2> QED BY <2>1, <2>2, <2>3
<1>12. T = Nat
  BY <1>10, <1>11, NaturalsFrom
<1>13. to[n] = f[n]
  <2>1. n \in T
    BY <1>12
  <2> QED BY <2>1
<1>14. Steps(f, 0, g, n) /\ SumOf(g) = f[n]
  BY <1>2, <1>3, <1>13
<1> HIDE DEF T, Is
<1> QED BY <1>14, Zenon

\* A sum of smaller terms is smaller, and less if one of them is less.
LEMMA SumGrows ==
    ASSUME NEW n \in Nat, NEW f \in [1..n -> Nat], NEW g \in [1..n -> Nat],
           \A k \in 1..n : f[k] <= g[k]
    PROVE  /\ SumOf(f) \in Nat /\ SumOf(g) \in Nat /\ SumOf(f) <= SumOf(g)
           /\ (\E k \in 1..n : f[k] < g[k]) => SumOf(f) < SumOf(g)
<1>1. PICK a \in [0..n -> Nat] : Steps(a, 0, f, n) /\ SumOf(f) = a[n]
  BY SumIs
<1>2. PICK b \in [0..n -> Nat] : Steps(b, 0, g, n) /\ SumOf(g) = b[n]
  BY SumIs
<1> DEFINE Less(k) == \E j \in 1..k : f[j] < g[j]
           Held(k) == a[k] <= b[k] /\ (Less(k) => a[k] < b[k])
           T == {k \in Nat : k <= n => Held(k)}
<1>3. Held(0)
  BY <1>1, <1>2 DEF Steps
<1>4. ASSUME NEW k \in Nat, k + 1 <= n, Held(k) PROVE Held(k + 1)
  <2>1. k + 1 \in 1..n /\ k \in 0..n /\ k + 1 \in 0..n /\ (k + 1) - 1 = k
    BY <1>4
  <2>2. a[k + 1] = a[k] + f[k + 1] /\ b[k + 1] = b[k] + g[k + 1]
    BY <1>1, <1>2, <2>1 DEF Steps
  <2>3. f[k + 1] <= g[k + 1] /\ a[k] \in Nat /\ b[k] \in Nat /\ f[k + 1] \in Nat /\ g[k + 1] \in Nat
    BY <2>1
  <2>4. \A p, q, x, y \in Nat : p <= q /\ x <= y => p + x <= q + y
    OBVIOUS
  <2>5. \A p, q, x, y \in Nat : p <= q /\ x <= y /\ (p < q \/ x < y) => p + x < q + y
    OBVIOUS
  <2>6. Less(k + 1) => f[k + 1] < g[k + 1] \/ Less(k)
    BY <2>1
  <2> HIDE DEF Less
  <2>7. a[k + 1] <= b[k + 1]
    BY <1>4, <2>2, <2>3, <2>4
  <2>8. a[k] < b[k] \/ f[k + 1] < g[k + 1] => a[k + 1] < b[k + 1]
    BY <1>4, <2>2, <2>3, <2>5
  <2> QED BY <1>4, <2>6, <2>7, <2>8
<1>5. T = Nat
  <2> HIDE DEF Held
  <2>1. 0 \in T
    BY <1>3
  <2>2. ASSUME NEW k \in T PROVE k + 1 \in T
    <3>1. k \in Nat /\ (k + 1 <= n => k <= n)
      OBVIOUS
    <3> QED BY <1>4, <3>1
  <2>3. T \in SUBSET Nat
    OBVIOUS
  <2> HIDE DEF T
  <2> QED BY <2>1, <2>2, <2>3, NaturalsFrom
<1>6. Held(n)
  <2>1. n \in T
    <3> HIDE DEF T
    <3> QED BY <1>5
  <2> HIDE DEF Held
  <2> QED BY <2>1
<1> QED BY <1>1, <1>2, <1>6

\* A sum of which one term alone counts.
LEMMA SumOfOne ==
    ASSUME NEW n \in Nat, NEW f \in [1..n -> Nat], NEW j \in 0..n,
           \A k \in 1..n : k # j => f[k] = 0
    PROVE  SumOf(f) = IF j = 0 THEN 0 ELSE f[j]
<1>1. PICK a \in [0..n -> Nat] : Steps(a, 0, f, n) /\ SumOf(f) = a[n]
  BY SumIs
<1> DEFINE T == {k \in Nat : k <= n => a[k] = IF j = 0 \/ k < j THEN 0 ELSE f[j]}
<1>2. 0 \in T
  BY <1>1 DEF Steps
<1>3. ASSUME NEW k \in T PROVE k + 1 \in T
  <2> SUFFICES ASSUME k + 1 <= n
               PROVE  a[k + 1] = IF j = 0 \/ k + 1 < j THEN 0 ELSE f[j]
    OBVIOUS
  <2>1. a[k + 1] = a[k] + f[k + 1] /\ a[k] = IF j = 0 \/ k < j THEN 0 ELSE f[j]
    BY <1>1 DEF Steps
  <2>2. k + 1 # j => f[k + 1] = 0
    OBVIOUS
  <2>3. j # 0 => f[j] \in Nat
    OBVIOUS
  <2> QED BY <2>1, <2>2, <2>3
<1>4. T = Nat
  BY <1>2, <1>3, NaturalsFrom
<1>5. n \in T
  BY <1>4
<1> QED BY <1>1, <1>5

\* R orders S strictly, and any two elements of it.
IsOrder(R, S) ==
    /\ \A x \in S : <<x, x>> \notin R
    /\ \A x, y, z \in S : <<x, y>> \in R /\ <<y, z>> \in R => <<x, z>> \in R
    /\ \A x, y \in S : x = y \/ <<x, y>> \in R \/ <<y, x>> \in R

\* What comes before x in the order R of S.
Earlier(x, S, R) == {y \in S : <<y, x>> \in R}

\* Fewer elements come before an element that comes before.
LEMMA BeforeCounts ==
    ASSUME NEW S, IsFiniteSet(S), NEW R, IsOrder(R, S)
    PROVE  \A x, y \in S :
              /\ Cardinality(Earlier(x, S, R)) \in Nat
              /\ <<x, y>> \in R => Cardinality(Earlier(x, S, R)) < Cardinality(Earlier(y, S, R))
<1> DEFINE Before(x) == {y \in S : <<y, x>> \in R}
<1>1. \A x \in S : Before(x) \in SUBSET S /\ IsFiniteSet(Before(x)) /\ Cardinality(Before(x)) \in Nat
  BY FS_Subset, FS_CardinalityType
<1>2. ASSUME NEW x \in S, NEW y \in S, <<x, y>> \in R
      PROVE  Cardinality(Before(x)) < Cardinality(Before(y))
  <2>1. Before(x) \in SUBSET Before(y) /\ x \in Before(y) /\ x \notin Before(x)
    BY <1>2 DEF IsOrder
  <2> HIDE DEF Before
  <2>2. /\ Cardinality(Before(x)) <= Cardinality(Before(y))
        /\ Cardinality(Before(y)) = Cardinality(Before(x)) => Before(y) = Before(x)
    BY <1>1, <2>1, FS_Subset
  <2> QED BY <1>1, <2>1, <2>2
<1> QED BY <1>1, <1>2 DEF Earlier

\* The first elements are elements, each of them once.
LEMMA FirstOfIs ==
    ASSUME NEW S, IsFiniteSet(S), NEW R, IsOrder(R, S), NEW n \in Nat
    PROVE  \E m \in Nat :
              /\ m <= n /\ FirstOf(n, S, R) \in [1..m -> S] /\ IsInjective(FirstOf(n, S, R))
              /\ m = IF Cardinality(S) < n THEN Cardinality(S) ELSE n
              /\ \A k \in 1..m : Cardinality(Earlier(FirstOf(n, S, R)[k], S, R)) = k - 1
<1> DEFINE N == Cardinality(S)
           Before(x) == {y \in S : <<y, x>> \in R}
           f == [x \in S |-> Cardinality(Before(x)) + 1]
           m == IF N < n THEN N ELSE n
<1>1. N \in Nat
  BY FS_CardinalityType
<1>2. \A x \in S : Before(x) \in SUBSET S /\ IsFiniteSet(Before(x)) /\ Cardinality(Before(x)) \in Nat
  BY FS_Subset, FS_CardinalityType
<1>3. ASSUME NEW x \in S PROVE Cardinality(Before(x)) < N
  <2>1. Cardinality(Before(x)) <= N /\ (N = Cardinality(Before(x)) => S = Before(x))
    BY <1>2, FS_Subset
  <2>2. x \notin Before(x)
    BY DEF IsOrder
  <2> HIDE DEF Before, N
  <2> QED BY <1>1, <1>2, <2>1, <2>2
<1>4. ASSUME NEW x \in S, NEW y \in S, <<x, y>> \in R
      PROVE  Cardinality(Before(x)) # Cardinality(Before(y))
  <2>1. \A u, v \in S :
           /\ Cardinality(Earlier(u, S, R)) \in Nat
           /\ <<u, v>> \in R => Cardinality(Earlier(u, S, R)) < Cardinality(Earlier(v, S, R))
    BY BeforeCounts
  <2>2. Before(x) = Earlier(x, S, R) /\ Before(y) = Earlier(y, S, R)
    BY DEF Earlier
  <2> HIDE DEF Before
  <2> QED BY <1>4, <2>1, <2>2
<1>5. f \in Injection(S, 1..N)
  <2>1. f \in [S -> 1..N]
    <3> HIDE DEF N, Before
    <3> QED BY <1>1, <1>2, <1>3
  <2>2. \A x, y \in S : f[x] = f[y] => x = y
    <3> HIDE DEF Before
    <3>1. SUFFICES ASSUME NEW x \in S, NEW y \in S, f[x] = f[y] PROVE x = y
      OBVIOUS
    <3>2. Cardinality(Before(x)) = Cardinality(Before(y))
      BY <1>2, <3>1
    <3> QED BY <1>4, <3>2 DEF IsOrder
  <2> HIDE DEF f
  <2> QED BY <2>1, <2>2 DEF Injection, IsInjective
<1>6. IsFiniteSet(1..N) /\ Cardinality(1..N) = N
  BY <1>1, FS_Interval
<1>7. f \in Surjection(S, 1..N)
  <2> HIDE DEF f
  <2> QED BY <1>5, <1>6, FS_Injection
<1>8. \A k \in 1..N : \E x \in S : Cardinality(Before(x)) = k - 1
  <2>1. \A k \in 1..N : \E x \in S : f[x] = k
    <3> HIDE DEF f
    <3> QED BY <1>7 DEF Surjection
  <2> HIDE DEF Before
  <2> QED BY <1>1, <1>2, <2>1
<1> DEFINE g == FirstOf(n, S, R)
<1>9. m \in Nat /\ m <= n /\ m <= N
  <2> HIDE DEF N
  <2> QED BY <1>1
<1>10. g = [k \in 1..m |-> CHOOSE x \in S : Cardinality(Before(x)) = k - 1]
  BY DEF FirstOf
<1> HIDE DEF g, m, N, Before
<1>11. \A k \in 1..m : g[k] \in S /\ Cardinality(Before(g[k])) = k - 1
  BY <1>1, <1>8, <1>9, <1>10
<1>12. g \in [1..m -> S]
  BY <1>10, <1>11
<1>13. IsInjective(g)
  <2>1. DOMAIN g = 1..m
    BY <1>10
  <2>2. SUFFICES ASSUME NEW a \in 1..m, NEW b \in 1..m, g[a] = g[b] PROVE a = b
    BY <2>1 DEF IsInjective
  <2>3. a - 1 = b - 1
    BY <1>11, <2>2
  <2> QED BY <2>3, <1>9
<1> QED BY <1>9, <1>11, <1>12, <1>13 DEF g, m, N, Before, Earlier

\* FirstOf sorts: the elements are in the order, and the elements that are left
\* out come after all of them (the sorts of counterfactual, sbfl and the merge).
THEOREM FirstOfSorts ==
    ASSUME NEW S, IsFiniteSet(S), NEW R, IsOrder(R, S), NEW n \in Nat
    PROVE  /\ \A j, k \in DOMAIN FirstOf(n, S, R) :
                 j < k => <<FirstOf(n, S, R)[j], FirstOf(n, S, R)[k]>> \in R
           /\ \A x \in S : \/ \E k \in DOMAIN FirstOf(n, S, R) : FirstOf(n, S, R)[k] = x
                           \/ \A k \in DOMAIN FirstOf(n, S, R) : <<FirstOf(n, S, R)[k], x>> \in R
<1> DEFINE Before(x) == Earlier(x, S, R)
           g == FirstOf(n, S, R)
<1>1. PICK m \in Nat : g \in [1..m -> S] /\ \A k \in 1..m : Cardinality(Before(g[k])) = k - 1
  <2>1. PICK m \in Nat :
           /\ m <= n /\ FirstOf(n, S, R) \in [1..m -> S] /\ IsInjective(FirstOf(n, S, R))
           /\ m = IF Cardinality(S) < n THEN Cardinality(S) ELSE n
           /\ \A k \in 1..m : Cardinality(Earlier(FirstOf(n, S, R)[k], S, R)) = k - 1
    BY FirstOfIs
  <2> QED BY <2>1
<1>2. DOMAIN g = 1..m /\ \A k \in 1..m : g[k] \in S
  BY <1>1
<1>3. \A x, y \in S : /\ Cardinality(Before(x)) \in Nat
                      /\ <<x, y>> \in R => Cardinality(Before(x)) < Cardinality(Before(y))
  BY BeforeCounts
<1> HIDE DEF g, Before
<1>4. ASSUME NEW j \in 1..m, NEW k \in 1..m, j < k PROVE <<g[j], g[k]>> \in R
  <2>1. ~(Cardinality(Before(g[k])) < Cardinality(Before(g[j]))) /\ g[j] # g[k]
    BY <1>1, <1>4
  <2> QED BY <1>2, <1>3, <2>1 DEF IsOrder
<1>5. ASSUME NEW x \in S, \A k \in 1..m : g[k] # x, NEW k \in 1..m PROVE <<g[k], x>> \in R
  <2> SUFFICES ASSUME <<x, g[k]>> \in R PROVE FALSE
    BY <1>2, <1>5 DEF IsOrder
  <2> DEFINE c == Cardinality(Before(x)) + 1
  <2>1. Cardinality(Before(x)) \in Nat /\ Cardinality(Before(x)) < k - 1
    BY <1>1, <1>2, <1>3
  <2>2. c \in 1..m /\ c - 1 = Cardinality(Before(x))
    BY <1>1, <2>1
  <2> HIDE DEF c
  <2>3. Cardinality(Before(g[c])) = Cardinality(Before(x)) /\ g[c] \in S /\ g[c] # x
    BY <1>1, <1>2, <1>5, <2>2
  <2>4. <<g[c], x>> \in R \/ <<x, g[c]>> \in R
    BY <2>3 DEF IsOrder
  <2> QED BY <1>3, <2>3, <2>4
<1> QED BY <1>2, <1>4, <1>5 DEF g

\* The one before all the others is the first.
LEMMA FirstIsLeast ==
    ASSUME NEW S, IsFiniteSet(S), NEW R, NEW n \in Nat \ {0}, NEW s \in S,
           \A x \in S : <<x, s>> \notin R /\ (x # s => <<s, x>> \in R)
    PROVE  FirstOf(n, S, R)[1] = s
<1> DEFINE Before(x) == {y \in S : <<y, x>> \in R}
<1>1. \A x \in S : Before(x) \in SUBSET S /\ IsFiniteSet(Before(x))
  BY FS_Subset
<1>2. Cardinality(S) \in Nat /\ Cardinality(S) # 0
  BY FS_CardinalityType, FS_EmptySet
<1>3. \A x \in S : Cardinality(Before(x)) = 0 <=> x = s
  <2>1. \A x \in S : Before(x) = {} <=> x = s
    OBVIOUS
  <2> HIDE DEF Before
  <2> QED BY <1>1, <2>1, FS_EmptySet
<1>4. FirstOf(n, S, R)[1] = CHOOSE x \in S : Cardinality(Before(x)) = 1 - 1
  <2>1. 1 \in 1..(IF Cardinality(S) < n THEN Cardinality(S) ELSE n)
    BY <1>2
  <2> QED BY <2>1 DEF FirstOf
<1> HIDE DEF Before
<1> QED BY <1>3, <1>4

-----------------------------------------------------------------------------
(* A step that every backend puts first stays first.                       *)

\* A sequence of hypotheses that names each row at most once.
IsRanking(h) ==
    /\ \E S : h \in Seq(S)
    /\ \A j, k \in DOMAIN h : h[j].row = h[k].row => j = k
    /\ \A k \in DOMAIN h : h[k].conf \in Nat

LEMMA ShortRankings == IsRanking(<<>>) /\ \A b : b.conf \in Nat => IsRanking(<<b>>)
<1>1. IsRanking(<<>>)
  <2>1. <<>> \in Seq({}) /\ DOMAIN <<>> = {}
    OBVIOUS
  <2> QED BY <2>1 DEF IsRanking
<1>2. ASSUME NEW b, b.conf \in Nat PROVE IsRanking(<<b>>)
  <2>1. <<b>> \in Seq({b}) /\ DOMAIN <<b>> = 1..1 /\ \A k \in 1..1 : <<b>>[k] = b
    OBVIOUS
  <2>2. \A j, k \in 1..1 : j = k
    OBVIOUS
  <2> QED BY <1>2, <2>1, <2>2 DEF IsRanking
<1> QED BY <1>1, <1>2

LEMMA HeuristicRanks == \A h \in Heuristic : IsRanking(h)
<1>1. ASSUME NEW r, NEW c \in Confidence PROVE IsRanking(<<Blame(r, c)>>)
  <2>1. Blame(r, c).conf = c /\ c \in Nat
    BY AttributionAssumption DEF Blame
  <2> QED BY <2>1, ShortRankings
<1> QED BY <1>1, ShortRankings DEF Heuristic

\* An arrangement names what was named, each row once.
LEMMA ArrangedRanks ==
    ASSUME NEW h, IsRanking(h), NEW R, IsOrder(R, DOMAIN h)
    PROVE  IsRanking(Arranged(h, R))
<1> DEFINE n == Len(h)
           D == DOMAIN h
           order == FirstOf(n, D, R)
           g == Arranged(h, R)
<1>1. PICK S : h \in Seq(S)
  BY DEF IsRanking
<1>2. n \in Nat /\ D = 1..n /\ \A k \in D : h[k] \in S
  BY <1>1
<1>3. IsFiniteSet(D) /\ Cardinality(D) = n
  <2> HIDE DEF n, D
  <2>1. IsFiniteSet(1..n) /\ Cardinality(1..n) = n
    BY <1>2, FS_Interval
  <2> QED BY <1>2, <2>1
<1>4. order \in [1..n -> D] /\ IsInjective(order)
  <2>0. IsOrder(R, D)
    OBVIOUS
  <2> HIDE DEF D, n
  <2>1. PICK m \in Nat :
           /\ FirstOf(n, D, R) \in [1..m -> D] /\ IsInjective(FirstOf(n, D, R))
           /\ m = IF Cardinality(D) < n THEN Cardinality(D) ELSE n
    BY <1>2, <1>3, <2>0, FirstOfIs
  <2>2. m = n
    BY <1>2, <1>3, <2>1
  <2> QED BY <2>1, <2>2
<1>5. g = [k \in D |-> h[order[k]]]
  BY DEF Arranged
<1> HIDE DEF order, D, g, n
<1>6. \A k \in 1..n : order[k] \in D /\ g[k] = h[order[k]] /\ g[k] \in S
  BY <1>2, <1>4, <1>5
<1>7. DOMAIN g = 1..n
  BY <1>2, <1>5
<1>8. g \in Seq(S)
  <2>1. g \in [1..n -> S]
    BY <1>2, <1>5, <1>6
  <2> QED BY <1>2, <2>1, SeqDef
<1>9. ASSUME NEW j \in 1..n, NEW k \in 1..n, g[j].row = g[k].row
      PROVE  j = k
  <2>1. order[j] = order[k]
    BY <1>6, <1>9 DEF IsRanking, D
  <2>2. DOMAIN order = 1..n
    BY <1>4
  <2> QED BY <1>4, <2>1, <2>2 DEF IsInjective
<1>10. \A k \in 1..n : g[k].conf \in Nat
  BY <1>6 DEF IsRanking, D
<1> QED BY <1>7, <1>8, <1>9, <1>10 DEF IsRanking, g

LEMMA ByRescueRanks ==
    ASSUME NEW h, IsRanking(h), NEW turn \in Turns(h)
    PROVE  IsRanking(ByRescue(h, turn))
<1> DEFINE D == DOMAIN h
           Surer(j, k) == \/ h[j].conf > h[k].conf
                          \/ h[j].conf = h[k].conf /\ turn[j] < turn[k]
           R == Pairs(D, Surer)
<1>1. IsOrder(R, D)
  <2>1. \A j, k \in D : <<j, k>> \in R <=> Surer(j, k)
    BY DEF Pairs
  <2>2. D \subseteq Int
    BY DEF IsRanking
  <2>3. \A k \in D : h[k].conf \in Int /\ turn[k] \in Int
    BY <2>2 DEF IsRanking, Turns
  <2>4. \A j, k \in D : turn[j] = turn[k] => j = k
    BY DEF Turns, IsInjective
  <2> HIDE DEF R, D
  <2> QED BY <2>1, <2>3, <2>4 DEF IsOrder
<1>2. ByRescue(h, turn) = Arranged(h, R)
  BY DEF ByRescue
<1> HIDE DEF R
<1> QED BY <1>1, <1>2, ArrangedRanks

\* The rows of a ranking are those of steps, or of no step.
HasSteps(h) == \A k \in DOMAIN h : StepOrLast(h[k].row.step) \in Int

LEMMA ByStepRanks ==
    ASSUME NEW h, IsRanking(h), HasSteps(h)
    PROVE  IsRanking(ByStep(h))
<1> DEFINE D == DOMAIN h
           at(k) == StepOrLast(h[k].row.step)
           Sooner(j, k) == at(j) < at(k) \/ (at(j) = at(k) /\ j < k)
           R == Pairs(D, Sooner)
<1>1. IsOrder(R, D)
  <2>1. \A j, k \in D : <<j, k>> \in R <=> Sooner(j, k)
    BY DEF Pairs
  <2>2. D \subseteq Int
    BY DEF IsRanking
  <2>3. \A k \in D : at(k) \in Int /\ k \in Int
    BY <2>2 DEF HasSteps
  <2> HIDE DEF R, D, at
  <2> QED BY <2>1, <2>3 DEF IsOrder
<1>2. ByStep(h) = Arranged(h, R)
  BY DEF ByStep
<1> HIDE DEF R
<1> QED BY <1>1, <1>2, ArrangedRanks

LEMMA EventsAreFinite == events \in Nat => IsFiniteSet(Event) /\ Event \subseteq Nat
BY FS_Interval DEF Event

\* Every event has a step_index, and the suspects are events.
SuspectsGiven ==
    /\ \A e \in Event : StepOrLast(step_index[e]) \in Int
    /\ (\E S : findings \in Seq(S)) /\ errors \subseteq Event

\* A set of positions has a first.
LEMMA FirstPlace ==
    ASSUME NEW T, T \subseteq Nat, T # {}
    PROVE  \E k \in T : \A j \in T : k <= j
<1>1. PICK k \in T : \A j \in T : ~(<<j, k>> \in OpToRel(<, Nat))
  BY NatLessThanWellFounded, WFMin
<1>2. \A j \in T : ~(j < k)
  BY <1>1 DEF OpToRel
<1> QED BY <1>2

LEMMA CandidatesAre ==
    ASSUME events \in Nat, SuspectsGiven
    PROVE  Candidates \in Seq(Event) /\ IsInjective(Candidates)
<1> DEFINE n == Len(findings)
           Naming(e) == {k \in DOMAIN findings : findings[k].span = e}
           Turn(e) == IF Naming(e) # {} THEN CHOOSE k \in Naming(e) : \A j \in Naming(e) : k <= j
                      ELSE IF e \in errors THEN Len(findings) + 1 + e
                      ELSE Len(findings) + 2 * events - e
           R == Pairs(Event, LAMBDA d, e : Turn(d) < Turn(e))
<1>2. n \in Nat /\ DOMAIN findings = 1..n
  BY DEF SuspectsGiven
<1>3. Candidates = FirstOf(MaxCandidates, Event, R)
  BY DEF Candidates
<1>4. \A e \in Event : e \in Nat /\ e < events
  BY DEF Event
<1>5. ASSUME NEW e \in Event
      PROVE  /\ Naming(e) # {} => Turn(e) \in 1..n /\ findings[Turn(e)].span = e
             /\ Naming(e) = {} /\ e \in errors => Turn(e) = n + 1 + e
             /\ Naming(e) = {} /\ e \notin errors => Turn(e) = n + 2 * events - e
  <2>1. ASSUME Naming(e) # {} PROVE Turn(e) \in 1..n /\ findings[Turn(e)].span = e
    <3>1. \E k \in Naming(e) : \A j \in Naming(e) : k <= j
      <4>1. Naming(e) \subseteq Nat
        BY <1>2
      <4> HIDE DEF Naming
      <4> QED BY <2>1, <4>1, FirstPlace
    <3>2. Turn(e) = CHOOSE k \in Naming(e) : \A j \in Naming(e) : k <= j
      BY <2>1
    <3>3. Turn(e) \in Naming(e)
      <4> HIDE DEF Turn, Naming
      <4> QED BY <3>1, <3>2
    <3> HIDE DEF Turn
    <3> QED BY <1>2, <3>3
  <2>2. ASSUME Naming(e) = {}, e \in errors PROVE Turn(e) = n + 1 + e
    BY <2>2
  <2>3. ASSUME Naming(e) = {}, e \notin errors PROVE Turn(e) = n + 2 * events - e
    BY <2>3
  <2> QED BY <2>1, <2>2, <2>3
<1> HIDE DEF Turn
<1>6. \A d, e \in Event : <<d, e>> \in R <=> Turn(d) < Turn(e)
  BY DEF Pairs
<1> HIDE DEF R, n, Naming
<1>7. \A e \in Event : Turn(e) \in Int
  BY <1>2, <1>4, <1>5
<1>8. ASSUME NEW d \in Event, NEW e \in Event, Turn(d) = Turn(e) PROVE d = e
  <2>1. d \in Nat /\ d < events /\ e \in Nat /\ e < events
    BY <1>4
  <2>2. CASE Naming(d) # {} /\ Naming(e) # {}
    BY <1>5, <1>8, <2>2
  <2>3. CASE Naming(d) # {} /\ Naming(e) = {}
    BY <1>2, <1>5, <1>8, <2>1, <2>3
  <2>4. CASE Naming(d) = {} /\ Naming(e) # {}
    BY <1>2, <1>5, <1>8, <2>1, <2>4
  <2>5. CASE Naming(d) = {} /\ Naming(e) = {}
    BY <1>2, <1>5, <1>8, <2>1, <2>5
  <2> QED BY <2>2, <2>3, <2>4, <2>5
<1>9. IsOrder(R, Event)
  <2>1. \A d, e \in Event : d = e \/ Turn(d) < Turn(e) \/ Turn(e) < Turn(d)
    BY <1>7, <1>8
  <2>2. \A c, d, e \in Event : Turn(c) < Turn(d) /\ Turn(d) < Turn(e) => Turn(c) < Turn(e)
    BY <1>7
  <2>3. \A e \in Event : ~(Turn(e) < Turn(e))
    BY <1>7
  <2> QED BY <1>6, <2>1, <2>2, <2>3 DEF IsOrder
<1>10. PICK m \in Nat :
         FirstOf(MaxCandidates, Event, R) \in [1..m -> Event] /\ IsInjective(FirstOf(MaxCandidates, Event, R))
  <2>1. MaxCandidates \in Nat
    BY AttributionAssumption
  <2> QED BY <1>9, <2>1, EventsAreFinite, FirstOfIs
<1> QED BY <1>3, <1>10, SeqDef

LEMMA SpectrumRanks ==
    ASSUME events \in Nat, SuspectsGiven, NEW score \in [Event -> Confidence \cup {0}]
    PROVE  IsRanking(Spectrum(score))
<1> DEFINE Late(e) == IF step_index[e] = 0 THEN LastPlace ELSE StepOrLast(step_index[e])
           Above(d, e) == \/ score[d] > score[e]
                          \/ score[d] = score[e] /\ Late(d) < Late(e)
                          \/ score[d] = score[e] /\ Late(d) = Late(e) /\ d < e
           S == {s \in Event : score[s] > 0}
           R == Pairs(Event, Above)
           ranked == FirstOf(TopK, S, R)
<1>1. \A s \in Event : score[s] \in Nat
  <2>1. Confidence \cup {0} \subseteq Nat
    BY AttributionAssumption
  <2> QED BY <2>1
<1>2. \A s \in Event : s \in Nat /\ s < events
  BY DEF Event
<1>3. IsFiniteSet(S) /\ TopK \in Nat
  BY AttributionAssumption, EventsAreFinite, FS_Subset
<1>4. IsOrder(R, S)
  <2>1. \A s, t \in Event : <<s, t>> \in R <=> Above(s, t)
    BY DEF Pairs
  <2>2. S \subseteq Event
    OBVIOUS
  <2>3. \A s \in Event : Late(s) \in Int /\ s \in Int
    BY <1>2, AttributionAssumption DEF SuspectsGiven
  <2> HIDE DEF R, S, Late
  <2> QED BY <1>1, <2>1, <2>2, <2>3 DEF IsOrder
<1>5. PICK m \in Nat : ranked \in [1..m -> S] /\ IsInjective(ranked)
  <2> HIDE DEF R, S
  <2> QED BY <1>3, <1>4, FirstOfIs
<1>6. Spectrum(score) = [k \in DOMAIN ranked |-> Blame(Row(ranked[k]), score[ranked[k]])]
  BY DEF Spectrum
<1> HIDE DEF ranked, S
<1>7. \A k \in 1..m : /\ Spectrum(score)[k].row = Row(ranked[k])
                      /\ Spectrum(score)[k].conf = score[ranked[k]]
  BY <1>5, <1>6 DEF Blame
<1>8. DOMAIN Spectrum(score) = 1..m /\ DOMAIN ranked = 1..m
  BY <1>5, <1>6
<1>9. \E T : Spectrum(score) \in Seq(T)
  <2> DEFINE T == {Blame(Row(ranked[k]), score[ranked[k]]) : k \in 1..m}
  <2>1. Spectrum(score) \in [1..m -> T]
    BY <1>6, <1>8
  <2> HIDE DEF T
  <2>2. Spectrum(score) \in Seq(T)
    BY <2>1, SeqDef
  <2> QED BY <2>2
<1>10. \A k \in 1..m : Spectrum(score)[k].conf \in Nat
  BY <1>1, <1>5, <1>7 DEF S
<1>11. \A d, e : Row(d) = Row(e) => d = e
  BY DEF Row
<1>12. \A j, k \in 1..m : Spectrum(score)[j].row = Spectrum(score)[k].row => j = k
  BY <1>5, <1>7, <1>8, <1>11 DEF IsInjective
<1> QED BY <1>8, <1>9, <1>10, <1>12 DEF IsRanking

\* What s gets from one ranking.
PointsFrom(h, s) == SumOf([k \in DOMAIN h |-> IF h[k].row = s THEN Borda(Len(h), k) ELSE 0])

\* The first gets a point for each place, every other row fewer.
LEMMA FirstGetsMost ==
    ASSUME NEW h, IsRanking(h), NEW s, h # <<>> => h[1].row = s
    PROVE  /\ PointsFrom(h, s) \in Nat
           /\ \A t : /\ PointsFrom(h, t) \in Nat /\ PointsFrom(h, t) <= PointsFrom(h, s)
                     /\ h # <<>> /\ t # s => PointsFrom(h, t) < PointsFrom(h, s)
<1> DEFINE n == Len(h)
           f(t) == [k \in DOMAIN h |-> IF h[k].row = t THEN Borda(Len(h), k) ELSE 0]
<1>1. n \in Nat /\ DOMAIN h = 1..n /\ (h # <<>> <=> n > 0)
  BY DEF IsRanking
<1> HIDE DEF n
<1>2. \A t : /\ f(t) \in [1..n -> Nat]
             /\ \A k \in 1..n : f(t)[k] = IF h[k].row = t THEN n - k + 1 ELSE 0
  BY <1>1 DEF Borda, n
<1>3. \A t : PointsFrom(h, t) = SumOf(f(t))
  BY DEF PointsFrom
<1> HIDE DEF f
<1>4. ASSUME NEW t, NEW j \in 1..n, h[j].row = t PROVE PointsFrom(h, t) = n - j + 1
  <2>1. \A k \in 1..n : k # j => h[k].row # t
    BY <1>1, <1>4 DEF IsRanking
  <2>2. \A k \in 1..n : k # j => f(t)[k] = 0
    BY <1>2, <2>1
  <2>3. f(t) \in [1..n -> Nat] /\ j \in 0..n /\ j # 0
    BY <1>2
  <2>4. SumOf(f(t)) = f(t)[j]
    BY <1>1, <2>2, <2>3, SumOfOne
  <2> QED BY <1>2, <1>3, <1>4, <2>4
<1>5. ASSUME NEW t, \A j \in 1..n : h[j].row # t PROVE PointsFrom(h, t) = 0
  <2>1. \A k \in 1..n : k # 0 => f(t)[k] = 0
    BY <1>2, <1>5
  <2>2. f(t) \in [1..n -> Nat] /\ 0 \in 0..n
    BY <1>1, <1>2
  <2>3. SumOf(f(t)) = 0
    BY <1>1, <2>1, <2>2, SumOfOne
  <2> QED BY <1>3, <2>3
<1>6. CASE n = 0
  <2>1. \A t : PointsFrom(h, t) = 0
    BY <1>5, <1>6
  <2> QED BY <1>1, <1>6, <2>1
<1>7. CASE n > 0
  <2>1. 1 \in 1..n /\ h[1].row = s
    BY <1>1, <1>7
  <2>2. PointsFrom(h, s) = n
    BY <1>1, <1>4, <2>1
  <2>3. ASSUME NEW t, t # s PROVE PointsFrom(h, t) \in Nat /\ PointsFrom(h, t) < n
    <3>1. CASE \E j \in 1..n : h[j].row = t
      <4>1. PICK j \in 1..n : h[j].row = t
        BY <3>1
      <4>2. j # 1
        BY <2>1, <2>3, <4>1
      <4> QED BY <1>1, <1>4, <4>1, <4>2
    <3>2. CASE \A j \in 1..n : h[j].row # t
      BY <1>5, <1>7, <3>2
    <3> QED BY <3>1, <3>2
  <2>4. ASSUME NEW t
        PROVE  /\ PointsFrom(h, t) \in Nat /\ PointsFrom(h, t) <= PointsFrom(h, s)
               /\ t # s => PointsFrom(h, t) < PointsFrom(h, s)
    BY <1>1, <2>2, <2>3
  <2> QED BY <1>1, <2>2, <2>4
<1> QED BY <1>1, <1>6, <1>7

\* All that was reported are rankings.
AllRank == \A i \in DOMAIN reported : IsRanking(reported[i].hyps)

LEMMA FiniteRange ==
    ASSUME NEW n \in Nat, NEW f, DOMAIN f = 1..n
    PROVE  IsFiniteSet({f[k] : k \in 1..n})
<1> DEFINE g == [k \in 1..n |-> f[k]]
           T == {f[k] : k \in 1..n}
<1>1. g \in Surjection(1..n, T)
  BY DEF Surjection
<1>2. IsFiniteSet(1..n)
  BY FS_Interval
<1> HIDE DEF g
<1> QED BY <1>1, <1>2, FS_Surjection

LEMMA RowsAreFinite ==
    ASSUME ReportsAreASequence, AllRank
    PROVE  IsFiniteSet(Rows)
<1> DEFINE n == Len(reported)
           In(i) == {reported[i].hyps[k].row : k \in DOMAIN reported[i].hyps}
           f == [i \in 1..n |-> In(i)]
<1>1. n \in Nat /\ DOMAIN reported = 1..n
  BY DEF ReportsAreASequence
<1>2. ASSUME NEW i \in 1..n PROVE IsFiniteSet(In(i))
  <2> DEFINE h == reported[i].hyps
             m == Len(h)
             g == [k \in 1..m |-> h[k].row]
  <2>1. IsRanking(h)
    BY <1>1 DEF AllRank
  <2>2. m \in Nat /\ DOMAIN h = 1..m
    BY <2>1 DEF IsRanking
  <2>3. IsFiniteSet({g[k] : k \in 1..m})
    <3>1. DOMAIN g = 1..m
      OBVIOUS
    <3> HIDE DEF g
    <3> QED BY <2>2, <3>1, FiniteRange
  <2>4. In(i) = {g[k] : k \in 1..m}
    BY <2>2
  <2> QED BY <2>3, <2>4
<1> HIDE DEF In
<1>3. IsFiniteSet({f[i] : i \in 1..n})
  <2>1. DOMAIN f = 1..n
    OBVIOUS
  <2> HIDE DEF f
  <2> QED BY <1>1, <2>1, FiniteRange
<1>4. \A T \in {f[i] : i \in 1..n} : IsFiniteSet(T)
  BY <1>2
<1>5. Rows = UNION {f[i] : i \in 1..n}
  BY <1>1 DEF Rows, In
<1> HIDE DEF f
<1> QED BY <1>3, <1>4, <1>5, FS_UNION

\* What every backend that blames any row puts first gets the most points.
LEMMA AgreedGetsMost ==
    ASSUME ReportsAreASequence, AllRank, Rows # {}, NEW s,
           \A i \in DOMAIN reported : reported[i].hyps # <<>> => reported[i].hyps[1].row = s
    PROVE  /\ s \in Rows /\ Points(s) \in Nat
           /\ \A t : Points(t) \in Nat /\ (t # s => Points(t) < Points(s))
<1> DEFINE n == Len(reported)
           f(t) == [i \in DOMAIN reported |-> PointsFrom(reported[i].hyps, t)]
<1>1. n \in Nat /\ DOMAIN reported = 1..n
  BY DEF ReportsAreASequence
<1>2. \A t : Points(t) = SumOf(f(t))
  BY DEF Points, Total, PointsFrom
<1>3. \A i \in 1..n : IsRanking(reported[i].hyps)
  BY <1>1 DEF AllRank
<1> HIDE DEF n
<1>4. \A t : \A i \in 1..n :
         /\ f(t)[i] \in Nat /\ f(s)[i] \in Nat /\ f(t)[i] <= f(s)[i]
         /\ reported[i].hyps # <<>> /\ t # s => f(t)[i] < f(s)[i]
  BY <1>1, <1>3, FirstGetsMost
<1>5. \A t : f(t) \in [1..n -> Nat]
  BY <1>1, <1>4
<1>6. PICK i \in 1..n : DOMAIN reported[i].hyps # {}
  BY <1>1 DEF Rows
<1>7. /\ reported[i].hyps # <<>> /\ 1 \in DOMAIN reported[i].hyps
      /\ reported[i].hyps[1].row = s
  BY <1>1, <1>3, <1>6 DEF IsRanking
<1>8. s \in Rows
  BY <1>1, <1>7 DEF Rows
<1> HIDE DEF f
<1>9. ASSUME NEW t PROVE SumOf(f(t)) \in Nat /\ (t # s => SumOf(f(t)) < SumOf(f(s)))
  <2>1. f(t) \in [1..n -> Nat] /\ f(s) \in [1..n -> Nat] /\ \A k \in 1..n : f(t)[k] <= f(s)[k]
    BY <1>4, <1>5
  <2>2. t # s => f(t)[i] < f(s)[i]
    BY <1>4, <1>7
  <2> QED BY <1>1, <2>1, <2>2, SumGrows
<1> QED BY <1>2, <1>8, <1>9

\* The confidences in s add up.
LEMMA ConvictionIsNat ==
    ASSUME ReportsAreASequence, AllRank, NEW s
    PROVE  Conviction(s) \in Nat
<1> DEFINE n == Len(reported)
           From(h) == [k \in DOMAIN h |-> IF h[k].row = s THEN h[k].conf ELSE 0]
           f == [i \in DOMAIN reported |-> SumOf(From(reported[i].hyps))]
<1>1. n \in Nat /\ DOMAIN reported = 1..n
  BY DEF ReportsAreASequence
<1>2. ASSUME NEW h, IsRanking(h) PROVE SumOf(From(h)) \in Nat
  <2>1. Len(h) \in Nat /\ DOMAIN h = 1..Len(h)
    BY <1>2 DEF IsRanking
  <2>2. From(h) \in [1..Len(h) -> Nat]
    BY <1>2, <2>1 DEF IsRanking
  <2>3. \A k \in 1..Len(h) : From(h)[k] <= From(h)[k]
    BY <2>2
  <2> HIDE DEF From
  <2> QED BY <2>1, <2>2, <2>3, SumGrows
<1>3. Conviction(s) = SumOf(f)
  BY DEF Conviction, Total
<1> HIDE DEF From, n
<1>4. f \in [1..n -> Nat]
  BY <1>1, <1>2 DEF AllRank
<1> HIDE DEF f
<1>5. \A k \in 1..n : f[k] <= f[k]
  BY <1>4
<1> QED BY <1>1, <1>3, <1>4, <1>5, SumGrows

LEMMA AgreedTops ==
    ASSUME ReportsAreASequence, AllRank, Rows # {}, ensemble.merge = "borda", NEW s,
           \A i \in DOMAIN reported : reported[i].hyps # <<>> => reported[i].hyps[1].row = s
    PROVE  Ranking[1] = s
<1> DEFINE score == [t \in Rows |-> IF ensemble.merge = "borda" THEN Points(t) ELSE -Doubt(t)]
           Above(t, u) == \/ score[t] > score[u]
                          \/ /\ score[t] = score[u]
                             /\ \/ Conviction(t) > Conviction(u)
                                \/ Conviction(t) = Conviction(u) /\ NamedBefore(t, u)
           R == Pairs(Rows, Above)
<1>1. /\ s \in Rows /\ Points(s) \in Nat
      /\ \A t : Points(t) \in Nat /\ (t # s => Points(t) < Points(s))
  BY AgreedGetsMost
<1>2. \A t \in Rows : score[t] = Points(t)
  OBVIOUS
<1>3. Ranking = FirstOf(TopK, Rows, R)
  BY DEF Ranking
<1> HIDE DEF score
<1>4. \A t \in Rows : t # s => Above(s, t) /\ ~Above(t, s)
  BY <1>1, <1>2
<1>5. ~Above(s, s)
  <2>1. ~(Conviction(s) > Conviction(s)) /\ ~(score[s] > score[s])
    BY <1>1, <1>2, ConvictionIsNat
  <2>2. ASSUME NamedBefore(s, s) PROVE FALSE
    <3>1. PICK i \in DOMAIN reported : \E k \in DOMAIN reported[i].hyps :
             /\ reported[i].hyps[k].row = s
             /\ \A j \in 1..i : \A l \in DOMAIN reported[j].hyps :
                   reported[j].hyps[l].row = s => j = i /\ k < l
      BY <2>2 DEF NamedBefore
    <3>2. PICK k \in DOMAIN reported[i].hyps :
             /\ reported[i].hyps[k].row = s
             /\ \A j \in 1..i : \A l \in DOMAIN reported[j].hyps :
                   reported[j].hyps[l].row = s => j = i /\ k < l
      BY <3>1
    <3>3. i \in Nat /\ i \in 1..i /\ k \in Nat
      BY DEF ReportsAreASequence, AllRank, IsRanking
    <3> QED BY <3>2, <3>3
  <2> QED BY <2>1, <2>2
<1>6. \A t \in Rows : <<t, s>> \notin R /\ (t # s => <<s, t>> \in R)
  <2> HIDE DEF Above
  <2> QED BY <1>1, <1>4, <1>5 DEF Pairs
<1>7. IsFiniteSet(Rows) /\ TopK \in Nat \ {0}
  BY AttributionAssumption, RowsAreFinite
<1> HIDE DEF R
<1> QED BY <1>1, <1>3, <1>6, <1>7, FirstIsLeast

\* What has been asked about is not asked about again.
NamesOnce(w) ==
    /\ IsRanking(w.hyps) /\ w.left \in Seq(Int) /\ IsInjective(w.left) /\ w.probes \in Nat
    /\ \A j \in DOMAIN w.left : \A k \in DOMAIN w.hyps : w.left[j] # w.hyps[k].row.span
    /\ HasSteps(w.hyps) /\ \A j \in DOMAIN w.left : StepOrLast(step_index[w.left[j]]) \in Int

\* A backend that goes by the events that are left has one.
HasNext(w) == w # NoWork /\ w.kind \notin {"all_at_once", "binary_search"} => w.left # <<>>

NamingInv ==
    /\ AllRank /\ NamesOnce(work) /\ HasNext(work) /\ SuspectsGiven
    /\ verdict = Undecided \/ work = NoWork
    /\ AgreedIsFirst

LEMMA NoWorkNames == NamesOnce(NoWork) /\ HasNext(NoWork)
<1>1. NoWork.hyps = <<>> /\ NoWork.left = <<>> /\ NoWork.probes = 0
  BY DEF NoWork
<1>2. <<>> \in Seq(Int) /\ DOMAIN <<>> = {} /\ IsInjective(<<>>)
  BY DEF IsInjective
<1>3. \A j \in DOMAIN NoWork.left : FALSE
  BY <1>1
<1>4. HasSteps(NoWork.hyps)
  BY <1>1, <1>2 DEF HasSteps
<1> QED BY <1>1, <1>2, <1>3, <1>4, ShortRankings DEF NamesOnce, HasNext

\* Until there is a verdict only the reports and the work matter.
LEMMA StillNames ==
    ASSUME NamingInv, UNCHANGED given, verdict' = Undecided,
           AllRank', NamesOnce(work'), HasNext(work')
    PROVE  NamingInv'
<1>1. Event' = Event /\ UNCHANGED <<findings, errors, step_index>>
  BY DEF given, Event
<1>2. SuspectsGiven'
  BY <1>1 DEF NamingInv, SuspectsGiven, StepOrLast
<1>3. verdict'.how # "merged"
  BY DEF Undecided
<1>4. AgreedIsFirst'
  BY <1>3 DEF AgreedIsFirst
<1>5. NamesOnce(work)' /\ HasNext(work)'
  BY <1>1 DEF NamesOnce, HasSteps, StepOrLast, HasNext, NoWork
<1> QED BY <1>2, <1>4, <1>5 DEF NamingInv, Undecided

LEMMA ReportNames ==
    ASSUME NEW w, NEW hyps, NEW own, AInv, NamingInv, UNCHANGED given, verdict' = Undecided,
           Report(w, hyps, own), IsRanking(hyps)
    PROVE  NamingInv'
<1> DEFINE r == [by |-> w.kind, hyps |-> hyps, own |-> own,
                 probes |-> w.probes, truthful |-> w.truthful]
<1>1. reported' = Append(reported, r) /\ work' = NoWork /\ r.hyps = hyps
  BY DEF Report
<1> HIDE DEF r
<1>2. PICK S : reported \in Seq(S)
  BY DEF AInv, ReportsAreASequence
<1>3. \A i \in DOMAIN reported' :
         \/ reported'[i] = r
         \/ i \in DOMAIN reported /\ reported'[i] = reported[i]
  <2>1. reported \in Seq(S \cup {r}) /\ r \in S \cup {r}
    BY <1>2
  <2>2. DOMAIN reported' = 1..(Len(reported) + 1) /\ DOMAIN reported = 1..Len(reported)
    BY <1>1, <2>1
  <2>3. Len(reported) \in Nat /\ reported'[Len(reported) + 1] = r
        /\ \A i \in 1..Len(reported) : reported'[i] = reported[i]
    BY <1>1, <2>1
  <2> QED BY <2>2, <2>3
<1>4. AllRank'
  <2>1. \A i \in DOMAIN reported' : IsRanking(reported'[i].hyps)
    BY <1>1, <1>3 DEF NamingInv, AllRank
  <2> QED BY <2>1 DEF AllRank, IsRanking
<1> QED BY <1>1, <1>4, NoWorkNames, StillNames

LEMMA SubstituteNames ==
    ASSUME NEW w, AInv, NamingInv, UNCHANGED given, verdict' = Undecided, Substitute(w)
    PROVE  NamingInv'
<1>1. CASE ensemble.refuse
  <2>1. work' = NoWork /\ reported' = reported
    BY <1>1 DEF Substitute
  <2>2. AllRank'
    BY <2>1 DEF NamingInv, AllRank, IsRanking
  <2> QED BY <2>1, <2>2, NoWorkNames, StillNames
<1>2. CASE ~ensemble.refuse
  <2>1. PICK h \in Heuristic : Report(w, h, FALSE)
    BY <1>2 DEF Substitute
  <2> QED BY <2>1, HeuristicRanks, ReportNames
<1> QED BY <1>1, <1>2

LEMMA GoesOnNames ==
    ASSUME NEW w, AInv, NamingInv, UNCHANGED given, verdict' = Undecided, Proceed(w), NamesOnce(w)
    PROVE  NamingInv'
<1>1. CASE /\ \/ w.kind = "all_at_once"
              \/ w.kind = "binary_search" /\ w.lo < w.hi
              \/ w.left # <<>>
           /\ work' = w /\ UNCHANGED <<place, reported>>
  <2>1. AllRank'
    BY <1>1 DEF NamingInv, AllRank, IsRanking
  <2>2. HasNext(work')
    BY <1>1 DEF HasNext
  <2> QED BY <1>1, <2>1, <2>2, StillNames
<1>2. CASE Report(w, <<Blame(Row(w.lo), 6 + (IF w.probes < 4 THEN w.probes ELSE 4))>>, TRUE)
  <2>1. 6 + (IF w.probes < 4 THEN w.probes ELSE 4) \in Nat
    BY DEF NamesOnce
  <2>2. IsRanking(<<Blame(Row(w.lo), 6 + (IF w.probes < 4 THEN w.probes ELSE 4))>>)
    BY <2>1, ShortRankings DEF Blame
  <2> QED BY <1>2, <2>2, ReportNames
<1>3. CASE Report(w, ByStep(w.hyps), TRUE)
  BY <1>3, ByStepRanks, ReportNames DEF NamesOnce
<1>4. CASE \E turn \in Turns(w.hyps) : Report(w, ByRescue(w.hyps, turn), TRUE)
  BY <1>4, ByRescueRanks, ReportNames DEF NamesOnce
<1>5. CASE Substitute(w)
  BY <1>5, SubstituteNames
<1> QED BY <1>1, <1>2, <1>3, <1>4, <1>5 DEF Proceed

\* Going on to the next event, with or without a hypothesis about this one.
LEMMA OnwardNames ==
    ASSUME NEW w, IsWork(w), NamesOnce(w), w.left # <<>>
    PROVE  /\ NamesOnce(Onward(w))
           /\ \A c \in Nat :
                 NamesOnce([Onward(w) EXCEPT !.hyps = Append(@, Blame(Row(Head(w.left)), c))])
<1> DEFINE v == Onward(w)
           n == Len(w.left)
           m == Len(w.hyps)
<1>1. /\ v.left = Tail(w.left) /\ v.hyps = w.hyps /\ v.probes = w.probes
      /\ \A h : LET u == [v EXCEPT !.hyps = Append(@, h)]
                IN  u.left = v.left /\ u.hyps = Append(w.hyps, h) /\ u.probes = w.probes
  BY DEF Onward, IsWork, Field
<1>2. /\ n \in Nat /\ n > 0 /\ DOMAIN w.left = 1..n /\ Head(w.left) = w.left[1]
      /\ Tail(w.left) \in Seq(Int) /\ DOMAIN Tail(w.left) = 1..(n - 1)
      /\ \A j \in 1..(n - 1) : Tail(w.left)[j] = w.left[j + 1]
  BY DEF NamesOnce
<1>3. m \in Nat /\ DOMAIN w.hyps = 1..m
  BY DEF NamesOnce, IsRanking
<1>4. \A i, j \in 1..n : w.left[i] = w.left[j] => i = j
  BY <1>2 DEF NamesOnce, IsInjective
<1>5. \A j \in 1..n : \A k \in 1..m : w.left[j] # w.hyps[k].row.span
  BY <1>2, <1>3 DEF NamesOnce
<1> HIDE DEF v, n, m
<1>6. IsInjective(Tail(w.left))
  <2>1. \A j \in 1..(n - 1) : j \in Int /\ j + 1 \in 1..n
    BY <1>2
  <2>2. ASSUME NEW i \in 1..(n - 1), NEW j \in 1..(n - 1), Tail(w.left)[i] = Tail(w.left)[j]
        PROVE  i = j
    <3>1. i + 1 = j + 1
      BY <1>2, <1>4, <2>1, <2>2
    <3> QED BY <2>1, <3>1
  <2> QED BY <1>2, <2>2 DEF IsInjective
<1>7. \A j \in 1..(n - 1) : /\ Tail(w.left)[j] # w.left[1]
                            /\ \A k \in 1..m : Tail(w.left)[j] # w.hyps[k].row.span
  BY <1>2, <1>4, <1>5
<1>p. /\ \A j \in 1..n : StepOrLast(step_index[w.left[j]]) \in Int
      /\ \A k \in 1..m : StepOrLast(w.hyps[k].row.step) \in Int
  BY <1>2, <1>3 DEF NamesOnce, HasSteps
<1>q. \A j \in 1..(n - 1) : StepOrLast(step_index[Tail(w.left)[j]]) \in Int
  <2>1. \A j \in 1..(n - 1) : j + 1 \in 1..n
    BY <1>2
  <2> QED BY <1>2, <1>p, <2>1
<1>8. NamesOnce(v)
  <2>1. v.left = Tail(w.left) /\ v.hyps = w.hyps /\ v.probes \in Nat
    BY <1>1 DEF NamesOnce
  <2>2. \A j \in DOMAIN v.left : \A k \in DOMAIN v.hyps : v.left[j] # v.hyps[k].row.span
    BY <1>2, <1>3, <1>7, <2>1
  <2>3. IsRanking(v.hyps) /\ v.left \in Seq(Int) /\ IsInjective(v.left)
    BY <1>2, <1>6, <2>1 DEF NamesOnce
  <2>4. HasSteps(v.hyps) /\ \A j \in DOMAIN v.left : StepOrLast(step_index[v.left[j]]) \in Int
    BY <1>2, <1>q, <2>1 DEF NamesOnce
  <2> QED BY <2>1, <2>2, <2>3, <2>4 DEF NamesOnce
<1>9. ASSUME NEW c \in Nat
      PROVE  NamesOnce([v EXCEPT !.hyps = Append(@, Blame(Row(Head(w.left)), c))])
  <2> DEFINE b == Blame(Row(Head(w.left)), c)
             g == Append(w.hyps, b)
             u == [v EXCEPT !.hyps = Append(@, b)]
  <2>1. b.row.span = w.left[1] /\ b.row.step = step_index[w.left[1]] /\ b.conf = c
    BY <1>2 DEF Blame, Row
  <2>2. u.left = v.left /\ u.hyps = g /\ u.probes = w.probes
    BY <1>1
  <2> HIDE DEF b, u
  <2>3. PICK S : w.hyps \in Seq(S)
    BY DEF NamesOnce, IsRanking
  <2>4. /\ g \in Seq(S \cup {b}) /\ DOMAIN g = 1..(m + 1) /\ g[m + 1] = b
        /\ \A k \in 1..m : g[k] = w.hyps[k]
    <3>1. w.hyps \in Seq(S \cup {b}) /\ b \in S \cup {b}
      BY <2>3
    <3> QED BY <3>1, AppendProperties DEF m
  <2> HIDE DEF g
  <2>5. \A k \in 1..(m + 1) : k \in 1..m \/ k = m + 1
    BY <1>3
  <2>6. \A k \in 1..(m + 1) : g[k].conf \in Nat
    <3>1. \A k \in 1..m : w.hyps[k].conf \in Nat
      BY <1>3 DEF NamesOnce, IsRanking
    <3> QED BY <1>9, <2>1, <2>4, <2>5, <3>1
  <2>7. \A k \in 1..m : g[k].row # b.row
    <3>1. 1 \in 1..n
      BY <1>2
    <3>2. \A k \in 1..m : w.hyps[k].row.span # w.left[1]
      BY <1>5, <3>1
    <3> QED BY <2>1, <2>4, <3>2
  <2>8. \A j, k \in 1..m : g[j].row = g[k].row => j = k
    <3>1. \A j, k \in 1..m : w.hyps[j].row = w.hyps[k].row => j = k
      BY <1>3 DEF NamesOnce, IsRanking
    <3> QED BY <2>4, <3>1
  <2>9. \A j, k \in 1..(m + 1) : g[j].row = g[k].row => j = k
    BY <2>4, <2>5, <2>7, <2>8
  <2>10. IsRanking(g)
    BY <2>4, <2>6, <2>9 DEF IsRanking
  <2>11. \A j \in 1..(n - 1) : \A k \in 1..(m + 1) : Tail(w.left)[j] # g[k].row.span
    <3>1. \A j \in 1..(n - 1) : Tail(w.left)[j] # b.row.span
      BY <1>7, <2>1
    <3>2. \A j \in 1..(n - 1) : \A k \in 1..m : Tail(w.left)[j] # w.hyps[k].row.span
      BY <1>7
    <3> QED BY <2>4, <2>5, <3>1, <3>2
  <2>12. NamesOnce(u)
    <3>1. u.left = Tail(w.left) /\ u.hyps = g /\ u.probes \in Nat
      BY <1>1, <2>2 DEF NamesOnce
    <3>2. \A j \in DOMAIN u.left : \A k \in DOMAIN u.hyps : u.left[j] # u.hyps[k].row.span
      <4>1. DOMAIN u.left = 1..(n - 1) /\ DOMAIN u.hyps = 1..(m + 1)
        BY <1>2, <2>4, <3>1
      <4>2. \A j \in 1..(n - 1) : \A k \in 1..(m + 1) : u.left[j] # u.hyps[k].row.span
        BY <2>11, <3>1
      <4> QED BY <4>1, <4>2
    <3>3. IsRanking(u.hyps) /\ u.left \in Seq(Int) /\ IsInjective(u.left)
      BY <1>2, <1>6, <2>10, <3>1
    <3>4. HasSteps(u.hyps)
      <4>1. \A k \in 1..(m + 1) : StepOrLast(g[k].row.step) \in Int
        <5>1. 1 \in 1..n
          BY <1>2
        <5>2. StepOrLast(b.row.step) \in Int
          BY <1>p, <2>1, <5>1
        <5>3. \A k \in 1..m : StepOrLast(g[k].row.step) \in Int
          BY <1>p, <2>4
        <5> QED BY <2>4, <2>5, <5>2, <5>3
      <4> QED BY <2>4, <3>1, <4>1 DEF HasSteps
    <3>5. \A j \in DOMAIN u.left : StepOrLast(step_index[u.left[j]]) \in Int
      BY <1>2, <1>q, <3>1
    <3> QED BY <3>1, <3>2, <3>3, <3>4, <3>5 DEF NamesOnce
  <2> QED BY <2>12 DEF u, b
<1> QED BY <1>8, <1>9 DEF v

LEMMA BegunNames ==
    ASSUME events \in Nat, SuspectsGiven, NEW kind
    PROVE  NamesOnce(Begun(kind))
<1> DEFINE w == Begun(kind)
<1>1. /\ w.hyps = <<>> /\ w.probes = 0
      /\ w.left = IF kind = "step_by_step" THEN Scanned
                  ELSE IF kind = "counterfactual" THEN Candidates ELSE <<>>
  BY DEF Begun, NoWork
<1> HIDE DEF w
<1>s. \A e \in Event : StepOrLast(step_index[e]) \in Int
  BY DEF SuspectsGiven
<1>2. /\ Scanned \in Seq(Int) /\ IsInjective(Scanned)
      /\ \A j \in DOMAIN Scanned : StepOrLast(step_index[Scanned[j]]) \in Int
  <2> DEFINE m == IF events < MaxScan THEN events ELSE MaxScan
  <2>1. m \in Nat /\ m <= events
    BY AttributionAssumption
  <2>2. Scanned = [k \in 1..m |-> k - 1]
    BY DEF Scanned
  <2> HIDE DEF m
  <2>3. Scanned \in [1..m -> Int]
    BY <2>1, <2>2
  <2>4. Scanned \in Seq(Int)
    BY <2>1, <2>3, SeqDef
  <2>5. \A j, k \in 1..m : j - 1 = k - 1 => j = k
    BY <2>1
  <2>6. \A j \in 1..m : Scanned[j] \in Event
    BY <2>1, <2>2 DEF Event
  <2>7. IsInjective(Scanned) /\ DOMAIN Scanned = 1..m
    BY <2>2, <2>5 DEF IsInjective
  <2> QED BY <1>s, <2>4, <2>6, <2>7
<1>3. /\ Candidates \in Seq(Int) /\ IsInjective(Candidates)
      /\ \A j \in DOMAIN Candidates : StepOrLast(step_index[Candidates[j]]) \in Int
  <2>1. Candidates \in Seq(Event) /\ Event \subseteq Int
    BY CandidatesAre DEF Event
  <2>2. PICK n \in Nat : Candidates \in [1..n -> Event]
    BY <2>1, SeqDef
  <2>3. Candidates \in [1..n -> Int]
    BY <2>1, <2>2
  <2>4. Candidates \in Seq(Int)
    BY <2>2, <2>3, SeqDef
  <2> QED BY <1>s, <2>2, <2>4, CandidatesAre
<1>4. <<>> \in Seq(Int) /\ IsInjective(<<>>) /\ DOMAIN <<>> = {}
  BY DEF IsInjective
<1>5. /\ w.left \in Seq(Int) /\ IsInjective(w.left)
      /\ \A j \in DOMAIN w.left : StepOrLast(step_index[w.left[j]]) \in Int
  BY <1>1, <1>2, <1>3, <1>4
<1>6. DOMAIN w.hyps = {}
  BY <1>1, <1>4
<1> QED BY <1>1, <1>5, <1>6, ShortRankings DEF NamesOnce, HasSteps, w

LEMMA NamingStarts == AttributionInit => NamingInv
<1> SUFFICES ASSUME AttributionInit PROVE NamingInv
  OBVIOUS
<1>1. work = NoWork /\ reported = <<>> /\ verdict = Undecided
  BY DEF AttributionInit
<1>2. SuspectsGiven
  <2>2. \E S : findings \in Seq(S)
    <3> DEFINE S == [span : Event \cup {NoEvent}, step : StepIndex]
    <3>1. findings \in UNION {[1..n -> S] : n \in 0..MaxFindings}
      BY DEF AttributionInit
    <3> HIDE DEF S
    <3>2. PICK n \in 0..MaxFindings : findings \in [1..n -> S]
      BY <3>1
    <3>3. n \in Nat
      BY AttributionAssumption
    <3>4. findings \in Seq(S)
      BY <3>2, <3>3, SeqDef
    <3> QED BY <3>4
  <2>3. ASSUME NEW e \in Event PROVE StepOrLast(step_index[e]) \in Int
    <3>1. step_index[e] = NoStep \/ step_index[e] \in 0..(LastPlace - 1)
      BY AttributionAssumption DEF AttributionInit
    <3> QED BY <3>1, AttributionAssumption DEF StepOrLast
  <2>4. errors \subseteq Event
    BY DEF AttributionInit
  <2> QED BY <2>2, <2>3, <2>4 DEF SuspectsGiven
<1>3. AllRank /\ AgreedIsFirst
  BY <1>1 DEF AllRank, AgreedIsFirst, Undecided
<1> QED BY <1>1, <1>2, <1>3, NoWorkNames DEF NamingInv

\* The merge puts the agreed row first.
LEMMA ConcludeNames ==
    ASSUME AInv, NamingInv, Conclude
    PROVE  NamingInv'
<1>1. UNCHANGED <<given, work, reported>> /\ work = NoWork
  BY DEF Conclude
<1>2. Event' = Event /\ UNCHANGED <<findings, errors, step_index, ensemble>>
  BY <1>1 DEF given, Event
<1>3. AllRank' /\ SuspectsGiven' /\ NamesOnce(work)' /\ HasNext(work)'
  BY <1>1, <1>2 DEF NamingInv, AllRank, IsRanking, SuspectsGiven, NamesOnce, HasSteps, StepOrLast, HasNext, NoWork
<1>4. (work = NoWork)'
  BY <1>1 DEF NoWork
<1>5. verdict'.how = "merged" => Rows # {} /\ verdict'.blamed = Ranking
  BY DEF Conclude, Undecided
<1>6. AgreedIsFirst'
  <2>1. Rows' = Rows
    BY <1>1 DEF Rows
  <2> SUFFICES ASSUME verdict'.how = "merged", ensemble.merge = "borda", NEW s \in Rows,
                      \A i \in DOMAIN reported : reported[i].hyps # <<>> => reported[i].hyps[1].row = s
               PROVE  verdict'.blamed[1] = s
    BY <1>1, <1>2, <2>1 DEF AgreedIsFirst
  <2> QED BY <1>5, AgreedTops DEF AInv, NamingInv
<1> QED BY <1>3, <1>4, <1>6 DEF NamingInv

LEMMA NamingStep == AInv /\ NamingInv /\ [AttributionNext]_avars => NamingInv'
<1> SUFFICES ASSUME AInv, NamingInv, [AttributionNext]_avars PROVE NamingInv'
  OBVIOUS
<1>0. /\ Confidence \subseteq Nat /\ events \in Nat /\ IsWork(work)
      /\ NamesOnce(work) /\ HasNext(work) /\ SuspectsGiven
  BY AttributionAssumption DEF AInv, NamingInv
<1>a. work # NoWork => verdict = Undecided
  BY DEF NamingInv
<1>b. \A k : work.kind = k /\ k # "none" => work # NoWork
  BY DEF NoWork
<1>1. CASE BeginBackend
  <2> DEFINE w == Begun(ensemble.backends[place])
  <2>1. UNCHANGED given /\ verdict' = Undecided
    BY <1>1 DEF BeginBackend
  <2>2. NamesOnce(w)
    BY <1>0, BegunNames
  <2> HIDE DEF w
  <2>3. CASE \E h \in Heuristic : Report(w, h, TRUE)
    BY <1>0, <2>1, <2>3, HeuristicRanks, ReportNames
  <2>4. CASE \E score \in [Event -> Confidence \cup {0}] :
                IF Spectrum(score) = <<>> THEN Substitute(w) ELSE Report(w, Spectrum(score), TRUE)
    <3>1. PICK score \in [Event -> Confidence \cup {0}] : Substitute(w) \/ Report(w, Spectrum(score), TRUE)
      BY <2>4
    <3>2. IsRanking(Spectrum(score))
      BY <1>0, SpectrumRanks
    <3> QED BY <2>1, <3>1, <3>2, SubstituteNames, ReportNames
  <2>5. CASE Proceed(w)
    BY <2>1, <2>2, <2>5, GoesOnNames
  <2> QED BY <1>1, <2>3, <2>4, <2>5 DEF BeginBackend, w
<1>2. CASE CallRaises
  <2>1. UNCHANGED <<given, reported>> /\ verdict' = Undecided
    BY <1>2, <1>a DEF CallRaises
  <2>2. /\ work'.hyps = work.hyps /\ work'.left = work.left /\ work'.probes = work.probes
        /\ work'.kind = work.kind
    BY <1>0, <1>2 DEF CallRaises, IsWork, Field
  <2>3. AllRank'
    BY <2>1 DEF NamingInv, AllRank, IsRanking
  <2>4. NamesOnce(work') /\ HasNext(work')
    <3>1. work # NoWork
      BY <1>2 DEF CallRaises
    <3> QED BY <1>0, <2>2, <3>1 DEF NamesOnce, HasNext
  <2> QED BY <2>1, <2>3, <2>4, StillNames
<1>3. CASE NoAnswer
  <2>1. UNCHANGED given /\ verdict' = Undecided /\ work # NoWork
    BY <1>3, <1>a DEF NoAnswer
  <2>2. CASE work.kind \in {"all_at_once", "binary_search"}
    BY <1>3, <2>1, <2>2, SubstituteNames DEF NoAnswer
  <2>3. CASE work.kind \notin {"all_at_once", "binary_search"}
    <3>1. work.left # <<>>
      BY <1>0, <2>1, <2>3 DEF HasNext
    <3>2. NamesOnce(Onward(work)) /\ Proceed(Onward(work))
      BY <1>0, <1>3, <2>3, <3>1, OnwardNames DEF NoAnswer
    <3> QED BY <2>1, <3>2, GoesOnNames
  <2> QED BY <2>2, <2>3
<1>4. CASE AnswerAllAtOnce
  <2>1. UNCHANGED given /\ verdict' = Undecided
    BY <1>4, <1>a, <1>b DEF AnswerAllAtOnce
  <2>2. PICK s : \E c \in Confidence : Report(work, <<Blame(s, c)>>, TRUE)
    BY <1>4 DEF AnswerAllAtOnce
  <2>3. \A c \in Confidence : IsRanking(<<Blame(s, c)>>)
    BY <1>0, ShortRankings DEF Blame
  <2> QED BY <2>1, <2>2, <2>3, ReportNames
<1>5. CASE AnswerHalf
  <2>1. UNCHANGED given /\ verdict' = Undecided
    BY <1>5, <1>a, <1>b DEF AnswerHalf
  <2> DEFINE mid == Mid(work.lo, work.hi)
             right(upper) == upper = (root \in ShownAsUpper(work.lo, work.hi))
             w(upper) == [work EXCEPT !.lo = IF upper THEN @ ELSE mid + 1,
                                      !.hi = IF upper THEN mid ELSE @,
                                      !.probes = @ + 1, !.retried = FALSE,
                                      !.truthful = @ /\ right(upper)]
  <2>2. PICK upper \in BOOLEAN : Proceed(w(upper))
    BY <1>5 DEF AnswerHalf
  <2>3. /\ w(upper).hyps = work.hyps /\ w(upper).left = work.left
        /\ w(upper).probes = work.probes + 1
    <3> HIDE DEF mid, right
    <3> QED BY <1>0 DEF IsWork, Field
  <2> HIDE DEF w
  <2>4. NamesOnce(w(upper))
    BY <1>0, <2>3 DEF NamesOnce
  <2> QED BY <2>1, <2>2, <2>4, GoesOnNames
<1>6. CASE AnswerStep
  <2>1. UNCHANGED given /\ verdict' = Undecided /\ work # NoWork /\ work.left # <<>>
    BY <1>0, <1>6, <1>a, <1>b DEF AnswerStep, HasNext
  <2>2. CASE Proceed(Onward(work))
    BY <1>0, <2>1, <2>2, OnwardNames, GoesOnNames
  <2>3. CASE \E c \in Confidence :
                Proceed([Onward(work) EXCEPT !.hyps = Append(@, Blame(Row(Head(work.left)), c))])
    <3>1. PICK c \in Confidence :
             Proceed([Onward(work) EXCEPT !.hyps = Append(@, Blame(Row(Head(work.left)), c))])
      BY <2>3
    <3>2. NamesOnce([Onward(work) EXCEPT !.hyps = Append(@, Blame(Row(Head(work.left)), c))])
      BY <1>0, <2>1, OnwardNames
    <3> QED BY <2>1, <3>1, <3>2, GoesOnNames
  <2> QED BY <1>6, <2>2, <2>3 DEF AnswerStep
<1>7. CASE AnswerRescue
  <2>1. UNCHANGED given /\ verdict' = Undecided /\ work # NoWork /\ work.left # <<>>
    BY <1>0, <1>7, <1>a, <1>b DEF AnswerRescue, HasNext
  <2>2. PICK c \in Confidence :
           Proceed([Onward(work) EXCEPT !.hyps = Append(@, Blame(Row(Head(work.left)), c))])
    BY <1>7 DEF AnswerRescue
  <2>3. NamesOnce([Onward(work) EXCEPT !.hyps = Append(@, Blame(Row(Head(work.left)), c))])
    BY <1>0, <2>1, OnwardNames
  <2> QED BY <2>1, <2>2, <2>3, GoesOnNames
<1>8. CASE Conclude
  BY <1>8, ConcludeNames
<1>9. CASE UNCHANGED avars
  <2>1. /\ UNCHANGED <<events, step_index, findings, errors, ensemble, work, reported, verdict>>
        /\ Event' = Event /\ Rows' = Rows
    BY <1>9 DEF avars, Event, Rows
  <2>2. AllRank' /\ SuspectsGiven' /\ NamesOnce(work)' /\ HasNext(work)'
    BY <2>1 DEF NamingInv, AllRank, IsRanking, NamesOnce, HasSteps, StepOrLast, HasNext, NoWork, SuspectsGiven
  <2>3. AgreedIsFirst' /\ (verdict = Undecided \/ work = NoWork)'
    BY <2>1 DEF NamingInv, AgreedIsFirst, Undecided, NoWork
  <2> QED BY <2>2, <2>3 DEF NamingInv
<1> QED BY <1>1, <1>2, <1>3, <1>4, <1>5, <1>6, <1>7, <1>8, <1>9 DEF AttributionNext

\* A row, an event and its step, that every backend that blames any puts first
\* is first in the Borda ranking, for any ensemble and rankings of any lengths.
THEOREM AgreedIsFirstHolds == AttributionSpec => []AgreedIsFirst
<1>1. AInv /\ NamingInv /\ [AttributionNext]_avars => AInv' /\ NamingInv'
  BY NextAInv, NamingStep
<1>2. NamingInv => AgreedIsFirst
  BY DEF NamingInv
<1> QED BY <1>1, <1>2, InitAInv, NamingStarts, PTL DEF AttributionSpec

=============================================================================
