------------------------------ MODULE GuiProofs -------------------------------
(***************************************************************************)
(* Proofs about three parts of the GUI package, which share no state: the  *)
(* evolving taxonomy, the pipeline and the loggers, for any values of      *)
(* their constants.                                                        *)
(***************************************************************************)
EXTENDS EvolvingTaxonomy, Pipeline, BlockLogger, WellFoundedInduction,
        FiniteSetTheorems, TLAPS

-----------------------------------------------------------------------------
(* The evolving taxonomy: any cases and codes, any runs, resumptions, kills. *)

AuditLine == [case : Nat, before : Taxonomy, after : Taxonomy, ended : BOOLEAN]

EvolvingTypeOK ==
    /\ driver \in [pc : {"off", "case", "result", "audit"}, idx : Nat, tax : Taxonomy,
                   done : SUBSET Nat, next : Taxonomy]
    /\ trail \in Seq(AuditLine)
    /\ perCase \in [Case -> Taxonomy \cup {CutShort, NoResult}]

\* Cases that a whole line of the trail names.
Named(case) == \E i \in DOMAIN trail : Whole(i) /\ trail[i].case = case

\* What a driver that runs knows of the trail: the taxonomy it ends with, and
\* that the cases it names are behind it or in its list.
DriverKnows ==
    driver.pc # "off" =>
        /\ trail = <<>> => driver.tax = {}
        /\ trail # <<>> /\ Whole(Len(trail)) => driver.tax = Rebuilt
        /\ \A case \in Nat : Named(case) => case \in driver.done \/ case < driver.idx
        /\ driver.pc \in {"result", "audit"} => driver.idx \in Case /\ driver.idx \notin driver.done
        /\ driver.pc = "audit" => perCase[driver.idx] = driver.next
        /\ driver.idx # 0

TrailOK ==
    /\ \A i \in 2..Len(trail) : Whole(i) /\ Whole(i - 1) => trail[i].before = trail[i - 1].after
    /\ \A i, j \in DOMAIN trail : Whole(i) /\ Whole(j) /\ trail[i].case = trail[j].case => i = j
    /\ trail # <<>> /\ Whole(1) => trail[1].before = {}
    /\ \A i \in DOMAIN trail : Whole(i) => trail[i].case \in Case

EvolvingInv == EvolvingTypeOK /\ TrailOK /\ DriverKnows /\ AuditedHasResult

LEMMA CasesAreNumbers == Case \subseteq Nat \ {0}
  BY EvolvingAssumption, FS_CardinalityType

\* An operation of the model leads from taxonomies to taxonomies.
LEMMA AppliedIsTaxonomy ==
    ASSUME NEW tax \in Taxonomy, NEW case \in Case
    PROVE  Applied(tax, case) \subseteq Taxonomy
<1>1. ASSUME NEW kept \in SUBSET tax, NEW codes \in SUBSET Code
      PROVE  Defined(kept, codes, case) \in Taxonomy
  BY DEF Taxonomy, Defined, KeptCodes
<1>3. \A codes : KeptCodes(tax, codes) \in SUBSET tax
  BY DEF KeptCodes
<1>4. \A kept \in SUBSET tax, codes \in SUBSET Code : Defined(kept, codes, case) \in Taxonomy
  BY <1>1
<1>5. \A codes \in SUBSET Code : Defined(tax, codes, case) \in Taxonomy
  BY <1>4
<1>6. \A s : \A codes \in SUBSET Code : Defined(KeptCodes(tax, s), codes, case) \in Taxonomy
  BY <1>3, <1>4
<1>7. \A c \in Code : {c} \in SUBSET Code
  OBVIOUS
<1> HIDE DEF Taxonomy
<1>8. {Defined(tax, {c}, case) : c \in Code} \subseteq Taxonomy
  BY <1>5, <1>7
<1>9. \A c : Split(tax, c, case) \subseteq Taxonomy
  BY <1>6 DEF Split
<1>10. \A c \in Code : Merged(tax, c, case) \subseteq Taxonomy
  BY <1>6, <1>7 DEF Merged
<1>12. (IF tax = {} THEN {} ELSE {tax}) \subseteq Taxonomy
  OBVIOUS
<1>13. UNION {Split(tax, c, case) : c \in Codes(tax)} \subseteq Taxonomy
  BY <1>9
<1>14. UNION {Merged(tax, c, case) : c \in Code} \subseteq Taxonomy
  BY <1>10
<1> QED  BY <1>8, <1>12, <1>13, <1>14 DEF Applied

\* How an entry gets into the trail: after its last line, or spoiling it.
LEMMA AppendedIs ==
    ASSUME EvolvingTypeOK, NEW entry \in AuditLine
    PROVE  /\ Appended(entry) \in Seq(AuditLine) /\ Appended(entry) # <<>>
           /\ \/ /\ trail # <<>> /\ Len(Appended(entry)) = Len(trail)
                 /\ Appended(entry)[Len(trail)] = BrokenLine
                 /\ \A i \in 1..(Len(trail) - 1) : Appended(entry)[i] = trail[i]
              \/ /\ Len(Appended(entry)) = Len(trail) + 1
                 /\ Appended(entry)[Len(trail) + 1] = entry
                 /\ \A i \in 1..Len(trail) : Appended(entry)[i] = trail[i]
<1>1. trail \in Seq(AuditLine)
  BY DEF EvolvingTypeOK
<1>2. BrokenLine \in AuditLine
  BY DEF BrokenLine, AuditLine, Taxonomy
<1>3. CASE trail # <<>> /\ ~LastLine(trail).ended
  <2>1. Appended(entry) = [trail EXCEPT ![Len(trail)] = BrokenLine]
    BY <1>3 DEF Appended
  <2>2. Len(trail) \in DOMAIN trail
    BY <1>1, <1>3
  <2> QED  BY <1>1, <1>2, <1>3, <2>1, <2>2
<1>4. CASE ~(trail # <<>> /\ ~LastLine(trail).ended)
  <2>1. Appended(entry) = Append(trail, entry)
    BY <1>4 DEF Appended
  <2> QED  BY <1>1, <2>1
<1> QED  BY <1>3, <1>4

\* A trail grown by an entry that fits, or by a broken line, is still a chain.
LEMMA TrailGrows ==
    ASSUME EvolvingInv, driver.pc = "audit",
           NEW entry \in AuditLine, trail' = Appended(entry), perCase' = perCase,
           \/ entry = BrokenLine
           \/ entry # BrokenLine /\ entry.case = driver.idx
              /\ entry.before = driver.tax /\ entry.after = driver.next
    PROVE  /\ trail' \in Seq(AuditLine) /\ TrailOK' /\ AuditedHasResult'
           /\ \A case \in Nat : Named(case)' => Named(case) \/ case = driver.idx
           /\ trail' # <<>>
           /\ Whole(Len(trail))' => \/ trail'[Len(trail')] = entry
<1> USE DEF EvolvingInv
<1>1. /\ EvolvingTypeOK /\ trail \in Seq(AuditLine) /\ Len(trail) \in Nat
      /\ DOMAIN trail = 1..Len(trail)
  BY DEF EvolvingTypeOK
<1>2. trail' \in Seq(AuditLine) /\ trail' # <<>> /\ DOMAIN trail' = 1..Len(trail')
  BY <1>1, AppendedIs
<1>3. ~Named(driver.idx) /\ driver.idx \in Case /\ perCase[driver.idx] = driver.next
  <2>1. driver.idx \in Case /\ driver.idx \notin driver.done /\ perCase[driver.idx] = driver.next
    BY DEF DriverKnows
  <2>2. driver.idx \in Nat /\ ~(driver.idx < driver.idx)
    <3>1. driver.idx \in Nat
      BY <2>1, CasesAreNumbers
    <3>2. \A n \in Nat : ~(n < n)
      OBVIOUS
    <3> QED BY <3>1, <3>2
  <2>3. Named(driver.idx) => driver.idx \in driver.done \/ driver.idx < driver.idx
    BY <2>2 DEF DriverKnows
  <2> QED BY <2>1, <2>2, <2>3
<1>4. CASE /\ trail # <<>> /\ Len(trail') = Len(trail)
           /\ trail'[Len(trail)] = BrokenLine
           /\ \A i \in 1..(Len(trail) - 1) : trail'[i] = trail[i]
  <2>1. \A i \in DOMAIN trail' :
           Whole(i)' => i \in 1..(Len(trail) - 1) /\ Whole(i) /\ trail'[i] = trail[i]
    BY <1>1, <1>2, <1>4 DEF Whole
  <2>2. TrailOK'
    <3>1. \A i \in 2..Len(trail') : Whole(i)' /\ Whole(i - 1)' => trail'[i].before = trail'[i - 1].after
      BY <1>1, <1>2, <1>4, <2>1 DEF TrailOK
    <3>2. \A i, j \in DOMAIN trail' : Whole(i)' /\ Whole(j)' /\ trail'[i].case = trail'[j].case => i = j
      BY <1>1, <1>2, <1>4, <2>1 DEF TrailOK
    <3>3. Whole(1)' => trail'[1].before = {}
      BY <1>1, <1>2, <1>4, <2>1 DEF TrailOK
    <3>4. \A i \in DOMAIN trail' : Whole(i)' => trail'[i].case \in Case
      BY <1>1, <1>2, <1>4, <2>1 DEF TrailOK
    <3> QED  BY <3>1, <3>2, <3>3, <3>4 DEF TrailOK
  <2>3. AuditedHasResult'
    BY <1>1, <1>2, <1>4, <2>1 DEF AuditedHasResult
  <2>4. \A case \in Nat : Named(case)' => Named(case)
    BY <1>1, <1>2, <1>4, <2>1 DEF Named
  <2>5. ~Whole(Len(trail))'
    BY <1>4 DEF Whole
  <2> QED  BY <1>2, <2>2, <2>3, <2>4, <2>5
<1>5. CASE /\ Len(trail') = Len(trail) + 1
           /\ trail'[Len(trail) + 1] = entry
           /\ \A i \in 1..Len(trail) : trail'[i] = trail[i]
  <2>1. \A i \in 1..Len(trail) : trail'[i] = trail[i] /\ (Whole(i)' <=> Whole(i))
    BY <1>5 DEF Whole
  <2>2. \A i : i = Len(trail) + 1 => (Whole(i)' <=> entry # BrokenLine) /\ trail'[i] = entry
    BY <1>5 DEF Whole
  <2>3. TrailOK'
    <3>1. ASSUME NEW i \in 2..Len(trail'), Whole(i)', Whole(i - 1)'
          PROVE  trail'[i].before = trail'[i - 1].after
      <4>1. CASE i \in 2..Len(trail)
        BY <1>1, <2>1, <3>1, <4>1 DEF TrailOK
      <4>2. CASE i = Len(trail) + 1
        <5>1. trail # <<>> /\ i - 1 = Len(trail) /\ Whole(Len(trail)) /\ entry # BrokenLine
          BY <1>1, <2>1, <2>2, <3>1, <4>2
        <5>2. driver.tax = trail[Len(trail)].after
          BY <5>1 DEF DriverKnows, Rebuilt, LastLine
        <5> QED  BY <1>1, <1>5, <2>1, <4>2, <5>1, <5>2
      <4> QED  BY <1>1, <1>5, <4>1, <4>2
    <3>2. ASSUME NEW i \in DOMAIN trail', NEW j \in DOMAIN trail', Whole(i)', Whole(j)',
                 trail'[i].case = trail'[j].case
          PROVE  i = j
      <4>1. \A k \in 1..Len(trail) : Whole(k) => trail[k].case # driver.idx
        BY <1>1, <1>3 DEF Named
      <4>2. CASE i \in 1..Len(trail) /\ j \in 1..Len(trail)
        BY <1>1, <2>1, <3>2, <4>2 DEF TrailOK
      <4>3. CASE i = Len(trail) + 1 /\ j \in 1..Len(trail)
        BY <1>5, <2>1, <2>2, <3>2, <4>1, <4>3
      <4>4. CASE j = Len(trail) + 1 /\ i \in 1..Len(trail)
        BY <1>5, <2>1, <2>2, <3>2, <4>1, <4>4
      <4> QED  BY <1>1, <1>2, <1>5, <4>2, <4>3, <4>4
    <3>3. Whole(1)' => trail'[1].before = {}
      <4>1. CASE trail = <<>>
        BY <1>5, <2>2, <4>1 DEF DriverKnows
      <4>2. CASE trail # <<>>
        BY <1>1, <2>1, <4>2 DEF TrailOK
      <4> QED  BY <4>1, <4>2
    <3>4. ASSUME NEW i \in DOMAIN trail', Whole(i)' PROVE trail'[i].case \in Case
      <4>1. CASE i \in 1..Len(trail)
        BY <1>1, <2>1, <3>4, <4>1 DEF TrailOK
      <4>2. CASE i = Len(trail) + 1
        BY <1>3, <1>5, <2>2, <3>4, <4>2
      <4> QED  BY <1>1, <1>2, <1>5, <4>1, <4>2
    <3> QED  BY <3>1, <3>2, <3>3, <3>4 DEF TrailOK
  <2>4. AuditedHasResult'
    <3> SUFFICES ASSUME NEW i \in DOMAIN trail', Whole(i)'
                 PROVE  perCase[trail'[i].case] = trail'[i].after
      BY DEF AuditedHasResult
    <3>1. CASE i \in 1..Len(trail)
      BY <1>1, <2>1, <3>1 DEF AuditedHasResult
    <3>2. CASE i = Len(trail) + 1
      BY <1>3, <1>5, <2>2, <3>2
    <3> QED  BY <1>1, <1>2, <1>5, <3>1, <3>2
  <2>5. \A case \in Nat : Named(case)' => Named(case) \/ case = driver.idx
    <3> SUFFICES ASSUME NEW i \in DOMAIN trail', Whole(i)'
                 PROVE  Named(trail'[i].case) \/ trail'[i].case = driver.idx
      BY DEF Named
    <3>1. CASE i \in 1..Len(trail)
      BY <1>1, <2>1, <3>1 DEF Named
    <3>2. CASE i = Len(trail) + 1
      BY <1>5, <2>2, <3>2
    <3> QED  BY <1>1, <1>2, <1>5, <3>1, <3>2
  <2> QED  BY <1>2, <1>5, <2>3, <2>4, <2>5
<1> QED  BY <1>1, <1>4, <1>5, AppendedIs

LEMMA StartKeeps ==
    ASSUME EvolvingInv, StartEvolving
    PROVE  EvolvingInv'
<1>1. perCase' = perCase /\ EvolvingTypeOK /\ trail \in Seq(AuditLine)
  BY DEF StartEvolving, EvolvingInv, EvolvingTypeOK
<1>2. {} \in Taxonomy
  BY DEF Taxonomy
<1>3. CASE driver' = [NotDriving EXCEPT !.pc = "case", !.idx = 1] /\ trail' = <<>>
  <2>1. EvolvingTypeOK'
    <3>1. driver' = [pc |-> "case", idx |-> 1, tax |-> {}, done |-> {}, next |-> {}]
      BY <1>3 DEF NotDriving
    <3>2. trail' \in Seq(AuditLine)
      BY <1>3
    <3> HIDE DEF Taxonomy
    <3> QED  BY <1>1, <1>2, <3>1, <3>2 DEF EvolvingTypeOK
  <2>2. TrailOK' /\ AuditedHasResult' /\ DriverKnows'
    BY <1>3 DEF TrailOK, AuditedHasResult, DriverKnows, Named, NotDriving
  <2> QED  BY <2>1, <2>2 DEF EvolvingInv
<1>4. CASE /\ trail # <<>>
           /\ driver' = [pc |-> "case", idx |-> 1, tax |-> Rebuilt, next |-> {},
                         done |-> {trail[i].case : i \in DOMAIN trail}]
           /\ UNCHANGED trail
  <2>0. \A i \in DOMAIN trail : trail[i].case \in Nat /\ trail[i].after \in Taxonomy
    <3>1. \A i \in DOMAIN trail : trail[i] \in AuditLine
      BY <1>1
    <3> QED  BY <3>1 DEF AuditLine
  <2>1. Rebuilt \in Taxonomy
    <3>1. Len(trail) \in DOMAIN trail
      BY <1>1, <1>4
    <3> QED  BY <1>4, <2>0, <3>1 DEF Rebuilt, LastLine
  <2>2. {trail[i].case : i \in DOMAIN trail} \in SUBSET Nat
    BY <2>0
  <2>3. EvolvingTypeOK'
    BY <1>1, <1>2, <1>4, <2>1, <2>2 DEF EvolvingTypeOK
  <2>4. TrailOK' /\ AuditedHasResult'
    BY <1>1, <1>4 DEF EvolvingInv, TrailOK, AuditedHasResult, Whole
  <2>5. DriverKnows'
    <3>1. Rebuilt' = Rebuilt /\ \A case \in Nat : Named(case)' => Named(case)
      BY <1>4 DEF Rebuilt, LastLine, Named, Whole
    <3>2. \A case \in Nat : Named(case) => case \in {trail[i].case : i \in DOMAIN trail}
      BY DEF Named
    <3>3. driver'.pc = "case" /\ driver'.idx = 1 /\ driver'.tax = Rebuilt
          /\ driver'.done = {trail[i].case : i \in DOMAIN trail}
      BY <1>4
    <3> QED  BY <1>4, <3>1, <3>2, <3>3 DEF DriverKnows
  <2> QED  BY <2>3, <2>4, <2>5 DEF EvolvingInv
<1> QED  BY <1>3, <1>4 DEF StartEvolving

LEMMA RunCaseKeeps ==
    ASSUME EvolvingInv, RunCase
    PROVE  EvolvingInv'
<1>1. /\ trail' = trail /\ EvolvingTypeOK /\ trail \in Seq(AuditLine)
      /\ driver.pc = "case" /\ driver.idx \in Case /\ driver.idx \in Nat \ {0}
      /\ driver.idx + 1 \in Nat \ {0}
  <2>1. driver.idx \in Case /\ driver.idx \in Nat \ {0}
    BY CasesAreNumbers DEF RunCase
  <2>2. trail' = trail /\ driver.pc = "case"
    BY DEF RunCase
  <2>3. driver.idx + 1 \in Nat \ {0}
    BY <2>1
  <2> QED  BY <2>1, <2>2, <2>3 DEF EvolvingInv, EvolvingTypeOK
<1>2. Rebuilt' = Rebuilt /\ TrailOK' /\ \A case : Named(case)' <=> Named(case)
  BY <1>1 DEF EvolvingInv, TrailOK, Whole, Rebuilt, LastLine, Named
<1>3. CASE driver' = [driver EXCEPT !.idx = @ + 1] /\ UNCHANGED perCase
  <2>1. EvolvingTypeOK'
    BY <1>1, <1>3 DEF EvolvingTypeOK
  <2>2. AuditedHasResult'
    BY <1>1, <1>3 DEF EvolvingInv, AuditedHasResult, Whole
  <2>3. /\ driver'.pc = driver.pc /\ driver'.tax = driver.tax /\ driver'.done = driver.done
        /\ driver'.idx = driver.idx + 1
    BY <1>1, <1>3 DEF EvolvingTypeOK
  <2>4. DriverKnows'
    BY <1>1, <1>2, <2>3 DEF EvolvingInv, DriverKnows, Whole
  <2> QED  BY <1>2, <2>1, <2>2, <2>4 DEF EvolvingInv
<1>4. CASE /\ driver.idx \notin driver.done
           /\ \E next \in Applied(driver.tax, driver.idx) :
                driver' = [driver EXCEPT !.pc = "result", !.next = next]
           /\ perCase' = [perCase EXCEPT ![driver.idx] = CutShort]
  <2>1. PICK next \in Applied(driver.tax, driver.idx) :
          driver' = [driver EXCEPT !.pc = "result", !.next = next]
    BY <1>4
  <2>2. next \in Taxonomy
    BY <1>1, <2>1, AppliedIsTaxonomy DEF EvolvingTypeOK
  <2>3. EvolvingTypeOK'
    BY <1>1, <1>4, <2>1, <2>2 DEF EvolvingTypeOK
  <2>4. ~Named(driver.idx)
    BY <1>1, <1>4 DEF EvolvingInv, DriverKnows
  <2>5. AuditedHasResult'
    <3>1. \A i \in DOMAIN trail : Whole(i) => trail[i].case # driver.idx
      BY <2>4 DEF Named
    <3> QED  BY <1>1, <1>4, <3>1 DEF EvolvingInv, EvolvingTypeOK, TrailOK, AuditedHasResult, Whole
  <2>6. /\ driver'.pc = "result" /\ driver'.tax = driver.tax /\ driver'.done = driver.done
        /\ driver'.idx = driver.idx
    BY <1>1, <2>1 DEF EvolvingTypeOK
  <2>7. DriverKnows'
    BY <1>1, <1>2, <1>4, <2>6 DEF EvolvingInv, DriverKnows, Whole
  <2> QED  BY <1>2, <2>3, <2>5, <2>7 DEF EvolvingInv
<1> QED  BY <1>3, <1>4 DEF RunCase

LEMMA WriteCaseKeeps ==
    ASSUME EvolvingInv, WriteCase
    PROVE  EvolvingInv'
<1>1. /\ trail' = trail /\ EvolvingTypeOK /\ driver.pc = "result"
      /\ driver' = [driver EXCEPT !.pc = "audit"]
      /\ perCase' = [perCase EXCEPT ![driver.idx] = driver.next]
  BY DEF WriteCase, EvolvingInv
<1>2. Rebuilt' = Rebuilt /\ TrailOK' /\ \A case : Named(case)' <=> Named(case)
  BY <1>1 DEF EvolvingInv, TrailOK, Whole, Rebuilt, LastLine, Named
<1>3. driver.idx \in Case /\ ~Named(driver.idx)
  BY <1>1, CasesAreNumbers DEF EvolvingInv, DriverKnows
<1>4. EvolvingTypeOK'
  BY <1>1, <1>3 DEF EvolvingTypeOK
<1>5. AuditedHasResult'
  <2>1. \A i \in DOMAIN trail : Whole(i) => trail[i].case # driver.idx
    BY <1>3 DEF Named
  <2> QED  BY <1>1, <2>1 DEF EvolvingInv, EvolvingTypeOK, TrailOK, AuditedHasResult, Whole
<1>6. DriverKnows'
  <2>1. /\ driver'.pc = "audit" /\ driver'.tax = driver.tax /\ driver'.done = driver.done
        /\ driver'.idx = driver.idx /\ driver'.next = driver.next
    BY <1>1 DEF EvolvingTypeOK
  <2>2. perCase'[driver.idx] = driver.next
    BY <1>1, <1>3 DEF EvolvingTypeOK
  <2> QED  BY <1>1, <1>2, <1>3, <2>1, <2>2 DEF EvolvingInv, DriverKnows, Whole
<1> QED  BY <1>2, <1>4, <1>5, <1>6 DEF EvolvingInv

LEMMA AuditKeeps ==
    ASSUME EvolvingInv, Audit
    PROVE  EvolvingInv'
<1>1. /\ EvolvingTypeOK /\ driver.pc = "audit" /\ perCase' = perCase
      /\ trail' = Appended(AuditEntry(TRUE))
      /\ driver' = [driver EXCEPT !.pc = "case", !.idx = @ + 1, !.tax = driver.next, !.next = {}]
  BY DEF Audit, EvolvingInv
<1>2. driver.idx \in Case /\ driver.idx \in Nat \ {0}
  BY <1>1, CasesAreNumbers DEF EvolvingInv, DriverKnows
<1>3. /\ AuditEntry(TRUE) \in AuditLine /\ AuditEntry(TRUE) # BrokenLine
      /\ AuditEntry(TRUE).case = driver.idx /\ AuditEntry(TRUE).before = driver.tax
      /\ AuditEntry(TRUE).after = driver.next
  BY <1>1, <1>2 DEF EvolvingTypeOK, AuditEntry, AuditLine, BrokenLine
<1>4. /\ trail' \in Seq(AuditLine) /\ TrailOK' /\ AuditedHasResult'
      /\ \A case \in Nat : Named(case)' => Named(case) \/ case = driver.idx
      /\ trail' # <<>>
      /\ Whole(Len(trail))' => trail'[Len(trail')] = AuditEntry(TRUE)
  <2> HIDE DEF EvolvingInv
  <2> QED  BY <1>1, <1>3, TrailGrows
<1>5. /\ driver'.pc = "case" /\ driver'.tax = driver.next /\ driver'.done = driver.done
      /\ driver'.idx = driver.idx + 1
  BY <1>1 DEF EvolvingTypeOK
<1>6. EvolvingTypeOK'
  <2>1. {} \in Taxonomy
    BY DEF Taxonomy
  <2>2. driver.next \in Taxonomy /\ driver.idx + 1 \in Nat
    BY <1>1, <1>2 DEF EvolvingTypeOK
  <2> HIDE DEF Taxonomy
  <2> QED  BY <1>1, <1>4, <2>1, <2>2 DEF EvolvingTypeOK
<1>7. DriverKnows'
  <2>1. Whole(Len(trail))' => Rebuilt' = driver.next
    BY <1>3, <1>4 DEF Rebuilt, LastLine
  <2>2. \A case \in Nat : Named(case)' => case \in driver.done \/ case < driver.idx + 1
    BY <1>1, <1>2, <1>4 DEF EvolvingInv, DriverKnows
  <2> QED  BY <1>2, <1>4, <1>5, <2>1, <2>2 DEF DriverKnows
<1> QED  BY <1>4, <1>6, <1>7 DEF EvolvingInv

LEMMA EndKeeps ==
    ASSUME EvolvingInv, FinishEvolving \/ CrashEvolving
    PROVE  EvolvingInv'
<1>1. driver' = NotDriving /\ perCase' = perCase /\ EvolvingTypeOK
  BY DEF FinishEvolving, CrashEvolving, EvolvingInv
<1>2. DriverKnows'
  BY <1>1 DEF DriverKnows, NotDriving
<1>3. trail' \in Seq(AuditLine) => EvolvingTypeOK'
  BY <1>1 DEF EvolvingTypeOK, NotDriving, Taxonomy
<1>4. CASE UNCHANGED trail
  <2>1. TrailOK' /\ AuditedHasResult' /\ trail' \in Seq(AuditLine)
    BY <1>1, <1>4 DEF EvolvingInv, EvolvingTypeOK, TrailOK, AuditedHasResult, Whole
  <2> QED  BY <1>2, <1>3, <2>1 DEF EvolvingInv
<1>5. CASE /\ driver.pc = "audit"
           /\ trail' \in {Appended(AuditEntry(FALSE)), Appended(BrokenLine)}
  <2>1. driver.idx \in Nat \ {0}
    BY <1>5, CasesAreNumbers DEF EvolvingInv, DriverKnows
  <2>2. /\ AuditEntry(FALSE) \in AuditLine /\ AuditEntry(FALSE) # BrokenLine
        /\ AuditEntry(FALSE).case = driver.idx /\ AuditEntry(FALSE).before = driver.tax
        /\ AuditEntry(FALSE).after = driver.next
    BY <1>1, <2>1 DEF EvolvingTypeOK, AuditEntry, AuditLine, BrokenLine
  <2>3. BrokenLine \in AuditLine
    BY DEF BrokenLine, AuditLine, Taxonomy
  <2>4. trail' \in Seq(AuditLine) /\ TrailOK' /\ AuditedHasResult'
    BY <1>1, <1>5, <2>2, <2>3, TrailGrows
  <2> QED  BY <1>2, <1>3, <2>4 DEF EvolvingInv
<1> QED  BY <1>4, <1>5 DEF FinishEvolving, CrashEvolving

\* The invariant holds at first and is kept by every step.
LEMMA EvolvingInvHolds == EvolvingSpec => []EvolvingInv
<1>1. EvolvingInit => EvolvingInv
  BY DEF EvolvingInit, EvolvingInv, EvolvingTypeOK, TrailOK, DriverKnows, AuditedHasResult,
         NotDriving, Taxonomy
<1>2. EvolvingInv /\ [EvolvingNext]_evars => EvolvingInv'
  <2>1. ASSUME EvolvingInv, EvolvingNext PROVE EvolvingInv'
    BY <2>1, StartKeeps, RunCaseKeeps, WriteCaseKeeps, AuditKeeps, EndKeeps DEF EvolvingNext
  <2>2. ASSUME EvolvingInv, UNCHANGED evars PROVE EvolvingInv'
    <3>1. driver' = driver /\ trail' = trail /\ perCase' = perCase
      BY <2>2 DEF evars
    <3>2. EvolvingTypeOK' /\ TrailOK' /\ AuditedHasResult'
      BY <2>2, <3>1 DEF EvolvingInv, EvolvingTypeOK, TrailOK, AuditedHasResult, Whole
    <3>3. Rebuilt' = Rebuilt /\ \A case : Named(case)' <=> Named(case)
      BY <3>1 DEF Rebuilt, LastLine, Named, Whole
    <3>4. DriverKnows'
      BY <2>2, <3>1, <3>3 DEF EvolvingInv, DriverKnows, Whole
    <3> QED  BY <3>2, <3>4 DEF EvolvingInv
  <2> QED  BY <2>1, <2>2
<1> QED  BY <1>1, <1>2, PTL DEF EvolvingSpec

\* The audit trail is one history of taxonomies, whatever sequence of runs,
\* resumptions, failures and crashes wrote it (run_full_evolving_pipeline).
THEOREM TrailIsAChainHolds == EvolvingSpec => []TrailIsAChain
<1>1. EvolvingInv => TrailIsAChain
  BY DEF EvolvingInv, TrailOK, DriverKnows, TrailIsAChain
<1> QED  BY <1>1, EvolvingInvHolds, PTL

\* A case that the trail names has its result on disk, whole and from the same
\* decision (run_full_evolving_pipeline).
THEOREM AuditedHasResultHolds == EvolvingSpec => []AuditedHasResult
<1>1. EvolvingInv => AuditedHasResult
  BY DEF EvolvingInv
<1> QED  BY <1>1, EvolvingInvHolds, PTL

-----------------------------------------------------------------------------
(* The pipeline: any tasks, tags, workers, runs and kills, either copy.    *)

SummaryEntry ==
    [task : Task, tag : Tag \cup {NoFile}, status : {"success_after_debug", "failure", "success"},
     how : {"skipped", "failed", "analysed", "success"}, indexed : BOOLEAN]
FileLine == [task : Task \cup {0}, tag : Tag \cup {NoFile, Torn}]
WorkerState ==
    [pc : {"idle", "success", "analyse", "save", "readIndex", "openIndex", "writeIndex", "add",
           "added", "stored"},
     task : Task \cup {0}, tag : Tag \cup {NoFile}, indexed : BOOLEAN, held : SUBSET FileLine]
RunState ==
    [pc : {"off", "work"}, n : Nat, skip : BOOLEAN, todo : SUBSET Task,
     entries : SUBSET SummaryEntry]

PipelineTypeOK ==
    /\ run \in RunState /\ worker \in [PoolWorker -> WorkerState]
    /\ results \in [Dir \X Task -> Tag \cup {NoFile, Torn}]
    /\ index \subseteq FileLine /\ episodes \subseteq FileLine /\ killed \in Nat
    /\ summary \in [n : Nat, entries : SUBSET SummaryEntry, moved : SUBSET Task]

Busy(w) == worker[w].pc # "idle"

\* No worker outlives its run, or holds anything between two tasks, and no
\* summary is of a run that goes on.
RunsOK ==
    /\ summary.n <= run.n
    /\ run.pc = "work" => summary.n < run.n
    /\ run.pc = "off" => \A w \in PoolWorker : ~Busy(w)
    /\ \A w \in PoolWorker : Busy(w) \/ worker[w] = Free

\* gui/__main__.py keeps IF1 and the other tags in directories of their own.
DirsOK ==
    FromMain => \A t \in Task :
        results[<<"rca", t>>] # IF1 /\ results[<<"rca_success", t>>] \in {NoFile, Torn, IF1}

\* A worker has a task of its own, and what it saved is in the result file.
WorkerOK(w) ==
    Busy(w) =>
        /\ worker[w].task \in Task \ run.todo
        /\ \A e \in run.entries : e.task # worker[w].task
        /\ \A v \in PoolWorker \ {w} : Busy(v) => worker[v].task # worker[w].task
        /\ worker[w].pc \in {"save", "readIndex", "openIndex", "writeIndex"} => worker[w].tag # NoFile
        /\ worker[w].pc \in {"success", "analyse", "stored"} => worker[w].tag = NoFile
        /\ worker[w].pc # "save" /\ worker[w].tag # NoFile =>
              results[File(worker[w].task, worker[w].tag)] = worker[w].tag

\* An entry is of a task that was taken, and agrees with its result file.
EntryOK(e) ==
    /\ e.task \notin run.todo
    /\ e.tag # NoFile => results[File(e.task, e.tag)] = e.tag
    /\ e.status = "success_after_debug" => e.tag = IF1 /\ e.tag # NoFile

PipelineInv ==
    /\ PipelineTypeOK /\ RunsOK /\ DirsOK /\ SummaryMatchesResults
    /\ \A w \in PoolWorker : WorkerOK(w)
    /\ run.pc = "work" => \A e \in run.entries : EntryOK(e)

\* With one worker: a line that it is about to put back is in what it holds of
\* the index or of the store; at any other time it is in the file.
Line(x) == [task |-> x.task, tag |-> x.tag]
InIndex(l) == \A w \in PoolWorker :
    /\ worker[w].pc # "writeIndex" => l \in index
    /\ worker[w].pc \in {"openIndex", "writeIndex"} => l \in worker[w].held
InStore(l) == \A w \in PoolWorker :
    IF worker[w].pc \in {"added", "stored"} THEN l \in worker[w].held ELSE l \in episodes

RecordedOK ==
    /\ run.pc = "work" => \A e \in run.entries : e.how = "analysed" =>
          InStore(Line(e)) /\ (e.indexed => InIndex(Line(e)))
    /\ \A w \in PoolWorker :
          /\ worker[w].indexed /\ worker[w].pc \in {"add", "added"} => Line(worker[w]) \in index
          /\ worker[w].pc \in {"idle", "analyse", "save", "success", "stored"} => ~worker[w].indexed

-----------------------------------------------------------------------------
(* Operators of the model. *)

\* Result files of different tasks are different files.
LEMMA FileOf ==
    ASSUME NEW t \in Task, NEW tag
    PROVE  /\ File(t, tag) \in Dir \X Task
           /\ \A u, other : File(u, other) = File(t, tag) => u = t
BY DEF File, Dir

\* The work list is worked off from its first task.
LEMMA FirstIsThere ==
    ASSUME NEW todo, todo \subseteq Task, todo # {}
    PROVE  First(todo) \in todo
<1>1. todo \subseteq Nat
  BY PipelineAssumption
<1>2. IsWellFoundedOn(OpToRel(<, Nat), Nat)
  BY NatLessThanWellFounded
<1>3. PICK t \in todo : \A u \in todo : ~(<<u, t>> \in OpToRel(<, Nat))
  BY <1>1, <1>2, WFMin
<1>4. \A u \in todo : t <= u
  <2> SUFFICES ASSUME NEW u \in todo PROVE t <= u
    OBVIOUS
  <2>1. u < t => <<u, t>> \in OpToRel(<, Nat)
    BY <1>1 DEF OpToRel
  <2>2. ~(u < t) /\ t \in Nat /\ u \in Nat
    BY <1>1, <1>3, <2>1
  <2> QED BY <2>2
<1> QED BY <1>3, <1>4 DEF First

\* With no pool there is no other worker.
LEMMA Sequential ==
    ASSUME ~Parallel, NEW w \in PoolWorker, NEW v \in PoolWorker
    PROVE  v = w
<1>1. IsFiniteSet(PoolWorker) /\ Cardinality(PoolWorker) \in Nat /\ Cardinality(PoolWorker) <= 1
  BY PipelineAssumption, FS_CardinalityType DEF Parallel
<1>2. Cardinality({v, w}) <= 1
  <2>1. {v, w} \subseteq PoolWorker
    OBVIOUS
  <2>2. IsFiniteSet({v, w}) /\ Cardinality({v, w}) <= Cardinality(PoolWorker)
    BY <1>1, <2>1, FS_Subset
  <2>3. Cardinality({v, w}) \in Nat
    BY <2>2, FS_CardinalityType
  <2> QED BY <1>1, <2>2, <2>3
<1>3. Cardinality({v}) = 1 /\ IsFiniteSet({v})
  BY FS_Singleton
<1>4. SUFFICES ASSUME v # w PROVE FALSE
  OBVIOUS
<1>5. Cardinality({v} \cup {w}) = 2
  BY <1>3, <1>4, FS_AddElement
<1>6. {v} \cup {w} = {v, w}
  OBVIOUS
<1> QED BY <1>2, <1>5, <1>6

\* A step of a worker that goes on with its task, and writes no file of others.
LEMMA WorkerGoesOn ==
    ASSUME PipelineInv, NEW w \in PoolWorker, Busy(w), Busy(w)',
           worker' \in [PoolWorker -> WorkerState], \A v \in PoolWorker \ {w} : worker'[v] = worker[v],
           worker'[w].task = worker[w].task, run' = run, summary' = summary, killed' = killed,
           index' \subseteq FileLine, episodes' \subseteq FileLine,
           results' \in [Dir \X Task -> Tag \cup {NoFile, Torn}], DirsOK',
           \A t \in Task, tag \in Tag : t # worker[w].task =>
               results'[File(t, tag)] = results[File(t, tag)],
           worker'[w].pc \in {"save", "readIndex", "openIndex", "writeIndex"} =>
               worker'[w].tag # NoFile,
           worker'[w].pc \in {"success", "analyse", "stored"} => worker'[w].tag = NoFile,
           worker'[w].pc # "save" /\ worker'[w].tag # NoFile =>
               results'[File(worker[w].task, worker'[w].tag)] = worker'[w].tag
    PROVE  PipelineInv'
<1>1. /\ PipelineTypeOK /\ RunsOK /\ DirsOK /\ SummaryMatchesResults
      /\ \A v \in PoolWorker : WorkerOK(v)
      /\ run.pc = "work" => \A e \in run.entries : EntryOK(e)
  BY DEF PipelineInv
<1>2. run.pc = "work" /\ run \in RunState
  BY <1>1 DEF RunsOK, PipelineTypeOK, RunState
<1>3. PipelineTypeOK'
  BY <1>1 DEF PipelineTypeOK
<1>4. RunsOK' /\ SummaryMatchesResults'
  <2>1. summary'.n = summary.n /\ run'.n = run.n /\ run'.pc = "work"
    BY <1>2
  <2>2. \A v \in PoolWorker : Busy(v)' \/ worker'[v] = Free
    BY <1>1 DEF RunsOK, Busy
  <2>3. ~AtRest'
    BY <2>1 DEF AtRest
  <2> QED BY <1>1, <1>2, <2>1, <2>2, <2>3 DEF RunsOK, SummaryMatchesResults
<1>5. \A v \in PoolWorker : Busy(v)' <=> Busy(v)
  BY DEF Busy
<1>6. ASSUME NEW v \in PoolWorker PROVE WorkerOK(v)'
  <2>1. CASE v = w
    BY <1>1, <1>5, <2>1, ZenonT(30) DEF WorkerOK, File
  <2>2. CASE v # w
    <3>1. worker'[v] = worker[v] /\ WorkerOK(v) /\ WorkerOK(w) /\ worker[v] \in WorkerState
      BY <1>1, <2>2 DEF PipelineTypeOK
    <3>2. SUFFICES ASSUME Busy(v) PROVE WorkerOK(v)'
      BY <1>5 DEF WorkerOK
    <3>3. worker[v].task \in Task /\ worker[v].task # worker[w].task
      BY <2>2, <3>1, <3>2 DEF WorkerOK
    <3>4. worker[v].tag # NoFile => worker[v].tag \in Tag
      BY <3>1 DEF WorkerState
    <3>5. worker[v].tag # NoFile =>
             File(worker[v].task, worker[v].tag)' = File(worker[v].task, worker[v].tag)
             /\ results'[File(worker[v].task, worker[v].tag)]
                   = results[File(worker[v].task, worker[v].tag)]
      BY <3>1, <3>3, <3>4 DEF File
    <3>6. \A x \in PoolWorker \ {v} : Busy(x)' => worker'[x].task # worker[v].task
      BY <1>5, <3>1, <3>2 DEF WorkerOK
    <3> QED BY <1>5, <3>1, <3>2, <3>5, <3>6 DEF WorkerOK, File
  <2> QED BY <2>1, <2>2
<1>7. ASSUME NEW e \in run.entries PROVE EntryOK(e)'
  <2>1. EntryOK(e) /\ e \in SummaryEntry /\ e.task # worker[w].task
    BY <1>1, <1>2 DEF WorkerOK, RunState
  <2>2. e.task \in Task /\ (e.tag # NoFile => e.tag \in Tag)
    BY <2>1 DEF SummaryEntry
  <2> QED BY <2>1, <2>2 DEF EntryOK, File
<1> QED BY <1>1, <1>3, <1>4, <1>6, <1>7 DEF PipelineInv

\* What a worker that holds a task has held before the step.
LEMMA BusyWorker ==
    ASSUME PipelineInv, NEW w \in PoolWorker, Busy(w)
    PROVE  /\ worker[w] \in WorkerState /\ worker \in [PoolWorker -> WorkerState]
           /\ worker[w].task \in Task \ run.todo /\ run.pc = "work" /\ run \in RunState
           /\ worker[w].tag # NoFile => worker[w].tag \in Tag
           /\ index \subseteq FileLine /\ episodes \subseteq FileLine
           /\ results \in [Dir \X Task -> Tag \cup {NoFile, Torn}] /\ DirsOK /\ WorkerOK(w)
<1>1. PipelineTypeOK /\ RunsOK /\ DirsOK /\ WorkerOK(w)
  BY DEF PipelineInv
<1>2. worker[w] \in WorkerState /\ worker \in [PoolWorker -> WorkerState] /\ run \in RunState
  BY <1>1 DEF PipelineTypeOK
<1>3. run.pc = "work"
  BY <1>1, <1>2 DEF RunsOK, RunState
<1>4. worker[w].tag # NoFile => worker[w].tag \in Tag
  BY <1>2 DEF WorkerState
<1>5. worker[w].task \in Task \ run.todo
  BY <1>1 DEF WorkerOK
<1> QED BY <1>1, <1>2, <1>3, <1>4, <1>5 DEF PipelineTypeOK

LEMMA AnalyseStep ==
    ASSUME PipelineInv, NEW w \in PoolWorker, Analyse(w)
    PROVE  PipelineInv'
<1>1. Busy(w)
  BY DEF Analyse, Busy
<1>2. /\ worker[w] \in WorkerState /\ worker \in [PoolWorker -> WorkerState]
      /\ worker[w].task \in Task /\ index \subseteq FileLine /\ episodes \subseteq FileLine
      /\ results \in [Dir \X Task -> Tag \cup {NoFile, Torn}] /\ DirsOK /\ WorkerOK(w)
  BY <1>1, BusyWorker
<1>3. worker[w].tag = NoFile
  BY <1>1, <1>2 DEF WorkerOK, Analyse
<1>4. /\ run' = run /\ summary' = summary /\ killed' = killed /\ index' = index
      /\ episodes' = episodes
  BY DEF Analyse
<1>5. CASE worker' = [worker EXCEPT ![w].pc = "add"] /\ UNCHANGED results
  <2>1. worker'[w] \in WorkerState
    BY <1>2, <1>5 DEF WorkerState
  <2>2. /\ worker' \in [PoolWorker -> WorkerState]
        /\ \A v \in PoolWorker \ {w} : worker'[v] = worker[v]
    BY <1>2, <1>5, <2>1
  <2>3. /\ worker'[w].pc = "add" /\ worker'[w].task = worker[w].task
        /\ worker'[w].tag = NoFile
    BY <1>2, <1>3, <1>5 DEF WorkerState
  <2>4. Busy(w)' /\ DirsOK'
    BY <1>2, <1>5, <2>3 DEF Busy, DirsOK
  <2> QED BY <1>1, <1>2, <1>4, <1>5, <2>2, <2>3, <2>4, WorkerGoesOn
<1>6. ASSUME NEW tag \in Tag, worker' = [worker EXCEPT ![w].pc = "save", ![w].tag = tag],
             results' = [results EXCEPT ![File(worker[w].task, tag)] = Torn]
      PROVE  PipelineInv'
  <2>1. worker'[w] \in WorkerState
    BY <1>2, <1>6 DEF WorkerState
  <2>2. /\ worker' \in [PoolWorker -> WorkerState]
        /\ \A v \in PoolWorker \ {w} : worker'[v] = worker[v]
    BY <1>2, <1>6, <2>1
  <2>3. /\ worker'[w].pc = "save" /\ worker'[w].task = worker[w].task
        /\ worker'[w].tag = tag /\ tag # NoFile
    BY <1>2, <1>6, PipelineAssumption DEF WorkerState
  <2>4. Busy(w)'
    BY <2>3 DEF Busy
  <2>5. File(worker[w].task, tag) \in Dir \X Task
    BY <1>2, FileOf
  <2>6. results' \in [Dir \X Task -> Tag \cup {NoFile, Torn}]
    BY <1>2, <1>6, <2>5
  <2>7. \A f \in Dir \X Task : results'[f] = results[f] \/ results'[f] = Torn
    BY <1>2, <1>6, <2>5
  <2>8. DirsOK'
    BY <1>2, <2>7 DEF DirsOK, Dir, Torn, IF1
  <2>9. \A t \in Task, other \in Tag : t # worker[w].task =>
            results'[File(t, other)] = results[File(t, other)]
    BY <1>2, <1>6, <2>5, FileOf
  <2> QED BY <1>1, <1>2, <1>4, <2>2, <2>3, <2>4, <2>6, <2>8, <2>9, WorkerGoesOn
<1> QED BY <1>5, <1>6 DEF Analyse

LEMMA SaveResultStep ==
    ASSUME PipelineInv, NEW w \in PoolWorker, SaveResult(w)
    PROVE  PipelineInv'
<1>1. Busy(w)
  BY DEF SaveResult, Busy
<1>2. /\ worker[w] \in WorkerState /\ worker \in [PoolWorker -> WorkerState]
      /\ worker[w].task \in Task /\ index \subseteq FileLine /\ episodes \subseteq FileLine
      /\ results \in [Dir \X Task -> Tag \cup {NoFile, Torn}] /\ DirsOK /\ WorkerOK(w)
      /\ worker[w].tag # NoFile => worker[w].tag \in Tag
  BY <1>1, BusyWorker
<1>3. worker[w].tag \in Tag /\ worker[w].tag # NoFile
  BY <1>1, <1>2 DEF WorkerOK, SaveResult
<1>4. /\ run' = run /\ summary' = summary /\ killed' = killed /\ index' = index
      /\ episodes' = episodes
      /\ results' = [results EXCEPT ![File(worker[w].task, worker[w].tag)] = worker[w].tag]
  BY DEF SaveResult
<1>5. PICK indexed \in BOOLEAN :
        worker' = [worker EXCEPT ![w].pc = IF indexed THEN "readIndex" ELSE "add",
                                 ![w].indexed = indexed]
  BY DEF SaveResult
<1>6. worker'[w] \in WorkerState
  BY <1>2, <1>5 DEF WorkerState
<1>7. /\ worker' \in [PoolWorker -> WorkerState]
      /\ \A v \in PoolWorker \ {w} : worker'[v] = worker[v]
  BY <1>2, <1>5, <1>6
<1>8. /\ worker'[w].pc \in {"readIndex", "add"} /\ worker'[w].task = worker[w].task
      /\ worker'[w].tag = worker[w].tag
  BY <1>2, <1>5 DEF WorkerState
<1>9. Busy(w)'
  BY <1>8 DEF Busy
<1>10. File(worker[w].task, worker[w].tag) \in Dir \X Task
  BY <1>2, FileOf
<1>11. /\ results' \in [Dir \X Task -> Tag \cup {NoFile, Torn}]
       /\ results'[File(worker[w].task, worker[w].tag)] = worker[w].tag
  BY <1>2, <1>3, <1>4, <1>10
<1>12. DirsOK'
  BY <1>2, <1>3, <1>4, <1>10 DEF DirsOK, Dir, File, IF1
<1>13. \A t \in Task, other \in Tag : t # worker[w].task =>
           results'[File(t, other)] = results[File(t, other)]
  BY <1>2, <1>4, <1>10, FileOf
<1> QED BY <1>1, <1>2, <1>3, <1>4, <1>7, <1>8, <1>9, <1>11, <1>12, <1>13, WorkerGoesOn

LEMMA ReadIndexStep ==
    ASSUME PipelineInv, NEW w \in PoolWorker, ReadIndex(w)
    PROVE  PipelineInv'
<1>1. Busy(w)
  BY DEF ReadIndex, Busy
<1>2. /\ worker[w] \in WorkerState /\ worker \in [PoolWorker -> WorkerState]
      /\ worker[w].task \in Task /\ index \subseteq FileLine /\ episodes \subseteq FileLine
      /\ results \in [Dir \X Task -> Tag \cup {NoFile, Torn}] /\ DirsOK /\ WorkerOK(w)
  BY <1>1, BusyWorker
<1>3. /\ run' = run /\ summary' = summary /\ killed' = killed /\ index' = index
      /\ episodes' = episodes /\ results' = results
      /\ worker' = [worker EXCEPT ![w].pc = "openIndex", ![w].held = index]
  BY DEF ReadIndex
<1>4. worker'[w] \in WorkerState
  BY <1>2, <1>3 DEF WorkerState
<1>5. /\ worker' \in [PoolWorker -> WorkerState]
      /\ \A v \in PoolWorker \ {w} : worker'[v] = worker[v]
  BY <1>2, <1>3, <1>4
<1>6. /\ worker'[w].pc = "openIndex" /\ worker'[w].task = worker[w].task
      /\ worker'[w].tag = worker[w].tag
  BY <1>2, <1>3 DEF WorkerState
<1>7. Busy(w)' /\ DirsOK'
  BY <1>2, <1>3, <1>6 DEF Busy, DirsOK
<1>8. worker[w].tag # NoFile /\ results[File(worker[w].task, worker[w].tag)] = worker[w].tag
  BY <1>1, <1>2 DEF WorkerOK, ReadIndex
<1> QED BY <1>1, <1>2, <1>3, <1>5, <1>6, <1>7, <1>8, WorkerGoesOn

LEMMA OpenIndexStep ==
    ASSUME PipelineInv, NEW w \in PoolWorker, OpenIndex(w)
    PROVE  PipelineInv'
<1>1. Busy(w)
  BY DEF OpenIndex, Busy
<1>2. /\ worker[w] \in WorkerState /\ worker \in [PoolWorker -> WorkerState]
      /\ worker[w].task \in Task /\ episodes \subseteq FileLine
      /\ results \in [Dir \X Task -> Tag \cup {NoFile, Torn}] /\ DirsOK /\ WorkerOK(w)
  BY <1>1, BusyWorker
<1>3. /\ run' = run /\ summary' = summary /\ killed' = killed /\ index' = {}
      /\ episodes' = episodes /\ results' = results
      /\ worker' = [worker EXCEPT ![w].pc = "writeIndex"]
  BY DEF OpenIndex
<1>4. worker'[w] \in WorkerState
  BY <1>2, <1>3 DEF WorkerState
<1>5. /\ worker' \in [PoolWorker -> WorkerState] /\ index' \subseteq FileLine
      /\ \A v \in PoolWorker \ {w} : worker'[v] = worker[v]
  BY <1>2, <1>3, <1>4
<1>6. /\ worker'[w].pc = "writeIndex" /\ worker'[w].task = worker[w].task
      /\ worker'[w].tag = worker[w].tag
  BY <1>2, <1>3 DEF WorkerState
<1>7. Busy(w)' /\ DirsOK'
  BY <1>2, <1>3, <1>6 DEF Busy, DirsOK
<1>8. worker[w].tag # NoFile /\ results[File(worker[w].task, worker[w].tag)] = worker[w].tag
  BY <1>1, <1>2 DEF WorkerOK, OpenIndex
<1> QED BY <1>1, <1>2, <1>3, <1>5, <1>6, <1>7, <1>8, WorkerGoesOn

\* The line of a task, and what a worker writes to the index.
LEMMA LineOf ==
    ASSUME NEW t \in Task, NEW tag \in Tag \cup {NoFile}
    PROVE  [task |-> t, tag |-> tag] \in FileLine
BY DEF FileLine

LEMMA UpsertedIsLines ==
    ASSUME NEW w \in PoolWorker, worker[w] \in WorkerState, worker[w].task \in Task
    PROVE  Upserted(w) \subseteq FileLine
<1>1. worker[w].held \subseteq FileLine /\ worker[w].tag \in Tag \cup {NoFile}
  BY DEF WorkerState
<1>2. [task |-> worker[w].task, tag |-> worker[w].tag] \in FileLine
  BY <1>1, LineOf
<1> QED BY <1>1, <1>2 DEF Upserted

LEMMA WriteIndexStep ==
    ASSUME PipelineInv, NEW w \in PoolWorker, WriteIndex(w)
    PROVE  PipelineInv'
<1>1. Busy(w)
  BY DEF WriteIndex, Busy
<1>2. /\ worker[w] \in WorkerState /\ worker \in [PoolWorker -> WorkerState]
      /\ worker[w].task \in Task /\ index \subseteq FileLine /\ episodes \subseteq FileLine
      /\ results \in [Dir \X Task -> Tag \cup {NoFile, Torn}] /\ DirsOK /\ WorkerOK(w)
  BY <1>1, BusyWorker
<1>3. /\ run' = run /\ summary' = summary /\ killed' = killed
      /\ episodes' = episodes /\ results' = results
      /\ worker' = [worker EXCEPT ![w].pc = "add", ![w].held = {}]
  BY DEF WriteIndex
<1>4. index' \subseteq FileLine
  <2>1. PICK rest \in SUBSET index : index' = Upserted(w) \cup rest
    BY DEF WriteIndex
  <2> QED BY <1>2, <2>1, UpsertedIsLines
<1>5. worker'[w] \in WorkerState
  BY <1>2, <1>3 DEF WorkerState
<1>6. /\ worker' \in [PoolWorker -> WorkerState]
      /\ \A v \in PoolWorker \ {w} : worker'[v] = worker[v]
  BY <1>2, <1>3, <1>5
<1>7. /\ worker'[w].pc = "add" /\ worker'[w].task = worker[w].task
      /\ worker'[w].tag = worker[w].tag
  BY <1>2, <1>3 DEF WorkerState
<1>8. Busy(w)' /\ DirsOK'
  BY <1>2, <1>3, <1>7 DEF Busy, DirsOK
<1>9. results[File(worker[w].task, worker[w].tag)] = worker[w].tag
  BY <1>1, <1>2 DEF WorkerOK, WriteIndex
<1> QED BY <1>1, <1>2, <1>3, <1>4, <1>6, <1>7, <1>8, <1>9, WorkerGoesOn

\* A worker that raises or returns is free again. What is added to the entries
\* agrees with the result file of the task it had.
LEMMA WorkerIsFreed ==
    ASSUME PipelineInv, NEW w \in PoolWorker, Busy(w),
           worker' = [worker EXCEPT ![w] = Free], results' = results, index' = index,
           episodes' \subseteq FileLine, summary' = summary, killed' = killed,
           run' \in RunState, run'.n = run.n, run'.pc = "work", run'.todo = run.todo,
           \A e \in run'.entries : \/ e \in run.entries
                                   \/ EntryOK(e) /\ e.task = worker[w].task
    PROVE  PipelineInv'
<1>1. /\ PipelineTypeOK /\ RunsOK /\ DirsOK /\ SummaryMatchesResults
      /\ \A v \in PoolWorker : WorkerOK(v)
      /\ run.pc = "work" => \A e \in run.entries : EntryOK(e)
  BY DEF PipelineInv
<1>2. run.pc = "work" /\ run \in RunState /\ worker \in [PoolWorker -> WorkerState]
  BY BusyWorker
<1>3. Free \in WorkerState
  BY DEF Free, WorkerState
<1>4. PipelineTypeOK'
  BY <1>1, <1>2, <1>3 DEF PipelineTypeOK
<1>5. RunsOK' /\ SummaryMatchesResults'
  <2>1. summary'.n = summary.n /\ run'.n = run.n /\ run'.pc = "work"
    OBVIOUS
  <2>2. \A v \in PoolWorker : Busy(v)' \/ worker'[v] = Free
    BY <1>1, <1>2 DEF RunsOK, Busy
  <2>3. ~AtRest'
    BY <2>1 DEF AtRest
  <2> QED BY <1>1, <1>2, <2>1, <2>2, <2>3 DEF RunsOK, SummaryMatchesResults
<1>6. DirsOK'
  BY <1>1 DEF DirsOK
<1>7. ~Busy(w)' /\ \A v \in PoolWorker \ {w} : worker'[v] = worker[v]
  BY <1>2 DEF Busy, Free
<1>8. ASSUME NEW v \in PoolWorker PROVE WorkerOK(v)'
  <2>1. SUFFICES ASSUME Busy(v)' PROVE WorkerOK(v)'
    BY DEF WorkerOK
  <2>2. v # w /\ worker'[v] = worker[v] /\ Busy(v)
    BY <1>7, <2>1 DEF Busy
  <2>3. \A x \in PoolWorker \ {v} : Busy(x)' => Busy(x) /\ worker'[x] = worker[x]
    BY <1>7 DEF Busy
  <2>4. \A e \in run'.entries : e.task # worker[v].task
    BY <1>1, <2>2 DEF WorkerOK
  <2> QED BY <1>1, <2>2, <2>3, <2>4 DEF WorkerOK, File
<1>9. ASSUME NEW e \in run'.entries PROVE EntryOK(e)'
  <2>1. EntryOK(e)
    BY <1>1, <1>2
  <2> QED BY <2>1 DEF EntryOK, File
<1> QED BY <1>1, <1>4, <1>5, <1>6, <1>8, <1>9 DEF PipelineInv

\* A run that is killed, or whose only worker dies, leaves no worker behind.
LEMMA RunEnds ==
    ASSUME PipelineInv, run.pc = "work", run' \in RunState, run'.pc = "off", run'.n = run.n,
           worker' \in [PoolWorker -> WorkerState], \A w \in PoolWorker : worker'[w] = Free,
           index' \subseteq FileLine, results' = results, episodes' = episodes,
           summary' = summary, killed' \in Nat
    PROVE  PipelineInv'
<1>1. PipelineTypeOK /\ RunsOK /\ DirsOK
  BY DEF PipelineInv
<1>2. PipelineTypeOK' /\ DirsOK'
  BY <1>1 DEF PipelineTypeOK, DirsOK
<1>3. \A w \in PoolWorker : ~Busy(w)'
  BY DEF Busy, Free
<1>4. RunsOK' /\ SummaryMatchesResults'
  <2>1. summary.n < run.n /\ run.n \in Nat /\ summary.n \in Nat
    BY <1>1 DEF RunsOK, PipelineTypeOK, RunState
  <2>2. summary'.n < run'.n /\ summary'.n <= run'.n
    BY <2>1
  <2>3. ~AtRest'
    BY <2>1 DEF AtRest
  <2> QED BY <1>3, <2>2, <2>3 DEF RunsOK, SummaryMatchesResults
<1>5. \A w \in PoolWorker : WorkerOK(w)'
  BY <1>3 DEF WorkerOK
<1> QED BY <1>2, <1>4, <1>5 DEF PipelineInv

LEMMA OpenEpisodesStep ==
    ASSUME PipelineInv, NEW w \in PoolWorker, OpenEpisodes(w)
    PROVE  PipelineInv'
<1>1. Busy(w)
  BY DEF OpenEpisodes, Busy
<1>2. /\ worker[w] \in WorkerState /\ worker \in [PoolWorker -> WorkerState]
      /\ worker[w].task \in Task /\ index \subseteq FileLine /\ episodes \subseteq FileLine
      /\ results \in [Dir \X Task -> Tag \cup {NoFile, Torn}] /\ DirsOK /\ WorkerOK(w)
      /\ run.pc = "work" /\ run \in RunState
  BY <1>1, BusyWorker
<1>3. results' = results /\ index' = index /\ summary' = summary /\ killed' = killed
  BY DEF OpenEpisodes
<1>4. CASE episodes = TornStore
  <2>1. worker' = [worker EXCEPT ![w] = Free] /\ run' = Raised(run) /\ episodes' = episodes
    BY <1>4 DEF OpenEpisodes
  <2>2. CASE Parallel
    <3>1. run' = run
      BY <2>1, <2>2 DEF Raised
    <3> QED BY <1>1, <1>2, <1>3, <2>1, <3>1, WorkerIsFreed
  <2>3. CASE ~Parallel
    <3>1. run' = [run EXCEPT !.pc = "off", !.todo = {}]
      BY <2>1, <2>3 DEF Raised
    <3>2. run' \in RunState /\ run'.pc = "off" /\ run'.n = run.n
      BY <1>2, <3>1 DEF RunState
    <3>3. Free \in WorkerState
      BY DEF Free, WorkerState
    <3>4. worker' \in [PoolWorker -> WorkerState] /\ \A v \in PoolWorker : worker'[v] = Free
      BY <1>2, <2>1, <2>3, <3>3, Sequential
    <3>5. killed' \in Nat
      BY <1>3 DEF PipelineInv, PipelineTypeOK
    <3> QED BY <1>2, <1>3, <2>1, <3>2, <3>4, <3>5, RunEnds
  <2> QED BY <2>2, <2>3
<1>5. CASE episodes # TornStore
  <2>1. /\ worker' = [worker EXCEPT ![w].pc = IF @ = "add" THEN "added" ELSE "stored",
                                    ![w].held = episodes]
        /\ episodes' = TornStore /\ run' = run
    BY <1>5 DEF OpenEpisodes
  <2>2. worker[w].pc \in {"add", "success"}
    BY DEF OpenEpisodes
  <2>3. worker'[w] \in WorkerState
    <3>1. CASE worker[w].pc = "add"
      <4>1. worker' = [worker EXCEPT ![w].pc = "added", ![w].held = episodes]
        BY <2>1, <3>1
      <4> QED BY <1>2, <4>1 DEF WorkerState
    <3>2. CASE worker[w].pc = "success"
      <4>1. worker' = [worker EXCEPT ![w].pc = "stored", ![w].held = episodes]
        BY <2>1, <3>2
      <4> QED BY <1>2, <4>1 DEF WorkerState
    <3> QED BY <2>2, <3>1, <3>2
  <2>4. /\ worker' \in [PoolWorker -> WorkerState]
        /\ \A v \in PoolWorker \ {w} : worker'[v] = worker[v]
    BY <1>2, <2>1, <2>3
  <2>5. /\ worker'[w].pc = (IF worker[w].pc = "add" THEN "added" ELSE "stored")
        /\ worker'[w].task = worker[w].task /\ worker'[w].tag = worker[w].tag
    BY <1>2, <2>1 DEF WorkerState
  <2>6. Busy(w)' /\ DirsOK'
    BY <1>2, <1>3, <2>5 DEF Busy, DirsOK
  <2>7. TornStore \subseteq FileLine
    BY DEF TornStore, FileLine
  <2>8. /\ worker'[w].pc = "stored" => worker'[w].tag = NoFile
        /\ worker'[w].tag # NoFile => results[File(worker[w].task, worker[w].tag)] = worker[w].tag
    BY <1>1, <1>2, <2>2, <2>5 DEF WorkerOK
  <2> QED BY <1>1, <1>2, <1>3, <2>1, <2>2, <2>4, <2>5, <2>6, <2>7, <2>8, WorkerGoesOn
<1> QED BY <1>4, <1>5

LEMMA WriteEpisodesStep ==
    ASSUME PipelineInv, NEW w \in PoolWorker, WriteEpisodes(w)
    PROVE  PipelineInv'
<1>1. Busy(w)
  BY DEF WriteEpisodes, Busy
<1>2. /\ worker[w] \in WorkerState /\ worker[w].task \in Task \ run.todo
      /\ WorkerOK(w) /\ run.pc = "work" /\ run \in RunState
  BY <1>1, BusyWorker
<1>3. results' = results /\ index' = index /\ summary' = summary /\ killed' = killed
  BY DEF WriteEpisodes
<1>4. PICK e : /\ run' = [run EXCEPT !.entries = @ \cup {e}]
               /\ worker' = [worker EXCEPT ![w] = Free]
               /\ e = IF worker[w].pc = "stored"
                      THEN Entry(worker[w].task, NoFile, "success", "success", FALSE)
                      ELSE Entry(worker[w].task, worker[w].tag, "failure",
                                 IF worker[w].tag = NoFile THEN "failed" ELSE "analysed",
                                 worker[w].indexed)
  BY DEF WriteEpisodes, Collected
<1>5. e \in SummaryEntry /\ e.task = worker[w].task
  BY <1>2, <1>4 DEF Entry, SummaryEntry, WorkerState
<1>6. EntryOK(e)
  <2>1. worker[w].pc # "save"
    BY DEF WriteEpisodes
  <2>2. e.status # "success_after_debug" /\ e.tag \in {NoFile, worker[w].tag}
    BY <1>4 DEF Entry
  <2> QED BY <1>1, <1>2, <1>5, <2>1, <2>2 DEF EntryOK, WorkerOK
<1>7. /\ run' \in RunState /\ run'.n = run.n /\ run'.pc = "work" /\ run'.todo = run.todo
      /\ run'.entries = run.entries \cup {e}
  BY <1>2, <1>4, <1>5 DEF RunState
<1>8. episodes' \subseteq FileLine
  <2>1. episodes' = worker[w].held \cup {[task |-> worker[w].task, tag |-> worker[w].tag]}
    BY DEF WriteEpisodes
  <2>2. worker[w].held \subseteq FileLine /\ worker[w].tag \in Tag \cup {NoFile}
    BY <1>2 DEF WorkerState
  <2>3. [task |-> worker[w].task, tag |-> worker[w].tag] \in FileLine
    BY <1>2, <2>2, LineOf
  <2> QED BY <2>1, <2>2, <2>3
<1> QED BY <1>1, <1>3, <1>4, <1>5, <1>6, <1>7, <1>8, WorkerIsFreed

LEMMA StartRunStep ==
    ASSUME PipelineInv, StartRun
    PROVE  PipelineInv'
<1>1. PipelineTypeOK /\ RunsOK /\ DirsOK
  BY DEF PipelineInv
<1>2. PICK skip \in BOOLEAN :
        run' = [pc |-> "work", n |-> run.n + 1, skip |-> skip, todo |-> Task, entries |-> {}]
  BY DEF StartRun
<1>3. /\ run.pc = "off" /\ worker' = worker /\ results' = results /\ index' = index
      /\ episodes' = episodes /\ summary' = summary /\ killed' = killed
  BY DEF StartRun
<1>4. run.n \in Nat /\ summary.n \in Nat /\ summary.n <= run.n
  BY <1>1 DEF RunsOK, PipelineTypeOK, RunState
<1>5. run' \in RunState /\ summary'.n < run'.n /\ summary'.n <= run'.n
  BY <1>2, <1>3, <1>4 DEF RunState
<1>6. PipelineTypeOK' /\ DirsOK'
  BY <1>1, <1>3, <1>5 DEF PipelineTypeOK, DirsOK
<1>7. \A w \in PoolWorker : ~Busy(w) /\ ~Busy(w)' /\ worker'[w] = Free
  BY <1>1, <1>3 DEF RunsOK, Busy
<1>8. RunsOK'
  BY <1>2, <1>5, <1>7 DEF RunsOK
<1>9. SummaryMatchesResults' /\ \A w \in PoolWorker : WorkerOK(w)'
  BY <1>2, <1>7 DEF SummaryMatchesResults, AtRest, WorkerOK
<1> QED BY <1>2, <1>6, <1>8, <1>9 DEF PipelineInv

\* A task leaves the work list; its entry agrees with its result file.
LEMMA TaskIsSettled ==
    ASSUME PipelineInv, run.pc = "work", NEW t \in run.todo,
           run' \in RunState, run'.pc = "work", run'.n = run.n, run'.todo = run.todo \ {t},
           worker' = worker, results' = results, index' = index, episodes' = episodes,
           summary' = summary, killed' = killed,
           \A e \in run'.entries \ run.entries :
               /\ e.task = t
               /\ e.tag # NoFile => results[File(e.task, e.tag)] = e.tag
               /\ e.status = "success_after_debug" => e.tag = IF1 /\ e.tag # NoFile
    PROVE  PipelineInv'
<1>1. /\ PipelineTypeOK /\ RunsOK /\ DirsOK /\ SummaryMatchesResults
      /\ \A v \in PoolWorker : WorkerOK(v)
      /\ \A e \in run.entries : EntryOK(e)
  BY DEF PipelineInv
<1>2. PipelineTypeOK' /\ DirsOK'
  BY <1>1 DEF PipelineTypeOK, DirsOK
<1>3. RunsOK' /\ SummaryMatchesResults'
  BY <1>1 DEF RunsOK, SummaryMatchesResults, AtRest, Busy
<1>4. ASSUME NEW v \in PoolWorker PROVE WorkerOK(v)'
  <2>1. SUFFICES ASSUME Busy(v) PROVE WorkerOK(v)'
    BY DEF WorkerOK, Busy
  <2>2. worker[v].task \in Task \ run.todo /\ worker[v].task # t /\ WorkerOK(v)
    BY <1>1, <2>1 DEF WorkerOK
  <2>3. \A e \in run'.entries : e.task # worker[v].task
    BY <2>1, <2>2 DEF WorkerOK
  <2> QED BY <2>1, <2>2, <2>3 DEF WorkerOK, Busy, File
<1>5. ASSUME NEW e \in run'.entries PROVE EntryOK(e)'
  BY <1>1 DEF EntryOK, File
<1> QED BY <1>2, <1>3, <1>4, <1>5 DEF PipelineInv

\* The file that is taken for an existing result is the one of its tag.
LEMMA ExistingIsOfTag ==
    ASSUME DirsOK, NEW t \in Task, results[Existing(t)] \in Tag
    PROVE  File(t, results[Existing(t)]) = Existing(t)
<1>1. results[Existing(t)] # NoFile /\ results[Existing(t)] # Torn
  BY PipelineAssumption
<1>2. CASE FromMain /\ results[<<"rca", t>>] = NoFile
  BY <1>1, <1>2 DEF Existing, File, DirsOK
<1>3. CASE FromMain /\ results[<<"rca", t>>] # NoFile
  BY <1>1, <1>3 DEF Existing, File, DirsOK
<1>4. CASE ~FromMain
  BY <1>4 DEF Existing, File
<1> QED BY <1>2, <1>3, <1>4

\* A worker takes a task that no other worker and no entry is about.
LEMMA TaskIsTaken ==
    ASSUME PipelineInv, run.pc = "work", NEW t \in run.todo, NEW w \in PoolWorker, ~Busy(w),
           run' = [run EXCEPT !.todo = @ \ {t}], NEW pc \in {"success", "analyse"},
           worker' = [worker EXCEPT ![w].pc = pc, ![w].task = t],
           results' = results, index' = index, episodes' = episodes,
           summary' = summary, killed' = killed
    PROVE  PipelineInv'
<1>1. /\ PipelineTypeOK /\ RunsOK /\ DirsOK /\ SummaryMatchesResults
      /\ \A v \in PoolWorker : WorkerOK(v)
      /\ \A e \in run.entries : EntryOK(e)
  BY DEF PipelineInv
<1>2. /\ run \in RunState /\ worker \in [PoolWorker -> WorkerState] /\ t \in Task
      /\ worker[w] = Free
  BY <1>1 DEF PipelineTypeOK, RunState, RunsOK
<1>3. /\ run' \in RunState /\ run'.pc = "work" /\ run'.n = run.n
      /\ run'.todo = run.todo \ {t} /\ run'.entries = run.entries
  BY <1>2 DEF RunState
<1>4. worker'[w] \in WorkerState
  BY <1>2 DEF WorkerState
<1>5. /\ worker' \in [PoolWorker -> WorkerState]
      /\ \A v \in PoolWorker \ {w} : worker'[v] = worker[v]
  BY <1>2, <1>4
<1>6. worker'[w].pc = pc /\ worker'[w].task = t /\ worker'[w].tag = NoFile
  <2>1. worker[w] \in WorkerState
    BY <1>2
  <2>2. Free.tag = NoFile
    BY DEF Free
  <2>3. worker'[w].pc = pc /\ worker'[w].task = t /\ worker'[w].tag = worker[w].tag
    BY <1>2, <2>1 DEF WorkerState
  <2> QED BY <1>2, <2>2, <2>3
<1>7. PipelineTypeOK' /\ DirsOK'
  BY <1>1, <1>3, <1>5 DEF PipelineTypeOK, DirsOK
<1>8. Busy(w)' /\ \A v \in PoolWorker \ {w} : Busy(v)' <=> Busy(v)
  BY <1>5, <1>6 DEF Busy
<1>9. RunsOK' /\ SummaryMatchesResults'
  BY <1>1, <1>3, <1>5, <1>8 DEF RunsOK, SummaryMatchesResults, AtRest
<1>10. \A v \in PoolWorker \ {w} : Busy(v) => worker[v].task # t
  BY <1>1 DEF WorkerOK
<1>11. WorkerOK(w)'
  <2>1. worker'[w].task \in Task \ run'.todo
    BY <1>2, <1>3, <1>6
  <2>2. \A e \in run'.entries : e.task # worker'[w].task
    BY <1>1, <1>3, <1>6 DEF EntryOK
  <2>3. \A v \in PoolWorker \ {w} : Busy(v)' => worker'[v].task # worker'[w].task
    BY <1>5, <1>6, <1>8, <1>10
  <2>4. ~(worker'[w].pc \in {"save", "readIndex", "openIndex", "writeIndex"})
    BY <1>6
  <2> QED BY <1>6, <2>1, <2>2, <2>3, <2>4 DEF WorkerOK
<1>12. ASSUME NEW v \in PoolWorker \ {w} PROVE WorkerOK(v)'
  <2>1. SUFFICES ASSUME Busy(v) PROVE WorkerOK(v)'
    BY <1>8 DEF WorkerOK
  <2>2. WorkerOK(v) /\ worker'[v] = worker[v]
    BY <1>1, <1>5
  <2>3. \A x \in PoolWorker \ {v} : Busy(x)' => worker'[x].task # worker'[v].task
    BY <1>5, <1>6, <1>8, <1>10, <2>1, <2>2 DEF WorkerOK
  <2> QED BY <1>3, <2>1, <2>2, <2>3 DEF WorkerOK, File
<1>13. ASSUME NEW e \in run'.entries PROVE EntryOK(e)'
  BY <1>1, <1>3 DEF EntryOK, File
<1> QED BY <1>7, <1>9, <1>11, <1>12, <1>13 DEF PipelineInv

LEMMA TakeStep ==
    ASSUME PipelineInv, NEW w \in PoolWorker, Take(w)
    PROVE  PipelineInv'
<1>1. /\ PipelineTypeOK /\ DirsOK /\ run \in RunState
      /\ \A v \in PoolWorker : WorkerOK(v)
  BY DEF PipelineInv, PipelineTypeOK
<1>2. /\ run.pc = "work" /\ run.todo # {} /\ ~Busy(w) /\ results' = results /\ index' = index
      /\ episodes' = episodes /\ summary' = summary /\ killed' = killed
  BY DEF Take, Busy
<1>3. PICK t : t = First(run.todo)
  OBVIOUS
<1>4. t \in run.todo /\ t \in Task
  BY <1>1, <1>2, <1>3, FirstIsThere DEF RunState
<1>5. PICK left : left = [run EXCEPT !.todo = @ \ {t}]
  OBVIOUS
<1>6. /\ left \in RunState /\ left.pc = "work" /\ left.n = run.n /\ left.todo = run.todo \ {t}
      /\ left.entries = run.entries
  BY <1>1, <1>2, <1>5 DEF RunState
<1>7. CASE run' = left /\ UNCHANGED worker
  <2>1. run'.entries \ run.entries = {}
    BY <1>6, <1>7
  <2> QED BY <1>2, <1>4, <1>6, <1>7, <2>1, TaskIsSettled
<1>8. CASE ~Parallel /\ run' = Raised(left) /\ UNCHANGED worker
  <2>1. run' = [left EXCEPT !.pc = "off", !.todo = {}]
    BY <1>8 DEF Raised
  <2>2. run' \in RunState /\ run'.pc = "off" /\ run'.n = run.n
    BY <1>6, <2>1 DEF RunState
  <2>3. \A v \in PoolWorker : v = w
    BY <1>8, Sequential
  <2>4. worker \in [PoolWorker -> WorkerState] /\ worker[w] = Free
    BY <1>1, <1>2 DEF PipelineInv, PipelineTypeOK, RunsOK
  <2>5. index \subseteq FileLine /\ killed \in Nat
    BY <1>1 DEF PipelineTypeOK
  <2> QED BY <1>2, <1>8, <2>2, <2>3, <2>4, <2>5, RunEnds
<1>9. ASSUME NEW tag \in Tag, tag = results[Existing(t)], NEW status,
             status = IF tag = IF1 THEN "success_after_debug" ELSE "failure",
             run' = [left EXCEPT !.entries = @ \cup {Entry(t, tag, status, "skipped", FALSE)}],
             UNCHANGED worker
      PROVE  PipelineInv'
  <2>1. PICK e : e = Entry(t, tag, status, "skipped", FALSE)
    OBVIOUS
  <2>2. e \in SummaryEntry /\ e.task = t /\ e.tag = tag /\ e.status = status
    BY <1>4, <1>9, <2>1 DEF Entry, SummaryEntry
  <2>3. /\ run' \in RunState /\ run'.pc = "work" /\ run'.n = run.n
        /\ run'.todo = run.todo \ {t} /\ run'.entries = run.entries \cup {e}
    BY <1>6, <1>9, <2>1, <2>2 DEF RunState
  <2>4. results[File(t, tag)] = tag
    BY <1>1, <1>4, <1>9, ExistingIsOfTag
  <2>5. status = "success_after_debug" => tag = IF1 /\ tag # NoFile
    BY <1>9, PipelineAssumption
  <2>6. \A x \in run'.entries \ run.entries :
          /\ x.task = t
          /\ x.tag # NoFile => results[File(x.task, x.tag)] = x.tag
          /\ x.status = "success_after_debug" => x.tag = IF1 /\ x.tag # NoFile
    BY <2>2, <2>3, <2>4, <2>5
  <2>7. worker' = worker
    BY <1>9
  <2> QED BY <1>2, <1>4, <2>3, <2>6, <2>7, TaskIsSettled
<1>10. ASSUME run' = left, NEW pc \in {"success", "analyse"},
              worker' = [worker EXCEPT ![w].pc = pc, ![w].task = t]
       PROVE  PipelineInv'
  BY <1>2, <1>4, <1>5, <1>10, TaskIsTaken
<1>11. CASE Parallel /\ run' = Raised(left) /\ UNCHANGED worker
  BY <1>7, <1>11 DEF Raised
<1> QED BY <1>3, <1>5, <1>7, <1>8, <1>9, <1>10, <1>11 DEF Take

LEMMA SummariseStep ==
    ASSUME PipelineInv, Summarise
    PROVE  PipelineInv'
<1>1. /\ PipelineTypeOK /\ RunsOK /\ DirsOK /\ run.pc = "work"
      /\ \A e \in run.entries : EntryOK(e)
  BY DEF PipelineInv, Summarise
<1>2. /\ \A w \in PoolWorker : worker[w].pc = "idle"
      /\ run' = [run EXCEPT !.pc = "off", !.entries = {}]
      /\ worker' = worker /\ results' = results /\ index' = index /\ episodes' = episodes
      /\ killed' = killed
  BY DEF Summarise
<1>3. run \in RunState /\ run.entries \subseteq SummaryEntry /\ run.n \in Nat
  BY <1>1 DEF PipelineTypeOK, RunState
<1>4. run' \in RunState /\ run'.pc = "off" /\ run'.n = run.n
  BY <1>2, <1>3 DEF RunState
<1>5. PICK moved : moved = {e.task : e \in {e \in run.entries : e.status = "success_after_debug"}}
  OBVIOUS
<1>6. summary' = [n |-> run.n, entries |-> run.entries, moved |-> moved]
  BY <1>5 DEF Summarise
<1>7. moved \subseteq Task
  BY <1>3, <1>5 DEF SummaryEntry
<1>8. PipelineTypeOK' /\ DirsOK'
  BY <1>1, <1>2, <1>3, <1>4, <1>6, <1>7 DEF PipelineTypeOK, DirsOK
<1>9. \A w \in PoolWorker : ~Busy(w)' /\ worker'[w] = Free
  BY <1>1, <1>2 DEF RunsOK, Busy
<1>10. RunsOK'
  BY <1>3, <1>4, <1>6, <1>9 DEF RunsOK
<1>11. ASSUME NEW e \in summary'.entries, e.tag # NoFile
       PROVE  (results[File(e.task, e.tag)] = e.tag)'
  BY <1>1, <1>2, <1>6, <1>11 DEF EntryOK, File
<1>12. ASSUME NEW t \in summary'.moved
       PROVE  (results[File(t, IF1)] = IF1)'
  <2>1. PICK e \in run.entries : e.status = "success_after_debug" /\ t = e.task
    BY <1>5, <1>6
  <2>2. results[File(e.task, e.tag)] = e.tag /\ e.tag = IF1
    BY <1>1, <2>1 DEF EntryOK
  <2> QED BY <1>2, <2>1, <2>2 DEF File
<1>13. SummaryMatchesResults'
  BY <1>11, <1>12 DEF SummaryMatchesResults
<1> QED BY <1>4, <1>8, <1>9, <1>10, <1>13 DEF PipelineInv, WorkerOK

LEMMA KillPipelineStep ==
    ASSUME PipelineInv, KillPipeline
    PROVE  PipelineInv'
<1>1. PipelineTypeOK /\ RunsOK /\ DirsOK /\ run.pc = "work" /\ run \in RunState
  BY DEF PipelineInv, PipelineTypeOK, KillPipeline
<1>2. /\ run' = [run EXCEPT !.pc = "off", !.todo = {}, !.entries = {}]
      /\ worker' = [w \in PoolWorker |-> Free] /\ killed' = killed + 1
      /\ results' = results /\ episodes' = episodes /\ summary' = summary
  BY DEF KillPipeline
<1>3. run' \in RunState /\ run'.pc = "off" /\ run'.n = run.n /\ killed' \in Nat
  <2>1. killed' \in Nat
    BY <1>1, <1>2 DEF PipelineTypeOK
  <2>2. run' \in RunState
    BY <1>1, <1>2 DEF RunState
  <2>3. run'.pc = "off" /\ run'.n = run.n
    BY <1>1, <1>2 DEF RunState
  <2> QED BY <2>1, <2>2, <2>3
<1>4. worker' \in [PoolWorker -> WorkerState] /\ \A w \in PoolWorker : worker'[w] = Free
  BY <1>2 DEF WorkerState, Free
<1>5. index' \subseteq FileLine
  <2>1. CASE UNCHANGED index
    BY <1>1, <2>1 DEF PipelineTypeOK
  <2>2. ASSUME NEW w \in PoolWorker, worker[w].pc = "writeIndex", index' \in SUBSET Upserted(w)
        PROVE  index' \subseteq FileLine
    <3>1. Busy(w)
      BY <2>2 DEF Busy
    <3>2. worker[w] \in WorkerState /\ worker[w].task \in Task
      BY <3>1, BusyWorker
    <3> QED BY <2>2, <3>2, UpsertedIsLines
  <2> QED BY <2>1, <2>2 DEF KillPipeline
<1> QED BY <1>1, <1>2, <1>3, <1>4, <1>5, RunEnds
-----------------------------------------------------------------------------
LEMMA PipelineStarts == PipelineInit => PipelineInv
<1> SUFFICES ASSUME PipelineInit PROVE PipelineInv
  OBVIOUS
<1>1. Free \in WorkerState
  BY DEF Free, WorkerState
<1>2. run \in RunState
  BY DEF PipelineInit, RunState
<1>3. PipelineTypeOK
  BY <1>1, <1>2 DEF PipelineInit, PipelineTypeOK
<1>4. \A w \in PoolWorker : ~Busy(w) /\ worker[w] = Free
  BY DEF PipelineInit, Busy, Free
<1>5. RunsOK /\ SummaryMatchesResults
  BY <1>4 DEF PipelineInit, RunsOK, SummaryMatchesResults
<1>6. DirsOK
  BY PipelineAssumption DEF PipelineInit, DirsOK, Dir, IF1
<1> QED BY <1>3, <1>4, <1>5, <1>6 DEF PipelineInit, PipelineInv, WorkerOK

LEMMA PipelineStep == PipelineInv /\ [PipelineNext]_pvars => PipelineInv'
<1> SUFFICES ASSUME PipelineInv, [PipelineNext]_pvars PROVE PipelineInv'
  OBVIOUS
<1>1. CASE StartRun \/ Summarise \/ KillPipeline
  BY <1>1, StartRunStep, SummariseStep, KillPipelineStep
<1>2. ASSUME NEW w \in PoolWorker,
             \/ Take(w) \/ Analyse(w) \/ SaveResult(w)
             \/ ReadIndex(w) \/ OpenIndex(w) \/ WriteIndex(w)
             \/ OpenEpisodes(w) \/ WriteEpisodes(w)
      PROVE  PipelineInv'
  BY <1>2, TakeStep, AnalyseStep, SaveResultStep, ReadIndexStep, OpenIndexStep, WriteIndexStep,
     OpenEpisodesStep, WriteEpisodesStep
<1>3. CASE UNCHANGED pvars
  <2>1. PipelineTypeOK' /\ RunsOK' /\ DirsOK' /\ SummaryMatchesResults'
    BY <1>3 DEF PipelineInv, PipelineTypeOK, RunsOK, DirsOK, SummaryMatchesResults, AtRest, Busy,
                File, pvars
  <2>2. \A w \in PoolWorker : WorkerOK(w)'
    BY <1>3 DEF PipelineInv, WorkerOK, Busy, File, pvars
  <2>3. run'.pc = "work" => \A e \in run'.entries : EntryOK(e)'
    BY <1>3 DEF PipelineInv, EntryOK, File, pvars
  <2> QED BY <2>1, <2>2, <2>3 DEF PipelineInv
<1> QED BY <1>1, <1>2, <1>3 DEF PipelineNext

\* The summary of a run that reached its end agrees with the result files,
\* whatever runs came before, were killed and left files torn.
THEOREM SummaryMatchesResultsHolds == PipelineSpec => []SummaryMatchesResults
<1>1. PipelineInv => SummaryMatchesResults
  BY DEF PipelineInv
<1> QED BY <1>1, PipelineStarts, PipelineStep, PTL DEF PipelineSpec
-----------------------------------------------------------------------------
(* One worker: nothing that it recorded is lost to a rewrite of its own. *)

\* While its run goes on, a worker that keeps the lines of the finished tasks
\* keeps all that has to be recorded.
LEMMA RecordsAreKept ==
    ASSUME NEW w, PoolWorker = {w}, PipelineInv, RecordedOK, Busy(w), run' = run,
           \A e \in run.entries : e.how = "analysed" /\ InStore(Line(e)) => InStore(Line(e))',
           \A e \in run.entries : e.how = "analysed" /\ e.task # worker[w].task
               /\ InIndex(Line(e)) => InIndex(Line(e))',
           worker'[w].indexed /\ worker'[w].pc \in {"add", "added"} =>
               Line(worker'[w]) \in index',
           worker'[w].pc \in {"idle", "analyse", "save", "success", "stored"} =>
               ~worker'[w].indexed
    PROVE  RecordedOK'
<1>1. WorkerOK(w)
  BY DEF PipelineInv
<1>2. \A e \in run.entries : e.task # worker[w].task
  BY <1>1 DEF WorkerOK
<1> QED BY <1>2 DEF RecordedOK

LEMMA AnalyseRecords ==
    ASSUME NEW w, PoolWorker = {w}, PipelineInv, RecordedOK,
           Analyse(w) \/ SaveResult(w) \/ ReadIndex(w) \/ OpenIndex(w)
    PROVE  RecordedOK'
<1>1. Busy(w) /\ run' = run /\ episodes' = episodes
  BY DEF Busy, Analyse, SaveResult, ReadIndex, OpenIndex
<1>2. worker[w] \in WorkerState /\ worker \in [PoolWorker -> WorkerState]
  BY <1>1, BusyWorker
<1>3. CASE Analyse(w)
  <2>1. /\ worker'[w].pc \in {"add", "save"} /\ worker'[w].indexed = worker[w].indexed
        /\ worker[w].pc = "analyse" /\ index' = index
    BY <1>2, <1>3 DEF Analyse, WorkerState
  <2>2. ~worker[w].indexed
    BY <2>1 DEF RecordedOK
  <2> QED BY <1>1, <2>1, <2>2, RecordsAreKept DEF InIndex, InStore
<1>4. CASE SaveResult(w)
  <2>1. PICK indexed \in BOOLEAN :
          worker' = [worker EXCEPT ![w].pc = IF indexed THEN "readIndex" ELSE "add",
                                   ![w].indexed = indexed]
    BY <1>4 DEF SaveResult
  <2>2. worker[w].pc = "save" /\ index' = index
    BY <1>4 DEF SaveResult
  <2>3. /\ worker'[w].pc = (IF indexed THEN "readIndex" ELSE "add")
        /\ worker'[w].indexed = indexed
    BY <1>2, <2>1 DEF WorkerState
  <2> QED BY <1>1, <2>2, <2>3, RecordsAreKept DEF InIndex, InStore
<1>5. CASE ReadIndex(w)
  <2>1. /\ worker'[w].pc = "openIndex" /\ worker'[w].held = index
        /\ worker[w].pc = "readIndex" /\ index' = index
    BY <1>2, <1>5 DEF ReadIndex, WorkerState
  <2> QED BY <1>1, <2>1, RecordsAreKept DEF InIndex, InStore
<1>6. CASE OpenIndex(w)
  <2>1. /\ worker'[w].pc = "writeIndex" /\ worker'[w].held = worker[w].held
        /\ worker[w].pc = "openIndex"
    BY <1>2, <1>6 DEF OpenIndex, WorkerState
  <2> QED BY <1>1, <2>1, RecordsAreKept DEF InIndex, InStore
<1> QED BY <1>3, <1>4, <1>5, <1>6

LEMMA WriteIndexRecords ==
    ASSUME NEW w, PoolWorker = {w}, PipelineInv, RecordedOK, WriteIndex(w)
    PROVE  RecordedOK'
<1>1. Busy(w) /\ run' = run /\ episodes' = episodes
  BY DEF Busy, WriteIndex
<1>2. worker[w] \in WorkerState /\ worker \in [PoolWorker -> WorkerState]
  BY <1>1, BusyWorker
<1>3. /\ worker'[w].pc = "add" /\ worker'[w].indexed = worker[w].indexed
      /\ worker'[w].task = worker[w].task /\ worker'[w].tag = worker[w].tag
      /\ worker[w].pc = "writeIndex"
  BY <1>2 DEF WriteIndex, WorkerState
<1>4. Upserted(w) \subseteq index'
  BY DEF WriteIndex
<1>5. Line(worker'[w]) \in index'
  BY <1>3, <1>4 DEF Line, Upserted
<1>6. ASSUME NEW e \in run.entries, e.task # worker[w].task, InIndex(Line(e))
      PROVE  InIndex(Line(e))'
  <2>1. Line(e) \in worker[w].held /\ Line(e).task = e.task
    BY <1>3, <1>6 DEF InIndex, Line
  <2>2. Line(e) \in index'
    BY <1>4, <1>6, <2>1 DEF Upserted
  <2> QED BY <1>3, <2>2 DEF InIndex
<1>7. ASSUME NEW e \in run.entries, InStore(Line(e)) PROVE InStore(Line(e))'
  BY <1>1, <1>3, <1>7 DEF InStore
<1> QED BY <1>1, <1>3, <1>5, <1>6, <1>7, RecordsAreKept

\* At the end of a run, whatever its end is, nobody holds anything.
LEMMA NothingHeld ==
    ASSUME run'.pc = "off", \A w \in PoolWorker : worker'[w] = Free
    PROVE  RecordedOK'
BY DEF RecordedOK, Free

LEMMA OpenEpisodesRecords ==
    ASSUME NEW w, PoolWorker = {w}, PipelineInv, RecordedOK, OpenEpisodes(w)
    PROVE  RecordedOK'
<1>1. Busy(w) /\ index' = index /\ worker[w].pc \in {"add", "success"}
  BY DEF Busy, OpenEpisodes
<1>2. worker[w] \in WorkerState /\ worker \in [PoolWorker -> WorkerState] /\ run \in RunState
  BY <1>1, BusyWorker
<1>3. ~Parallel
  BY FS_Singleton DEF Parallel
<1>4. CASE episodes = TornStore
  <2>1. /\ worker' = [worker EXCEPT ![w] = Free]
        /\ run' = [run EXCEPT !.pc = "off", !.todo = {}]
    BY <1>3, <1>4 DEF OpenEpisodes, Raised
  <2>2. run'.pc = "off"
    BY <1>2, <2>1 DEF RunState
  <2>3. \A v \in PoolWorker : worker'[v] = Free
    BY <1>2, <2>1
  <2> QED BY <2>2, <2>3, NothingHeld
<1>5. CASE episodes # TornStore
  <2>1. /\ worker' = [worker EXCEPT ![w].pc = IF @ = "add" THEN "added" ELSE "stored",
                                    ![w].held = episodes]
        /\ run' = run
    BY <1>5 DEF OpenEpisodes
  <2>2. /\ worker'[w].pc = (IF worker[w].pc = "add" THEN "added" ELSE "stored")
        /\ worker'[w].held = episodes /\ worker'[w].indexed = worker[w].indexed
        /\ worker'[w].task = worker[w].task /\ worker'[w].tag = worker[w].tag
    BY <1>2, <2>1 DEF WorkerState
  <2>3. /\ worker[w].indexed /\ worker[w].pc = "add" => Line(worker[w]) \in index
        /\ worker[w].pc = "success" => ~worker[w].indexed
    BY DEF RecordedOK
  <2>4. Line(worker'[w]) = Line(worker[w])
    BY <2>2 DEF Line
  <2>5. /\ worker'[w].indexed /\ worker'[w].pc \in {"add", "added"} => Line(worker'[w]) \in index'
        /\ worker'[w].pc \in {"idle", "analyse", "save", "success", "stored"} =>
              ~worker'[w].indexed
    BY <1>1, <2>2, <2>3, <2>4
  <2>6. \A l : InStore(l) => InStore(l)'
    BY <1>1, <2>2 DEF InStore
  <2>7. \A l : InIndex(l) => InIndex(l)'
    BY <1>1, <2>2 DEF InIndex
  <2> QED BY <1>1, <2>1, <2>5, <2>6, <2>7, RecordsAreKept
<1> QED BY <1>4, <1>5

LEMMA WriteEpisodesRecords ==
    ASSUME NEW w, PoolWorker = {w}, PipelineInv, RecordedOK, WriteEpisodes(w)
    PROVE  RecordedOK'
<1>1. Busy(w) /\ index' = index /\ worker[w].pc \in {"added", "stored"}
  BY DEF Busy, WriteEpisodes
<1>2. /\ worker[w] \in WorkerState /\ worker \in [PoolWorker -> WorkerState] /\ run \in RunState
      /\ run.pc = "work"
  BY <1>1, BusyWorker
<1>3. PICK e : /\ run' = [run EXCEPT !.entries = @ \cup {e}]
               /\ worker' = [worker EXCEPT ![w] = Free]
               /\ e = IF worker[w].pc = "stored"
                      THEN Entry(worker[w].task, NoFile, "success", "success", FALSE)
                      ELSE Entry(worker[w].task, worker[w].tag, "failure",
                                 IF worker[w].tag = NoFile THEN "failed" ELSE "analysed",
                                 worker[w].indexed)
  BY DEF WriteEpisodes, Collected
<1>4. episodes' = worker[w].held \cup {Line(worker[w])}
  BY DEF WriteEpisodes, Line
<1>5. run'.entries = run.entries \cup {e}
  BY <1>2, <1>3 DEF RunState
<1>6. /\ worker'[w] = Free /\ worker'[w].pc = "idle" /\ ~worker'[w].indexed
  BY <1>2, <1>3 DEF Free
<1>7. ASSUME NEW x \in run.entries, x.how = "analysed"
      PROVE  InStore(Line(x))' /\ (x.indexed => InIndex(Line(x))')
  <2>1. InStore(Line(x)) /\ (x.indexed => InIndex(Line(x)))
    BY <1>2, <1>7 DEF RecordedOK
  <2> QED BY <1>1, <1>4, <1>6, <2>1 DEF InStore, InIndex
<1>8. e.how = "analysed" => InStore(Line(e))' /\ (e.indexed => InIndex(Line(e))')
  <2>1. CASE worker[w].pc = "stored"
    BY <1>3, <2>1 DEF Entry
  <2>2. CASE worker[w].pc = "added"
    <3>1. e.task = worker[w].task /\ e.tag = worker[w].tag /\ e.indexed = worker[w].indexed
      BY <1>3, <2>2 DEF Entry
    <3>2. Line(e) = Line(worker[w])
      BY <3>1 DEF Line
    <3>3. Line(e) \in episodes' /\ (e.indexed => Line(e) \in index')
      BY <1>1, <1>4, <2>2, <3>1, <3>2 DEF RecordedOK
    <3> QED BY <1>6, <3>3 DEF InStore, InIndex
  <2> QED BY <1>1, <2>1, <2>2
<1> QED BY <1>5, <1>6, <1>7, <1>8 DEF RecordedOK

LEMMA TakeRecords ==
    ASSUME NEW w, PoolWorker = {w}, PipelineInv, RecordedOK, Take(w)
    PROVE  RecordedOK'
<1>1. /\ run.pc = "work" /\ worker[w].pc = "idle" /\ index' = index /\ episodes' = episodes
  BY DEF Take
<1>2. /\ run \in RunState /\ worker \in [PoolWorker -> WorkerState] /\ worker[w] \in WorkerState
      /\ worker[w] = Free
  BY <1>1 DEF PipelineInv, PipelineTypeOK, RunsOK, Busy
<1>3. ~Parallel
  BY FS_Singleton DEF Parallel
<1>4. PICK t, left : t = First(run.todo) /\ left = [run EXCEPT !.todo = @ \ {t}]
  OBVIOUS
<1>5. left \in [pc : {"off", "work"}, n : Nat, skip : BOOLEAN, todo : SUBSET run.todo,
                entries : SUBSET SummaryEntry] /\ left.entries = run.entries
  BY <1>2, <1>4 DEF RunState
<1>6. CASE run' = left /\ UNCHANGED worker
  BY <1>1, <1>5, <1>6 DEF RecordedOK, InIndex, InStore
<1>7. CASE run' = Raised(left) /\ UNCHANGED worker
  <2>1. run'.pc = "off"
    BY <1>3, <1>5, <1>7 DEF Raised
  <2> QED BY <1>2, <1>7, <2>1, NothingHeld
<1>8. ASSUME NEW tag, NEW status, UNCHANGED worker,
             run' = [left EXCEPT !.entries = @ \cup {Entry(t, tag, status, "skipped", FALSE)}]
      PROVE  RecordedOK'
  <2>1. PICK e : e = Entry(t, tag, status, "skipped", FALSE)
    OBVIOUS
  <2>2. run'.entries = run.entries \cup {e} /\ e.how # "analysed"
    BY <1>5, <1>8, <2>1 DEF Entry
  <2> QED BY <1>1, <1>8, <2>2 DEF RecordedOK, InIndex, InStore
<1>9. ASSUME NEW pc \in {"success", "analyse"}, run' = left,
             worker' = [worker EXCEPT ![w].pc = pc, ![w].task = t]
      PROVE  RecordedOK'
  <2>1. worker'[w].pc = pc /\ worker'[w].indexed = worker[w].indexed
    BY <1>2, <1>9 DEF WorkerState
  <2>2. ~worker[w].indexed
    BY <1>1 DEF RecordedOK
  <2>3. \A l : (InIndex(l) => InIndex(l)') /\ (InStore(l) => InStore(l)')
    BY <1>1, <2>1 DEF InIndex, InStore
  <2> QED BY <1>1, <1>5, <1>9, <2>1, <2>2, <2>3 DEF RecordedOK
<1> QED BY <1>4, <1>6, <1>7, <1>8, <1>9 DEF Take

LEMMA SoloStarts == PipelineInit => PipelineInv /\ RecordedOK /\ AnalysedIsRecorded
<1>1. PipelineInit => PipelineInv
  BY PipelineStarts
<1>2. PipelineInit => RecordedOK /\ AnalysedIsRecorded
  BY DEF PipelineInit, RecordedOK, AnalysedIsRecorded, Free
<1> QED BY <1>1, <1>2

LEMMA SoloStep ==
    ASSUME NEW w, PoolWorker = {w}, PipelineInv, RecordedOK, AnalysedIsRecorded,
           [PipelineNext]_pvars
    PROVE  RecordedOK' /\ AnalysedIsRecorded'
<1>1. /\ PipelineTypeOK /\ RunsOK /\ run \in RunState /\ PipelineInv'
  BY PipelineStep DEF PipelineInv, PipelineTypeOK
<1>2. CASE run'.pc = "work" /\ RecordedOK'
  BY <1>2 DEF AnalysedIsRecorded, AtRest
<1>3. CASE run'.n = run.n /\ summary' = summary /\ run.pc = "work" /\ RecordedOK'
  <2>1. summary.n < run.n /\ summary.n \in Nat /\ run.n \in Nat
    BY <1>1, <1>3 DEF RunsOK, PipelineTypeOK, RunState
  <2> QED BY <1>3, <2>1 DEF AnalysedIsRecorded, AtRest
<1>4. CASE StartRun
  <2>1. /\ run'.pc = "work" /\ run'.entries = {} /\ worker' = worker /\ run.pc = "off"
    BY <1>4 DEF StartRun
  <2>2. \A v \in PoolWorker : worker[v] = Free
    BY <1>1, <2>1 DEF RunsOK
  <2>3. RecordedOK'
    BY <2>1, <2>2 DEF RecordedOK, Free
  <2> QED BY <1>2, <2>1, <2>3
<1>5. CASE Summarise
  <2>1. /\ \A v \in PoolWorker : worker[v].pc = "idle"
        /\ run' = [run EXCEPT !.pc = "off", !.entries = {}]
        /\ worker' = worker /\ index' = index /\ episodes' = episodes /\ run.pc = "work"
        /\ summary'.entries = run.entries
    BY <1>5 DEF Summarise
  <2>2. \A v \in PoolWorker : worker'[v] = Free
    BY <1>1, <2>1 DEF RunsOK, Busy
  <2>3. run'.pc = "off"
    BY <1>1, <2>1 DEF RunState
  <2>4. RecordedOK'
    BY <2>2, <2>3, NothingHeld
  <2>5. ASSUME NEW e \in run.entries, e.how = "analysed"
        PROVE  /\ e.indexed => Line(e) \in index
               /\ Line(e) \in episodes
    BY <2>1, <2>5 DEF RecordedOK, InIndex, InStore
  <2>6. AnalysedIsRecorded'
    BY <2>1, <2>5 DEF AnalysedIsRecorded, Line
  <2> QED BY <2>4, <2>6
<1>6. CASE KillPipeline
  <2>1. /\ run' = [run EXCEPT !.pc = "off", !.todo = {}, !.entries = {}]
        /\ worker' = [v \in PoolWorker |-> Free] /\ summary' = summary /\ run.pc = "work"
    BY <1>6 DEF KillPipeline
  <2>2. run'.pc = "off" /\ run'.n = run.n
    BY <1>1, <2>1 DEF RunState
  <2>3. RecordedOK'
    BY <2>1, <2>2, NothingHeld
  <2> QED BY <1>3, <2>1, <2>2, <2>3
<1>7. CASE Take(w) \/ OpenEpisodes(w)
  <2>1. RecordedOK'
    BY <1>7, TakeRecords, OpenEpisodesRecords
  <2>2. summary' = summary
    BY <1>7 DEF Take, OpenEpisodes
  <2>3. run.pc = "work"
    <3>1. CASE Take(w)
      BY <3>1 DEF Take
    <3>2. CASE OpenEpisodes(w)
      <4>1. Busy(w)
        BY <3>2 DEF OpenEpisodes, Busy
      <4> QED BY <4>1, BusyWorker
    <3> QED BY <1>7, <3>1, <3>2
  <2>4. summary'.n # run'.n \/ run'.pc = "work"
    <3>1. run'.n = run.n
      <4>1. PICK t, left : t = First(run.todo) /\ left = [run EXCEPT !.todo = @ \ {t}]
        OBVIOUS
      <4>2. left.n = run.n /\ Raised(left).n = run.n /\ Raised(run).n = run.n
        BY <1>1, <4>1 DEF Raised, RunState
      <4>3. \A tag, status :
              [left EXCEPT !.entries = @ \cup {Entry(t, tag, status, "skipped", FALSE)}].n = run.n
        BY <1>1, <4>1, <4>2 DEF RunState
      <4>4. CASE Take(w)
        <5>1. CASE run' = left \/ run' = Raised(left)
          BY <4>2, <5>1
        <5>2. ASSUME NEW tag, NEW status,
                     run' = [left EXCEPT !.entries =
                                 @ \cup {Entry(t, tag, status, "skipped", FALSE)}]
              PROVE  run'.n = run.n
          BY <4>3, <5>2
        <5> QED BY <4>1, <4>4, <5>1, <5>2 DEF Take
      <4>5. CASE OpenEpisodes(w)
        BY <4>2, <4>5 DEF OpenEpisodes
      <4> QED BY <1>7, <4>4, <4>5
    <3>2. summary.n < run.n /\ summary.n \in Nat /\ run.n \in Nat
      BY <1>1, <2>3 DEF RunsOK, PipelineTypeOK, RunState
    <3> QED BY <2>2, <3>1, <3>2
  <2> QED BY <2>1, <2>4 DEF AnalysedIsRecorded, AtRest
<1>8. CASE Analyse(w) \/ SaveResult(w) \/ ReadIndex(w) \/ OpenIndex(w) \/ WriteIndex(w)
  <2>1. RecordedOK'
    BY <1>8, AnalyseRecords, WriteIndexRecords
  <2>2. Busy(w) /\ run' = run
    BY <1>8 DEF Analyse, SaveResult, ReadIndex, OpenIndex, WriteIndex, Busy
  <2>3. run.pc = "work"
    BY <2>2, BusyWorker
  <2> QED BY <1>2, <2>1, <2>2, <2>3
<1>9. CASE WriteEpisodes(w)
  <2>1. RecordedOK'
    BY <1>9, WriteEpisodesRecords
  <2>2. Busy(w)
    BY <1>9 DEF WriteEpisodes, Busy
  <2>3. run.pc = "work"
    BY <2>2, BusyWorker
  <2>4. PICK e : run' = [run EXCEPT !.entries = @ \cup {e}]
    BY <1>9 DEF WriteEpisodes, Collected
  <2>5. run'.pc = "work"
    BY <1>1, <2>3, <2>4 DEF RunState
  <2> QED BY <1>2, <2>1, <2>5
<1>10. CASE UNCHANGED pvars
  BY <1>10 DEF pvars, RecordedOK, InIndex, InStore, AnalysedIsRecorded, AtRest
<1> QED BY <1>4, <1>5, <1>6, <1>7, <1>8, <1>9, <1>10 DEF PipelineNext

\* With one worker, a run that reached its end has in the index and in the store
\* whatever it analysed, although both are emptied before they are rewritten and
\* earlier runs were killed in between.
THEOREM AnalysedIsRecordedHolds ==
    ASSUME NEW CONSTANT w, PoolWorker = {w}
    PROVE  PipelineSpec => []AnalysedIsRecorded
<1>1. PipelineInv /\ RecordedOK /\ AnalysedIsRecorded /\ [PipelineNext]_pvars
        => PipelineInv' /\ RecordedOK' /\ AnalysedIsRecorded'
  BY SoloStep, PipelineStep
<1> QED BY <1>1, SoloStarts, PTL DEF PipelineSpec

-----------------------------------------------------------------------------
(* The loggers: any number of loggers, of messages, of times a file opens. *)

UserState ==
    [pc : {"idle", "bind", "note", "unbind", "release", "stop", "join", "closed"}, held : Seq(Nat)]
LoopState == [pc : {"idle", "print", "write", "flush", "ended"}, text : Nat, left : Seq(Nat)]

LoggerTypeOK ==
    /\ user \in [Logger -> UserState] /\ logged \in Nat
    /\ pending \in [Logger -> Seq(Nat)] /\ unfinished \in [Logger -> Int]
    /\ stopping \in [Logger -> BOOLEAN] /\ loop \in [Logger -> LoopState]
    /\ files \in [Logger -> Seq(Nat)] /\ registry \in Nat /\ refs \in Seq(Nat)

\* The loggers that hold a reference to the file.
Holders == {l \in Logger : files[l] # <<>> \/ user[l].held # <<>>}

\* What is held is the registered handle, and it is held in one place.
ReferenceOK(l) ==
    /\ files[l] \in {<<>>, <<registry>>} /\ user[l].held \in {<<>>, <<registry>>}
    /\ user[l].pc \in {"idle", "bind", "stop", "join", "closed"} => user[l].held = <<>>
    /\ user[l].pc \in {"bind", "note", "unbind", "release", "closed"} => files[l] = <<>>

\* The count of the registered handle is exact; a file nobody holds is closed.
CountOK ==
    /\ IsFiniteSet(Holders)
    /\ registry = 0 <=> Holders = {}
    /\ registry # 0 => registry \in 1..Len(refs) /\ refs[registry] = Cardinality(Holders)

Unjoined(l) == user[l].pc \in {"idle", "bind", "note", "unbind"}

\* Before join() returns the queue holds texts only, and each is unfinished, as
\* is the one the worker has, or had when it died.
QueueOK(l) ==
    Unjoined(l) =>
        /\ ~stopping[l] /\ \A i \in 1..Len(pending[l]) : pending[l][i] # Stop
        /\ unfinished[l] = Len(pending[l]) + (IF loop[l].pc \in {"idle", "flush"} THEN 0 ELSE 1)

\* A message that is owed and not written, to the file or to the buffer of the
\* open handle, waits for a worker that will write it.
Taken == written \cup buffered

Waits(l, n) ==
    \/ \E i \in 1..Len(pending[l]) : pending[l][i] = n
    \/ loop[l].pc = "print" /\ loop[l].text = n
    \/ loop[l].pc = "write" /\ loop[l].text = n /\ loop[l].left = files[l]
    \/ loop[l].pc = "ended"

OwedOK ==
    /\ owed \subseteq Logger \X Nat
    /\ \A l \in Logger, n \in Nat : <<l, n>> \in owed /\ <<l, n>> \notin Taken =>
          Unjoined(l) /\ files[l] # <<>> /\ Waits(l, n)

\* The registered handle is the only one that may be open; a worker lists
\* handles that were opened. Without an open handle there is no buffer.
BufferOK ==
    /\ registry = 0 => buffered = {}
    /\ \A h \in 1..Len(refs) : refs[h] # 0 => h = registry
    /\ \A l \in Logger : loop[l].left \in {<<>>} \cup {<<h>> : h \in 1..Len(refs)}

LoggerInv ==
    /\ LoggerTypeOK /\ CountOK /\ OwedOK /\ BufferOK
    /\ \A l \in Logger : ReferenceOK(l) /\ QueueOK(l)
-----------------------------------------------------------------------------
(* Types. *)

LEMMA TypeStep ==
    ASSUME LoggerInv, LoggerNext
    PROVE  LoggerTypeOK'
<1>1. LoggerTypeOK
  BY DEF LoggerInv
<1>2. /\ user \in [Logger -> UserState] /\ logged \in Nat
      /\ pending \in [Logger -> Seq(Nat)] /\ unfinished \in [Logger -> Int]
      /\ stopping \in [Logger -> BOOLEAN] /\ loop \in [Logger -> LoopState]
      /\ files \in [Logger -> Seq(Nat)] /\ registry \in Nat /\ refs \in Seq(Nat)
  BY <1>1 DEF LoggerTypeOK
<1>3. PICK l \in Logger :
         \/ Log(l) \/ BindFile(l) \/ TakeReference(l) \/ NoteFile(l) \/ Unbind(l) \/ Release(l)
         \/ Join(l) \/ PutStop(l) \/ TakeFiles(l)
         \/ TakeText(l) \/ Leave(l) \/ PrintText(l) \/ WriteText(l) \/ TaskDone(l)
         \/ IdleTick(l) \/ FlushFile(l) \/ EndTick(l)
  BY DEF LoggerNext
<1>4. /\ user[l] \in UserState /\ loop[l] \in LoopState /\ pending[l] \in Seq(Nat)
      /\ files[l] \in Seq(Nat) /\ unfinished[l] \in Int /\ user[l].held \in Seq(Nat)
      /\ loop[l].left \in Seq(Nat) /\ loop[l].text \in Nat
  BY <1>2 DEF UserState, LoopState
<1>5. ReferenceOK(l) /\ CountOK /\ QueueOK(l)
  BY DEF LoggerInv
<1>6. CASE Log(l)
  <2>1. Append(pending[l], logged + 1) \in Seq(Nat)
    BY <1>2, <1>4
  <2>2. pending' = [pending EXCEPT ![l] = Append(@, logged + 1)]
    BY <1>6 DEF Log
  <2>3. pending' \in [Logger -> Seq(Nat)]
    BY <1>2, <2>1, <2>2
  <2>4. /\ logged' = logged + 1 /\ unfinished' = [unfinished EXCEPT ![l] = @ + 1]
        /\ UNCHANGED <<user, stopping, loop, files, registry, refs>>
    BY <1>6 DEF Log
  <2> QED BY <1>2, <1>4, <2>3, <2>4 DEF LoggerTypeOK
<1>7. CASE BindFile(l)
  BY <1>2, <1>7 DEF BindFile, GoTo, LoggerTypeOK, UserState
<1>8. CASE TakeReference(l)
  <2>1. refs' \in Seq(Nat) /\ registry' \in Nat
    <3>1. CASE refs' = Append(refs, 1) /\ registry' = Len(refs')
      <4>1. Append(refs, 1) \in Seq(Nat) /\ Len(Append(refs, 1)) \in Nat
        BY <1>2
      <4> QED BY <3>1, <4>1
    <3>2. CASE registry # 0 /\ refs' = [refs EXCEPT ![registry] = @ + 1] /\ registry' = registry
      <4>1. registry \in 1..Len(refs) /\ refs[registry] + 1 \in Nat
        BY <1>2, <1>5, <3>2 DEF CountOK
      <4> QED BY <1>2, <3>2, <4>1
    <3> QED BY <1>8, <3>1, <3>2 DEF TakeReference
  <2> QED BY <1>2, <1>8, <2>1 DEF TakeReference, GoTo, LoggerTypeOK, UserState
<1>9. CASE NoteFile(l)
  <2>1. files[l] \o user[l].held \in Seq(Nat)
    BY <1>4
  <2> QED BY <1>2, <1>9, <2>1 DEF NoteFile, GoTo, LoggerTypeOK, UserState
<1>10. CASE Unbind(l)
  BY <1>2, <1>4, <1>10 DEF Unbind, GoTo, LoggerTypeOK, UserState
<1>11. CASE Release(l)
  <2>1. user' \in [Logger -> UserState]
    BY <1>2, <1>11 DEF Release, GoTo, UserState
  <2>2. refs' \in Seq(Nat) /\ registry' \in Nat
    <3>1. CASE user[l].held # <<>> /\ registry # 0
      <4>1. user[l].held = <<registry>> /\ registry \in 1..Len(refs)
        BY <1>5, <3>1 DEF ReferenceOK, CountOK
      <4>2. refs[registry] \in Nat /\ refs[registry] # 0
        <5>1. l \in Holders
          BY <3>1 DEF Holders
        <5> QED BY <1>2, <1>5, <3>1, <4>1, <5>1, FS_EmptySet DEF CountOK
      <4>3. user[l].held[1] = registry
        BY <4>1
      <4>4. /\ refs' = [refs EXCEPT ![registry] = @ - 1]
            /\ registry' = IF refs'[registry] = 0 THEN 0 ELSE registry
        BY <1>11, <3>1, <4>3 DEF Release
      <4> QED BY <1>2, <4>1, <4>2, <4>4
    <3>2. CASE ~(user[l].held # <<>> /\ registry # 0)
      BY <1>2, <1>11, <3>2 DEF Release
    <3> QED BY <3>1, <3>2
  <2> QED BY <1>2, <1>11, <2>1, <2>2 DEF Release, LoggerTypeOK
<1>12. CASE Join(l)
  BY <1>2, <1>12 DEF Join, GoTo, LoggerTypeOK, UserState
<1>13. CASE PutStop(l)
  <2>1. Append(pending[l], Stop) \in Seq(Nat)
    BY <1>4 DEF Stop
  <2> QED BY <1>2, <1>13, <2>1 DEF PutStop, GoTo, LoggerTypeOK, UserState
<1>14. CASE TakeFiles(l)
  BY <1>2, <1>4, <1>14 DEF TakeFiles, GoTo, LoggerTypeOK, UserState
<1>15. CASE TakeText(l)
  <2>1. Head(pending[l]) \in Nat /\ Tail(pending[l]) \in Seq(Nat)
    BY <1>4, <1>15 DEF TakeText
  <2> DEFINE pc == IF Head(pending[l]) = Stop THEN "ended" ELSE "print"
             step == [Unoccupied EXCEPT !.pc = pc, !.text = Head(pending[l])]
  <2>2. loop' = [loop EXCEPT ![l] = step] /\ step \in LoopState
    <3>1. pc \in {"idle", "print", "write", "flush", "ended"} /\ Unoccupied \in LoopState
      BY DEF Unoccupied, Stop, LoopState
    <3>2. loop' = [loop EXCEPT ![l] = step]
      BY <1>15 DEF TakeText, Works
    <3> HIDE DEF pc
    <3>3. step \in LoopState
      BY <2>1, <3>1 DEF LoopState
    <3> QED BY <3>2, <3>3
  <2>3. loop' \in [Logger -> LoopState]
    BY <1>2, <2>2
  <2>4. pending' \in [Logger -> Seq(Nat)]
    BY <1>2, <1>15, <2>1 DEF TakeText
  <2> QED BY <1>2, <1>15, <2>3, <2>4 DEF TakeText, LoggerTypeOK
<1>16. CASE Leave(l)
  BY <1>2, <1>16 DEF Leave, Works, Unoccupied, Stop, LoggerTypeOK, LoopState
<1>17. CASE PrintText(l)
  <2>1. CASE Works(l, [loop[l] EXCEPT !.pc = "write", !.left = files[l]])
    <3>1. [loop[l] EXCEPT !.pc = "write", !.left = files[l]] \in LoopState
      BY <1>4 DEF LoopState
    <3>2. loop' \in [Logger -> LoopState]
      BY <1>2, <2>1, <3>1 DEF Works
    <3>3. UNCHANGED <<user, logged, pending, unfinished, stopping, files, registry, refs>>
      BY <1>17 DEF PrintText
    <3> QED BY <1>2, <3>2, <3>3 DEF LoggerTypeOK
  <2>2. CASE Works(l, [Unoccupied EXCEPT !.pc = "ended"])
    <3>1. [Unoccupied EXCEPT !.pc = "ended"] \in LoopState
      <4>1. Unoccupied \in LoopState
        BY DEF Unoccupied, Stop, LoopState
      <4> QED BY <4>1 DEF LoopState
    <3>2. loop' \in [Logger -> LoopState]
      BY <1>2, <2>2, <3>1 DEF Works
    <3>3. UNCHANGED <<user, logged, pending, unfinished, stopping, files, registry, refs>>
      BY <1>17 DEF PrintText
    <3> QED BY <1>2, <3>2, <3>3 DEF LoggerTypeOK
  <2> QED BY <1>17, <2>1, <2>2 DEF PrintText
<1>18. CASE WriteText(l)
  <2>1. Tail(loop[l].left) \in Seq(Nat)
    BY <1>4, <1>18 DEF WriteText
  <2> QED BY <1>2, <1>4, <1>18, <2>1 DEF WriteText, Works, LoggerTypeOK, LoopState
<1>19. CASE TaskDone(l)
  <2>1. unfinished[l] - 1 \in Int
    BY <1>4
  <2> QED BY <1>2, <1>19, <2>1 DEF TaskDone, Works, Unoccupied, Stop, LoggerTypeOK, LoopState
<1>20. CASE IdleTick(l)
  <2>1. loop'[l] \in LoopState /\ loop' \in [Logger -> LoopState]
    <3>1. [Unoccupied EXCEPT !.pc = "flush", !.left = files[l]] \in LoopState
      BY <1>4 DEF Unoccupied, Stop, LoopState
    <3> QED BY <1>2, <1>20, <3>1 DEF IdleTick, Works
  <2> QED BY <1>2, <1>20, <2>1 DEF IdleTick, LoggerTypeOK
<1>21. CASE FlushFile(l)
  <2>1. Tail(loop[l].left) \in Seq(Nat)
    BY <1>4, <1>21 DEF FlushFile
  <2> QED BY <1>2, <1>4, <1>21, <2>1 DEF FlushFile, Works, LoggerTypeOK, LoopState
<1>22. CASE EndTick(l)
  BY <1>2, <1>22 DEF EndTick, Works, Unoccupied, Stop, LoggerTypeOK, LoopState
<1> QED BY <1>3, <1>6, <1>7, <1>8, <1>9, <1>10, <1>11, <1>12, <1>13, <1>14, <1>15, <1>16, <1>17,
           <1>18, <1>19, <1>20, <1>21, <1>22
-----------------------------------------------------------------------------
(* References. *)

\* Where a step sends the thread that uses a logger.
LEMMA Gone ==
    ASSUME LoggerTypeOK, NEW l \in Logger, NEW pc, NEW held, GoTo(l, pc, held)
    PROVE  /\ user'[l].pc = pc /\ user'[l].held = held
           /\ \A k \in Logger \ {l} : user'[k] = user[k]
BY DEF GoTo, LoggerTypeOK

\* Steps that change no count: nobody begins or ends to hold the file.
LEMMA SameHolders ==
    ASSUME LoggerInv, Holders' = Holders, registry' = registry, refs' = refs
    PROVE  CountOK'
BY DEF LoggerInv, CountOK

LEMMA TakeReferenceCounts ==
    ASSUME LoggerInv, NEW l \in Logger, TakeReference(l)
    PROVE  CountOK' /\ \A k \in Logger : ReferenceOK(k)'
<1>1. LoggerTypeOK /\ CountOK /\ \A k \in Logger : ReferenceOK(k)
  BY DEF LoggerInv
<1>2. /\ user[l].pc = "bind" /\ GoTo(l, "note", <<registry'>>) /\ files' = files
      /\ \/ registry = 0 /\ refs' = Append(refs, 1) /\ registry' = Len(refs')
         \/ /\ registry # 0 /\ refs' = [refs EXCEPT ![registry] = @ + 1]
            /\ registry' = registry
  BY DEF TakeReference
<1>3. /\ user'[l].pc = "note" /\ user'[l].held = <<registry'>>
      /\ \A k \in Logger \ {l} : user'[k] = user[k]
  BY <1>1, <1>2, Gone
<1>4. refs \in Seq(Nat) /\ Len(refs) \in Nat /\ registry \in Nat
  BY <1>1 DEF LoggerTypeOK
<1>5. l \notin Holders /\ Holders' = Holders \cup {l} /\ files[l] = <<>>
  BY <1>1, <1>2, <1>3 DEF Holders, ReferenceOK
<1>6. /\ IsFiniteSet(Holders') /\ Cardinality(Holders) \in Nat
      /\ Cardinality(Holders') = Cardinality(Holders) + 1
  BY <1>1, <1>5, FS_AddElement, FS_CardinalityType DEF CountOK
<1>7. CASE registry = 0
  <2>1. Holders = {} /\ Cardinality(Holders) = 0
    BY <1>1, <1>7, FS_EmptySet DEF CountOK
  <2>2. /\ Len(refs') = Len(refs) + 1 /\ registry' = Len(refs) + 1 /\ registry' # 0
        /\ refs'[Len(refs) + 1] = 1
    BY <1>2, <1>4, <1>7
  <2>3. CountOK'
    <3>1. registry' \in 1..Len(refs') /\ refs'[registry'] = Cardinality(Holders')
      BY <1>4, <1>6, <2>1, <2>2
    <3> QED BY <1>5, <1>6, <2>2, <3>1 DEF CountOK
  <2>4. ASSUME NEW k \in Logger PROVE ReferenceOK(k)'
    BY <1>1, <1>2, <1>3, <1>5, <2>1 DEF ReferenceOK, Holders
  <2> QED BY <2>3, <2>4
<1>8. CASE registry # 0
  <2>1. registry \in 1..Len(refs) /\ refs[registry] = Cardinality(Holders)
    BY <1>1, <1>8 DEF CountOK
  <2>2. /\ registry' = registry /\ Len(refs') = Len(refs)
        /\ refs'[registry] = refs[registry] + 1
    BY <1>2, <1>4, <1>8, <2>1
  <2>3. CountOK'
    <3>1. registry' \in 1..Len(refs') /\ refs'[registry'] = Cardinality(Holders')
      BY <1>6, <2>1, <2>2
    <3> QED BY <1>5, <1>6, <1>8, <2>2, <3>1 DEF CountOK
  <2>4. ASSUME NEW k \in Logger PROVE ReferenceOK(k)'
    BY <1>1, <1>2, <1>3, <1>5, <2>2 DEF ReferenceOK
  <2> QED BY <2>3, <2>4
<1> QED BY <1>7, <1>8

LEMMA ReleaseCounts ==
    ASSUME LoggerInv, NEW l \in Logger, Release(l)
    PROVE  CountOK' /\ \A k \in Logger : ReferenceOK(k)'
<1>1. LoggerTypeOK /\ CountOK /\ \A k \in Logger : ReferenceOK(k)
  BY DEF LoggerInv
<1>2. /\ user[l].pc \in {"unbind", "release"} /\ files' = files
      /\ GoTo(l, IF user[l].pc = "unbind" THEN "idle" ELSE "closed", <<>>)
  BY DEF Release
<1>3. /\ user'[l].pc \in {"idle", "closed"} /\ user'[l].held = <<>>
      /\ \A k \in Logger \ {l} : user'[k] = user[k]
  BY <1>1, <1>2, Gone
<1>4. refs \in Seq(Nat) /\ Len(refs) \in Nat /\ registry \in Nat
  BY <1>1 DEF LoggerTypeOK
<1>5. files[l] = <<>> /\ files'[l] = <<>> /\ Holders' = Holders \ {l}
  BY <1>1, <1>2, <1>3 DEF Holders, ReferenceOK
<1>6. CASE user[l].held # <<>>
  <2>1. l \in Holders
    BY <1>6 DEF Holders
  <2>2. registry \in 1..Len(refs) /\ refs[registry] = Cardinality(Holders) /\ registry # 0
    BY <1>1, <2>1 DEF CountOK
  <2>3. user[l].held[1] = registry
    BY <1>1, <1>6 DEF ReferenceOK
  <2>4. /\ refs' = [refs EXCEPT ![registry] = @ - 1]
        /\ registry' = IF refs'[registry] = 0 THEN 0 ELSE registry
    BY <1>6, <2>2, <2>3 DEF Release
  <2>5. Len(refs') = Len(refs) /\ refs'[registry] = refs[registry] - 1
    BY <1>4, <2>2, <2>4
  <2>6. /\ IsFiniteSet(Holders') /\ Cardinality(Holders') \in Nat
        /\ Cardinality(Holders') = Cardinality(Holders) - 1
        /\ Cardinality(Holders') = 0 <=> Holders' = {}
    BY <1>1, <1>5, <2>1, FS_RemoveElement, FS_CardinalityType, FS_EmptySet DEF CountOK
  <2>7. CountOK'
    BY <2>2, <2>4, <2>5, <2>6 DEF CountOK
  <2>8. ASSUME NEW k \in Logger PROVE ReferenceOK(k)'
    <3>1. CASE k = l
      BY <1>3, <1>5, <3>1 DEF ReferenceOK
    <3>2. CASE k # l
      <4>1. files'[k] = files[k] /\ user'[k] = user[k] /\ ReferenceOK(k)
        BY <1>1, <1>2, <1>3, <3>2
      <4>2. files[k] # <<>> \/ user[k].held # <<>> => registry' = registry
        BY <1>3, <1>5, <2>2, <2>4, <2>5, <2>6, <3>2 DEF Holders
      <4> QED BY <4>1, <4>2 DEF ReferenceOK
    <3> QED BY <3>1, <3>2
  <2> QED BY <2>7, <2>8
<1>7. CASE user[l].held = <<>>
  <2>1. refs' = refs /\ registry' = registry
    BY <1>7 DEF Release
  <2>2. Holders' = Holders
    BY <1>5, <1>7 DEF Holders
  <2>3. CountOK'
    BY <2>1, <2>2, SameHolders
  <2>4. ASSUME NEW k \in Logger PROVE ReferenceOK(k)'
    BY <1>1, <1>2, <1>3, <1>5, <2>1 DEF ReferenceOK
  <2> QED BY <2>3, <2>4
<1> QED BY <1>6, <1>7

\* Steps of the user that move a reference, or leave all where they are.
LEMMA MoveKeeps ==
    ASSUME LoggerInv, NEW l \in Logger, registry' = registry, refs' = refs,
           NEW pc, NEW held, GoTo(l, pc, held),
           files' \in [Logger -> Seq(Nat)], \A k \in Logger \ {l} : files'[k] = files[k],
           ReferenceOK(l)', (files'[l] # <<>> \/ held # <<>>) <=> l \in Holders
    PROVE  CountOK' /\ \A k \in Logger : ReferenceOK(k)'
<1>1. LoggerTypeOK /\ CountOK /\ \A k \in Logger : ReferenceOK(k)
  BY DEF LoggerInv
<1>2. user'[l].held = held /\ \A k \in Logger \ {l} : user'[k] = user[k]
  BY <1>1, Gone
<1>3. Holders' = Holders
  BY <1>2 DEF Holders
<1>4. CountOK'
  BY <1>3, SameHolders
<1>5. ASSUME NEW k \in Logger PROVE ReferenceOK(k)'
  BY <1>1, <1>2 DEF ReferenceOK
<1> QED BY <1>4, <1>5

LEMMA ReferencesStep ==
    ASSUME LoggerInv, LoggerNext
    PROVE  CountOK' /\ \A k \in Logger : ReferenceOK(k)'
<1>1. LoggerTypeOK /\ CountOK /\ LoggerTypeOK' /\ \A k \in Logger : ReferenceOK(k)
  BY TypeStep DEF LoggerInv
<1>2. files' \in [Logger -> Seq(Nat)] /\ files \in [Logger -> Seq(Nat)]
  BY <1>1 DEF LoggerTypeOK
<1>3. PICK l \in Logger :
         \/ Log(l) \/ BindFile(l) \/ TakeReference(l) \/ NoteFile(l) \/ Unbind(l) \/ Release(l)
         \/ Join(l) \/ PutStop(l) \/ TakeFiles(l)
         \/ TakeText(l) \/ Leave(l) \/ PrintText(l) \/ WriteText(l) \/ TaskDone(l)
         \/ IdleTick(l) \/ FlushFile(l) \/ EndTick(l)
  BY DEF LoggerNext
<1>4. ReferenceOK(l) /\ files[l] \in Seq(Nat)
  BY <1>1, <1>2
<1>5. CASE UNCHANGED <<user, files, registry, refs>>
  BY <1>1, <1>5 DEF CountOK, ReferenceOK, Holders
<1>6. CASE TakeReference(l)
  BY <1>6, TakeReferenceCounts
<1>7. CASE Release(l)
  BY <1>7, ReleaseCounts
<1>8. CASE BindFile(l)
  <2>1. /\ GoTo(l, "bind", <<>>) /\ user[l].pc = "idle" /\ files[l] = <<>>
        /\ UNCHANGED <<files, registry, refs>>
    BY <1>8 DEF BindFile
  <2>2. user'[l].pc = "bind" /\ user'[l].held = <<>>
    BY <1>1, <2>1, Gone
  <2>3. ReferenceOK(l)' /\ l \notin Holders
    BY <1>4, <2>1, <2>2 DEF ReferenceOK, Holders
  <2> QED BY <1>2, <2>1, <2>3, MoveKeeps
<1>9. CASE NoteFile(l)
  <2>1. /\ GoTo(l, "idle", <<>>) /\ user[l].pc = "note"
        /\ files' = [files EXCEPT ![l] = @ \o user[l].held] /\ UNCHANGED <<registry, refs>>
    BY <1>9 DEF NoteFile
  <2>2. user'[l].pc = "idle" /\ user'[l].held = <<>>
    BY <1>1, <2>1, Gone
  <2>3. files[l] = <<>> /\ user[l].held \in {<<>>, <<registry>>}
    BY <1>4, <2>1 DEF ReferenceOK
  <2>4. files'[l] = user[l].held /\ \A k \in Logger \ {l} : files'[k] = files[k]
    BY <1>2, <2>1, <2>3
  <2>5. ReferenceOK(l)'
    BY <2>1, <2>2, <2>3, <2>4 DEF ReferenceOK
  <2>6. files'[l] # <<>> <=> l \in Holders
    BY <2>3, <2>4 DEF Holders
  <2> QED BY <1>2, <2>1, <2>4, <2>5, <2>6, MoveKeeps
<1>10. CASE Unbind(l) \/ TakeFiles(l)
  <2> DEFINE pc == IF Unbind(l) THEN "unbind" ELSE "release"
  <2>1. /\ GoTo(l, pc, files[l]) /\ user[l].pc \in {"idle", "join"}
        /\ files' = [files EXCEPT ![l] = <<>>] /\ UNCHANGED <<registry, refs>>
    BY <1>10 DEF Unbind, TakeFiles
  <2>2. user'[l].pc = pc /\ user'[l].held = files[l] /\ pc \in {"unbind", "release"}
    BY <1>1, <2>1, Gone
  <2> HIDE DEF pc
  <2>3. files'[l] = <<>> /\ \A k \in Logger \ {l} : files'[k] = files[k]
    BY <1>2, <2>1
  <2>4. ReferenceOK(l)' /\ (files[l] # <<>> <=> l \in Holders)
    BY <1>4, <2>1, <2>2, <2>3 DEF ReferenceOK, Holders
  <2> QED BY <1>2, <2>1, <2>3, <2>4, MoveKeeps
<1>11. CASE Join(l) \/ PutStop(l)
  <2> DEFINE pc == IF Join(l) THEN "stop" ELSE "join"
  <2>1. /\ GoTo(l, pc, <<>>) /\ user[l].pc \in {"idle", "stop"}
        /\ UNCHANGED <<files, registry, refs>>
    BY <1>11 DEF Join, PutStop
  <2>2. user'[l].pc = pc /\ user'[l].held = <<>> /\ pc \in {"stop", "join"}
    BY <1>1, <2>1, Gone
  <2> HIDE DEF pc
  <2>3. ReferenceOK(l)' /\ (files'[l] # <<>> <=> l \in Holders)
    BY <1>4, <2>1, <2>2 DEF ReferenceOK, Holders
  <2> QED BY <1>2, <2>1, <2>3, MoveKeeps
<1> QED BY <1>3, <1>5, <1>6, <1>7, <1>8, <1>9, <1>10, <1>11
        DEF Log, TakeText, Leave, PrintText, WriteText, TaskDone, IdleTick, FlushFile, EndTick

\* What a step makes of its worker thread, and of the others.
LEMMA Worked ==
    ASSUME LoggerTypeOK, NEW l \in Logger, NEW step, Works(l, step)
    PROVE  loop'[l] = step /\ \A k \in Logger \ {l} : loop'[k] = loop[k]
BY DEF Works, LoggerTypeOK

\* Where a worker finds its handles.
LEMMA ListedStep ==
    ASSUME LoggerInv, LoggerNext, Len(refs) <= Len(refs')
    PROVE  \A k \in Logger : loop'[k].left \in {<<>>} \cup {<<h>> : h \in 1..Len(refs')}
<1>1. LoggerTypeOK /\ CountOK /\ BufferOK /\ \A k \in Logger : ReferenceOK(k)
  BY DEF LoggerInv
<1>2. PICK l \in Logger :
         \/ Log(l) \/ BindFile(l) \/ TakeReference(l) \/ NoteFile(l) \/ Unbind(l) \/ Release(l)
         \/ Join(l) \/ PutStop(l) \/ TakeFiles(l)
         \/ TakeText(l) \/ Leave(l) \/ PrintText(l) \/ WriteText(l) \/ TaskDone(l)
         \/ IdleTick(l) \/ FlushFile(l) \/ EndTick(l)
  BY DEF LoggerNext
<1>3. /\ loop \in [Logger -> LoopState] /\ loop[l] \in LoopState
      /\ Len(refs) \in Nat /\ Len(refs') \in Nat
  BY <1>1, TypeStep DEF LoggerTypeOK
<1>4. \A k \in Logger : loop[k].left \in {<<>>} \cup {<<h>> : h \in 1..Len(refs')}
  <2>1. \A h \in 1..Len(refs) : h \in 1..Len(refs')
    BY <1>3
  <2> QED BY <1>1, <2>1 DEF BufferOK
<1>5. files[l] \in {<<>>} \cup {<<h>> : h \in 1..Len(refs')}
  <2>1. CASE files[l] = <<>>
    BY <2>1
  <2>2. CASE files[l] # <<>>
    <3>1. files[l] = <<registry>> /\ l \in Holders
      BY <1>1, <2>2 DEF ReferenceOK, Holders
    <3>2. registry \in 1..Len(refs)
      BY <1>1, <3>1 DEF CountOK
    <3>3. registry \in 1..Len(refs')
      BY <1>3, <3>2
    <3> QED BY <3>1, <3>3
  <2> QED BY <2>1, <2>2
<1>6. CASE loop' = loop
  BY <1>4, <1>6
<1>7. ASSUME NEW step, Works(l, step), step.left \in {<<>>} \cup {<<h>> : h \in 1..Len(refs')}
      PROVE  \A k \in Logger : loop'[k].left \in {<<>>} \cup {<<h>> : h \in 1..Len(refs')}
  BY <1>1, <1>4, <1>7, Worked
<1>8. Unoccupied.left = <<>> /\ [Unoccupied EXCEPT !.pc = "ended"].left = <<>>
      /\ [Unoccupied EXCEPT !.pc = "flush", !.left = files[l]].left = files[l]
  BY DEF Unoccupied
<1>9. CASE TakeText(l)
  <2> DEFINE pc == IF Head(pending[l]) = Stop THEN "ended" ELSE "print"
  <2>1. Works(l, [Unoccupied EXCEPT !.pc = pc, !.text = Head(pending[l])])
    BY <1>9 DEF TakeText
  <2> HIDE DEF pc
  <2>2. [Unoccupied EXCEPT !.pc = pc, !.text = Head(pending[l])].left = <<>>
    BY DEF Unoccupied
  <2> QED BY <1>7, <2>1, <2>2
<1>10. CASE Leave(l) \/ TaskDone(l) \/ EndTick(l)
  BY <1>7, <1>8, <1>10 DEF Leave, TaskDone, EndTick
<1>11. CASE IdleTick(l)
  BY <1>5, <1>7, <1>8, <1>11 DEF IdleTick
<1>12. CASE PrintText(l)
  <2>1. [loop[l] EXCEPT !.pc = "write", !.left = files[l]].left = files[l]
    BY <1>3 DEF LoopState
  <2> QED BY <1>5, <1>7, <1>8, <1>12, <2>1 DEF PrintText
<1>13. CASE WriteText(l) \/ FlushFile(l)
  <2>1. loop[l].left # <<>> /\ Works(l, [loop[l] EXCEPT !.left = Tail(@)])
    BY <1>13 DEF WriteText, FlushFile
  <2>2. PICK h \in 1..Len(refs') : loop[l].left = <<h>>
    BY <1>4, <2>1
  <2>3. [loop[l] EXCEPT !.left = Tail(@)].left = <<>>
    BY <1>3, <2>2 DEF LoopState
  <2> QED BY <1>7, <2>1, <2>3
<1> QED BY <1>2, <1>6, <1>9, <1>10, <1>11, <1>12, <1>13
        DEF Log, BindFile, TakeReference, NoteFile, Unbind, Release, Join, PutStop, TakeFiles

\* The buffer is emptied when the handle is closed, and filled through the
\* registered one.
LEMMA BufferStep ==
    ASSUME LoggerInv, LoggerNext
    PROVE  BufferOK'
<1>1. LoggerTypeOK /\ CountOK /\ BufferOK /\ \A k \in Logger : ReferenceOK(k)
  BY DEF LoggerInv
<1>2. PICK l \in Logger :
         \/ Log(l) \/ BindFile(l) \/ TakeReference(l) \/ NoteFile(l) \/ Unbind(l) \/ Release(l)
         \/ Join(l) \/ PutStop(l) \/ TakeFiles(l)
         \/ TakeText(l) \/ Leave(l) \/ PrintText(l) \/ WriteText(l) \/ TaskDone(l)
         \/ IdleTick(l) \/ FlushFile(l) \/ EndTick(l)
  BY DEF LoggerNext
<1>3. refs \in Seq(Nat) /\ Len(refs) \in Nat /\ registry \in Nat
  BY <1>1 DEF LoggerTypeOK
<1>4. CASE UNCHANGED <<registry, refs, buffered>>
  <2>1. Len(refs) <= Len(refs')
    BY <1>3, <1>4
  <2> QED BY <1>1, <1>2, <1>4, <2>1, ListedStep DEF BufferOK
<1>5. CASE TakeReference(l)
  <2>1. CASE registry = 0 /\ refs' = Append(refs, 1) /\ registry' = Len(refs')
    <3>1. /\ Len(refs') = Len(refs) + 1 /\ refs'[Len(refs) + 1] = 1
          /\ \A h \in 1..Len(refs) : refs'[h] = refs[h]
      BY <1>3, <2>1
    <3>2. ASSUME NEW h \in 1..Len(refs'), refs'[h] # 0 PROVE h = registry'
      <4>1. CASE h \in 1..Len(refs)
        BY <1>1, <2>1, <3>1, <3>2, <4>1 DEF BufferOK
      <4> QED BY <1>3, <2>1, <3>1, <4>1
    <3> QED BY <1>3, <2>1, <3>1, <3>2, ListedStep DEF BufferOK
  <2>2. CASE registry # 0 /\ refs' = [refs EXCEPT ![registry] = @ + 1] /\ registry' = registry
    <3>1. Len(refs') = Len(refs) /\ \A h \in 1..Len(refs) : h # registry => refs'[h] = refs[h]
      BY <1>3, <2>2
    <3> QED BY <1>1, <1>3, <2>2, <3>1, ListedStep DEF BufferOK
  <2> QED BY <1>5, <2>1, <2>2 DEF TakeReference
<1>6. CASE Release(l)
  <2>1. CASE user[l].held # <<>> /\ registry # 0
    <3>1. user[l].held[1] = registry
      BY <1>1, <2>1 DEF ReferenceOK
    <3>2. /\ refs' = [refs EXCEPT ![registry] = @ - 1]
          /\ \/ refs'[registry] = 0 /\ registry' = 0 /\ buffered' = {}
             \/ refs'[registry] # 0 /\ UNCHANGED <<registry, buffered>>
      BY <1>6, <2>1, <3>1 DEF Release, Flushed
    <3>3. Len(refs') = Len(refs) /\ \A h \in 1..Len(refs) : h # registry => refs'[h] = refs[h]
      BY <1>3, <3>2
    <3>4. \A h \in 1..Len(refs') : refs'[h] # 0 => h = registry'
      BY <1>1, <3>2, <3>3 DEF BufferOK
    <3> QED BY <1>1, <1>3, <2>1, <3>2, <3>3, <3>4, ListedStep DEF BufferOK
  <2>2. CASE ~(user[l].held # <<>> /\ registry # 0)
    BY <1>4, <1>6, <2>2 DEF Release
  <2> QED BY <2>1, <2>2
<1>7. CASE WriteText(l)
  <2>1. /\ UNCHANGED <<registry, refs>>
        /\ buffered' = buffered \/ refs[Head(loop[l].left)] # 0
    BY <1>3, <1>7 DEF WriteText
  <2>2. refs[Head(loop[l].left)] # 0 => registry # 0
    <3>1. PICK h \in 1..Len(refs) : loop[l].left = <<h>>
      BY <1>1, <1>7 DEF WriteText, BufferOK
    <3> QED BY <1>1, <1>3, <3>1 DEF BufferOK
  <2> QED BY <1>1, <1>3, <2>1, <2>2, ListedStep DEF BufferOK
<1>8. CASE FlushFile(l)
  <2>1. UNCHANGED <<registry, refs>> /\ (buffered' = buffered \/ buffered' = {})
    BY <1>8 DEF FlushFile, Flushed
  <2> QED BY <1>1, <1>3, <2>1, ListedStep DEF BufferOK
<1> QED BY <1>2, <1>4, <1>5, <1>6, <1>7, <1>8
        DEF Log, BindFile, NoteFile, Unbind, Join, PutStop, TakeFiles, TakeText, Leave,
            PrintText, TaskDone, IdleTick, EndTick
-----------------------------------------------------------------------------
(* The queues. *)

\* Steps of a logger leave the other loggers' queues alone.
LEMMA OtherQueue ==
    ASSUME LoggerInv, NEW l \in Logger, NEW k \in Logger \ {l},
           \/ Log(l) \/ BindFile(l) \/ TakeReference(l) \/ NoteFile(l) \/ Unbind(l) \/ Release(l)
           \/ Join(l) \/ PutStop(l) \/ TakeFiles(l)
           \/ TakeText(l) \/ Leave(l) \/ PrintText(l) \/ WriteText(l) \/ TaskDone(l)
           \/ IdleTick(l) \/ FlushFile(l) \/ EndTick(l)
    PROVE  /\ user'[k] = user[k] /\ pending'[k] = pending[k] /\ unfinished'[k] = unfinished[k]
           /\ stopping'[k] = stopping[k] /\ loop'[k] = loop[k] /\ files'[k] = files[k]
<1>1. /\ user \in [Logger -> UserState] /\ pending \in [Logger -> Seq(Nat)]
      /\ unfinished \in [Logger -> Int] /\ stopping \in [Logger -> BOOLEAN]
      /\ loop \in [Logger -> LoopState] /\ files \in [Logger -> Seq(Nat)]
  BY DEF LoggerInv, LoggerTypeOK
<1>2. CASE Log(l)
  BY <1>1, <1>2 DEF Log
<1>3. CASE BindFile(l) \/ TakeReference(l) \/ NoteFile(l) \/ Unbind(l) \/ Release(l)
  BY <1>1, <1>3 DEF BindFile, TakeReference, NoteFile, Unbind, Release, GoTo
<1>4. CASE Join(l) \/ PutStop(l) \/ TakeFiles(l)
  BY <1>1, <1>4 DEF Join, PutStop, TakeFiles, GoTo
<1>5. CASE TakeText(l)
  BY <1>1, <1>5 DEF TakeText, Works
<1>6. CASE Leave(l) \/ PrintText(l)
  BY <1>1, <1>6 DEF Leave, PrintText, Works
<1>7. CASE WriteText(l) \/ TaskDone(l)
  BY <1>1, <1>7 DEF WriteText, TaskDone, Works
<1>8. CASE IdleTick(l) \/ FlushFile(l) \/ EndTick(l)
  BY <1>1, <1>8 DEF IdleTick, FlushFile, EndTick, Works
<1> QED BY <1>2, <1>3, <1>4, <1>5, <1>6, <1>7, <1>8

LEMMA QueueStep ==
    ASSUME LoggerInv, LoggerNext
    PROVE  \A k \in Logger : QueueOK(k)'
<1>1. LoggerTypeOK /\ \A k \in Logger : QueueOK(k)
  BY DEF LoggerInv
<1>2. PICK l \in Logger :
         \/ Log(l) \/ BindFile(l) \/ TakeReference(l) \/ NoteFile(l) \/ Unbind(l) \/ Release(l)
         \/ Join(l) \/ PutStop(l) \/ TakeFiles(l)
         \/ TakeText(l) \/ Leave(l) \/ PrintText(l) \/ WriteText(l) \/ TaskDone(l)
         \/ IdleTick(l) \/ FlushFile(l) \/ EndTick(l)
  BY DEF LoggerNext
<1>3. ASSUME NEW k \in Logger, k # l
      PROVE  QueueOK(k)'
  <2>1. /\ user'[k] = user[k] /\ pending'[k] = pending[k] /\ unfinished'[k] = unfinished[k]
        /\ stopping'[k] = stopping[k] /\ loop'[k] = loop[k]
    BY <1>2, <1>3, OtherQueue
  <2> QED BY <1>1, <2>1 DEF QueueOK, Unjoined
<1>4. /\ pending[l] \in Seq(Nat) /\ pending \in [Logger -> Seq(Nat)] /\ logged \in Nat
      /\ unfinished \in [Logger -> Int] /\ unfinished[l] \in Int
      /\ QueueOK(l) /\ loop[l] \in LoopState
  BY <1>1 DEF LoggerTypeOK
<1>5. QueueOK(l)'
  <2>1. CASE Log(l)
    <3>1. /\ pending' = [pending EXCEPT ![l] = Append(@, logged + 1)]
          /\ unfinished' = [unfinished EXCEPT ![l] = @ + 1] /\ UNCHANGED <<user, stopping, loop>>
      BY <2>1 DEF Log
    <3>2. /\ Len(pending[l]) \in Nat /\ Len(Append(pending[l], logged + 1)) = Len(pending[l]) + 1
          /\ \A i \in 1..Len(pending[l]) : Append(pending[l], logged + 1)[i] = pending[l][i]
          /\ Append(pending[l], logged + 1)[Len(pending[l]) + 1] = logged + 1
      BY <1>4
    <3>3. pending'[l] = Append(pending[l], logged + 1) /\ unfinished'[l] = unfinished[l] + 1
      BY <1>4, <3>1
    <3>4. \A i \in 1..(Len(pending[l]) + 1) : i \in 1..Len(pending[l]) \/ i = Len(pending[l]) + 1
      BY <3>2
    <3> QED BY <1>4, <3>1, <3>2, <3>3, <3>4 DEF QueueOK, Unjoined, Stop
  <2>2. CASE \/ BindFile(l) \/ TakeReference(l) \/ NoteFile(l) \/ Unbind(l) \/ Release(l)
    <3>1. Unjoined(l)' => Unjoined(l)
      <4>1. CASE Release(l)
        <5>1. /\ user[l].pc \in {"unbind", "release"}
              /\ GoTo(l, IF user[l].pc = "unbind" THEN "idle" ELSE "closed", <<>>)
          BY <4>1 DEF Release
        <5>2. user'[l].pc = IF user[l].pc = "unbind" THEN "idle" ELSE "closed"
          BY <1>1, <5>1, Gone
        <5> QED BY <5>1, <5>2 DEF Unjoined
      <4>2. CASE BindFile(l) \/ TakeReference(l) \/ NoteFile(l) \/ Unbind(l)
        BY <4>2 DEF BindFile, TakeReference, NoteFile, Unbind, Unjoined
      <4> QED BY <2>2, <4>1, <4>2
    <3>2. UNCHANGED <<pending, unfinished, stopping, loop>>
      BY <2>2 DEF BindFile, TakeReference, NoteFile, Unbind, Release
    <3> QED BY <1>4, <3>1, <3>2 DEF QueueOK
  <2>3. CASE Join(l) \/ PutStop(l) \/ TakeFiles(l)
    <3>1. user'[l].pc \in {"stop", "join", "release"}
      BY <1>1, <2>3, Gone DEF Join, PutStop, TakeFiles
    <3> QED BY <3>1 DEF QueueOK, Unjoined
  <2>4. CASE TakeText(l)
    <3>1. /\ pending[l] # <<>> /\ loop[l].pc = "idle"
          /\ pending' = [pending EXCEPT ![l] = Tail(@)]
          /\ UNCHANGED <<user, unfinished, stopping>>
      BY <2>4 DEF TakeText
    <3>2. /\ Len(pending[l]) \in Nat /\ Len(Tail(pending[l])) = Len(pending[l]) - 1
          /\ \A i \in 1..(Len(pending[l]) - 1) : Tail(pending[l])[i] = pending[l][i + 1]
          /\ Head(pending[l]) = pending[l][1] /\ Len(pending[l]) > 0
      BY <1>4, <3>1
    <3>3. pending'[l] = Tail(pending[l])
      BY <1>4, <3>1
    <3>4. \A i \in 1..(Len(pending[l]) - 1) : i + 1 \in 1..Len(pending[l])
      BY <3>2
    <3>5. loop'[l].pc \notin {"idle", "flush"}
      <4>1. Works(l, [Unoccupied EXCEPT !.pc = IF Head(pending[l]) = Stop THEN "ended" ELSE "print",
                                        !.text = Head(pending[l])])
        BY <2>4 DEF TakeText
      <4>2. loop'[l] = [Unoccupied EXCEPT
               !.pc = IF Head(pending[l]) = Stop THEN "ended" ELSE "print",
               !.text = Head(pending[l])]
        BY <1>1, <4>1, Worked
      <4>3. loop'[l].pc = IF Head(pending[l]) = Stop THEN "ended" ELSE "print"
        BY <4>2 DEF Unoccupied
      <4> QED BY <4>3
    <3> QED BY <1>4, <3>1, <3>2, <3>3, <3>4, <3>5 DEF QueueOK, Unjoined
  <2>5. CASE Leave(l)
    BY <1>4, <2>5 DEF Leave, QueueOK, Unjoined
  <2>6. CASE PrintText(l) \/ WriteText(l)
    <3>1. /\ loop[l].pc \notin {"idle", "flush"}
          /\ UNCHANGED <<user, pending, unfinished, stopping>>
      BY <2>6 DEF PrintText, WriteText
    <3>2. loop'[l].pc \notin {"idle", "flush"}
      <4>1. CASE Works(l, [loop[l] EXCEPT !.pc = "write", !.left = files[l]])
        <5>1. loop'[l] = [loop[l] EXCEPT !.pc = "write", !.left = files[l]]
          BY <1>1, <4>1, Worked
        <5> QED BY <1>4, <5>1 DEF LoopState
      <4>2. CASE Works(l, [Unoccupied EXCEPT !.pc = "ended"])
        <5>1. loop'[l] = [Unoccupied EXCEPT !.pc = "ended"]
          BY <1>1, <4>2, Worked
        <5> QED BY <5>1 DEF Unoccupied
      <4>3. CASE WriteText(l)
        <5>1. loop[l].pc = "write" /\ Works(l, [loop[l] EXCEPT !.left = Tail(@)])
          BY <4>3 DEF WriteText
        <5>2. loop'[l] = [loop[l] EXCEPT !.left = Tail(@)]
          BY <1>1, <5>1, Worked
        <5> QED BY <1>4, <5>1, <5>2 DEF LoopState
      <4> QED BY <2>6, <4>1, <4>2, <4>3 DEF PrintText
    <3> QED BY <1>4, <3>1, <3>2 DEF QueueOK, Unjoined
  <2>7. CASE TaskDone(l)
    <3>1. /\ loop[l].pc = "write" /\ UNCHANGED <<user, pending, stopping>>
          /\ unfinished'[l] = unfinished[l] - 1
      BY <1>4, <2>7 DEF TaskDone
    <3>2. loop'[l].pc = "idle"
      BY <1>1, <2>7, Worked DEF TaskDone, Unoccupied
    <3>3. Len(pending[l]) \in Nat
      BY <1>4
    <3> QED BY <1>4, <3>1, <3>2, <3>3 DEF QueueOK, Unjoined
  <2>8. CASE IdleTick(l) \/ FlushFile(l) \/ EndTick(l)
    <3>1. /\ loop[l].pc \in {"idle", "flush"}
          /\ UNCHANGED <<user, pending, unfinished, stopping>>
      BY <2>8 DEF IdleTick, FlushFile, EndTick
    <3>2. loop'[l].pc \in {"idle", "flush"}
      <4>1. CASE IdleTick(l)
        <5>1. loop'[l] = [Unoccupied EXCEPT !.pc = "flush", !.left = files[l]]
          BY <1>1, <4>1, Worked DEF IdleTick
        <5> QED BY <5>1 DEF Unoccupied
      <4>2. CASE FlushFile(l)
        <5>1. loop[l].pc = "flush" /\ loop'[l] = [loop[l] EXCEPT !.left = Tail(@)]
          BY <1>1, <4>2, Worked DEF FlushFile
        <5> QED BY <1>4, <5>1 DEF LoopState
      <4>3. CASE EndTick(l)
        BY <1>1, <4>3, Worked DEF EndTick, Unoccupied
      <4> QED BY <2>8, <4>1, <4>2, <4>3
    <3> QED BY <1>4, <3>1, <3>2 DEF QueueOK, Unjoined
  <2> QED BY <1>2, <2>1, <2>2, <2>3, <2>4, <2>5, <2>6, <2>7, <2>8
<1> QED BY <1>3, <1>5
-----------------------------------------------------------------------------
(* What is owed. *)

LEMMA OwedStep ==
    ASSUME LoggerInv, LoggerNext
    PROVE  OwedOK'
<1>1. /\ LoggerTypeOK /\ OwedOK /\ CountOK
      /\ \A k \in Logger : QueueOK(k) /\ ReferenceOK(k)
  BY DEF LoggerInv
<1>2. PICK l \in Logger :
         \/ Log(l) \/ BindFile(l) \/ TakeReference(l) \/ NoteFile(l) \/ Unbind(l) \/ Release(l)
         \/ Join(l) \/ PutStop(l) \/ TakeFiles(l)
         \/ TakeText(l) \/ Leave(l) \/ PrintText(l) \/ WriteText(l) \/ TaskDone(l)
         \/ IdleTick(l) \/ FlushFile(l) \/ EndTick(l)
  BY DEF LoggerNext
<1>3. /\ pending[l] \in Seq(Nat) /\ pending \in [Logger -> Seq(Nat)] /\ logged \in Nat
      /\ loop[l] \in LoopState /\ files \in [Logger -> Seq(Nat)] /\ QueueOK(l) /\ ReferenceOK(l)
      /\ unfinished[l] \in Int /\ user \in [Logger -> UserState]
  BY <1>1 DEF LoggerTypeOK
<1> DEFINE Lent(k, n) == /\ Log(l) /\ k = l /\ n = logged + 1
                         /\ user[l].pc = "idle" /\ files[l] # <<>>
<1>4. Taken \subseteq Taken' /\ owed' \subseteq Logger \X Nat
  <2>1. logged + 1 \in Nat /\ owed \subseteq Logger \X Nat
    BY <1>1, <1>3 DEF OwedOK
  <2>2. CASE Log(l)
    BY <2>1, <2>2 DEF Log, Taken
  <2>3. CASE Unbind(l)
    BY <2>1, <2>3 DEF Unbind, Taken
  <2>4. CASE WriteText(l)
    BY <2>1, <2>4 DEF WriteText, Taken
  <2>5. CASE Release(l) \/ FlushFile(l)
    BY <2>1, <2>5 DEF Release, FlushFile, Flushed, Taken
  <2>6. CASE UNCHANGED <<buffered, written, owed>>
    BY <2>1, <2>6 DEF Taken
  <2> QED BY <1>2, <2>2, <2>3, <2>4, <2>5, <2>6
          DEF BindFile, TakeReference, NoteFile, Join, PutStop, TakeFiles,
              TakeText, Leave, PrintText, TaskDone, IdleTick, EndTick
<1>5. \A k \in Logger, n \in Nat : <<k, n>> \in owed' => <<k, n>> \in owed \/ Lent(k, n)
  <2>1. CASE Log(l)
    BY <2>1 DEF Log
  <2>2. CASE owed' \subseteq owed
    BY <2>2
  <2> QED BY <1>2, <2>1, <2>2
          DEF BindFile, TakeReference, NoteFile, Unbind, Release, Join, PutStop, TakeFiles,
              TakeText, Leave, PrintText, WriteText, TaskDone, IdleTick, FlushFile, EndTick
<1>6. ASSUME NEW k \in Logger, NEW n \in Nat, <<k, n>> \in owed', <<k, n>> \notin Taken', k # l
      PROVE  Unjoined(k)' /\ files'[k] # <<>> /\ Waits(k, n)'
  <2>1. /\ user'[k] = user[k] /\ pending'[k] = pending[k] /\ loop'[k] = loop[k]
        /\ files'[k] = files[k]
    BY <1>2, <1>6, OtherQueue
  <2>2. <<k, n>> \in owed /\ <<k, n>> \notin Taken
    BY <1>4, <1>5, <1>6
  <2> QED BY <1>1, <2>1, <2>2 DEF OwedOK, Unjoined, Waits
<1>7. ASSUME NEW n \in Nat, <<l, n>> \in owed', <<l, n>> \notin Taken'
      PROVE  Unjoined(l)' /\ files'[l] # <<>> /\ Waits(l, n)'
  <2>1. CASE Log(l)
    <3>1. /\ pending'[l] = Append(pending[l], logged + 1) /\ UNCHANGED <<user, loop, files>>
      BY <1>3, <2>1 DEF Log
    <3>2. /\ Len(pending[l]) \in Nat /\ Len(Append(pending[l], logged + 1)) = Len(pending[l]) + 1
          /\ \A i \in 1..Len(pending[l]) : Append(pending[l], logged + 1)[i] = pending[l][i]
          /\ Append(pending[l], logged + 1)[Len(pending[l]) + 1] = logged + 1
      BY <1>3
    <3>3. CASE <<l, n>> \in owed
      <4>1. Unjoined(l) /\ files[l] # <<>> /\ Waits(l, n)
        BY <1>1, <1>4, <1>7, <3>3 DEF OwedOK
      <4> QED BY <3>1, <3>2, <4>1 DEF Unjoined, Waits
    <3>4. CASE n = logged + 1 /\ user[l].pc = "idle" /\ files[l] # <<>>
      <4>1. Len(pending[l]) + 1 \in 1..Len(pending'[l]) /\ pending'[l][Len(pending[l]) + 1] = n
        BY <3>1, <3>2, <3>4
      <4> QED BY <3>1, <3>4, <4>1 DEF Unjoined, Waits
    <3> QED BY <1>5, <1>7, <3>3, <3>4
  <2>2. CASE ~Log(l)
    <3>1. Unjoined(l) /\ files[l] # <<>> /\ Waits(l, n)
      BY <1>1, <1>4, <1>5, <1>7, <2>2 DEF OwedOK
    <3>2. CASE BindFile(l) \/ TakeReference(l) \/ NoteFile(l) \/ Release(l)
      BY <1>3, <3>1, <3>2 DEF BindFile, TakeReference, NoteFile, Release, ReferenceOK
    <3>3. CASE Unbind(l)
      BY <1>4, <1>7, <3>3 DEF Unbind, Taken
    <3>4. CASE Join(l)
      <4>1. Len(pending[l]) = 0 /\ loop[l].pc \in {"idle", "flush"}
        <5>1. unfinished[l] = 0 /\ Len(pending[l]) \in Nat
          BY <1>3, <3>4 DEF Join
        <5> QED BY <1>3, <3>1, <5>1 DEF QueueOK
      <4> QED BY <3>1, <4>1 DEF Waits
    <3>5. CASE PutStop(l) \/ TakeFiles(l)
      BY <3>1, <3>5 DEF PutStop, TakeFiles, Unjoined
    <3>6. CASE TakeText(l)
      <4>1. /\ pending[l] # <<>> /\ loop[l].pc = "idle"
            /\ pending'[l] = Tail(pending[l]) /\ UNCHANGED <<user, files>>
        BY <1>3, <3>6 DEF TakeText
      <4>2. PICK i \in 1..Len(pending[l]) : pending[l][i] = n
        BY <3>1, <4>1 DEF Waits
      <4>3. /\ Len(pending[l]) \in Nat /\ Len(Tail(pending[l])) = Len(pending[l]) - 1
            /\ \A j \in 1..(Len(pending[l]) - 1) : Tail(pending[l])[j] = pending[l][j + 1]
            /\ Head(pending[l]) = pending[l][1]
        BY <1>3, <4>1
      <4>4. n # Stop
        BY <1>3, <3>1, <4>2 DEF QueueOK
      <4>5. CASE i = 1
        <5>1. Works(l, [Unoccupied EXCEPT !.pc = IF Head(pending[l]) = Stop THEN "ended" ELSE "print",
                                          !.text = Head(pending[l])])
          BY <3>6 DEF TakeText
        <5>2. Head(pending[l]) = n
          BY <4>2, <4>3, <4>5
        <5>3. loop'[l] = [Unoccupied EXCEPT !.pc = "print", !.text = n]
          BY <1>1, <4>4, <5>1, <5>2, Worked
        <5>4. loop'[l].pc = "print" /\ loop'[l].text = n
          BY <5>3 DEF Unoccupied
        <5> QED BY <3>1, <4>1, <5>4 DEF Unjoined, Waits
      <4>6. CASE i # 1
        <5>1. i - 1 \in 1..(Len(pending[l]) - 1) /\ (i - 1) + 1 = i
          BY <4>3, <4>6
        <5>2. i - 1 \in 1..Len(pending'[l]) /\ pending'[l][i - 1] = n
          BY <4>1, <4>2, <4>3, <5>1
        <5> QED BY <3>1, <4>1, <5>2 DEF Unjoined, Waits
      <4> QED BY <4>5, <4>6
    <3>7. CASE Leave(l)
      BY <1>3, <3>1, <3>7 DEF Leave, QueueOK
    <3>8. CASE PrintText(l)
      <4>1. loop[l].pc = "print" /\ UNCHANGED <<user, pending, files>>
        BY <3>8 DEF PrintText
      <4>2. CASE Works(l, [loop[l] EXCEPT !.pc = "write", !.left = files[l]])
        <5>1. loop'[l] = [loop[l] EXCEPT !.pc = "write", !.left = files[l]]
          BY <1>1, <4>2, Worked
        <5>2. loop'[l].pc = "write" /\ loop'[l].text = loop[l].text /\ loop'[l].left = files[l]
          BY <1>3, <5>1 DEF LoopState
        <5> QED BY <3>1, <4>1, <5>2 DEF Unjoined, Waits
      <4>3. CASE Works(l, [Unoccupied EXCEPT !.pc = "ended"])
        <5>1. loop'[l].pc = "ended"
          BY <1>1, <4>3, Worked DEF Unoccupied
        <5> QED BY <3>1, <4>1, <5>1 DEF Unjoined, Waits
      <4> QED BY <3>8, <4>2, <4>3 DEF PrintText
    <3>9. CASE WriteText(l)
      <4>1. /\ loop[l].pc = "write" /\ loop[l].left # <<>> /\ UNCHANGED <<user, pending, files>>
            /\ refs[Head(loop[l].left)] # 0 => <<l, loop[l].text>> \in Taken'
            /\ Works(l, [loop[l] EXCEPT !.left = Tail(@)])
        BY <3>9 DEF WriteText, Taken
      <4>2. CASE loop[l].text = n /\ loop[l].left = files[l]
        <5>1. l \in Holders /\ files[l] = <<registry>>
          BY <1>3, <3>1 DEF Holders, ReferenceOK
        <5>2. Head(loop[l].left) = registry /\ registry # 0 /\ refs[registry] = Cardinality(Holders)
          BY <1>1, <4>2, <5>1 DEF CountOK
        <5>3. Cardinality(Holders) \in Nat /\ Cardinality(Holders) # 0
          BY <1>1, <5>1, FS_CardinalityType, FS_EmptySet DEF CountOK
        <5>4. <<l, n>> \in Taken'
          BY <4>1, <4>2, <5>2, <5>3
        <5> QED BY <1>7, <5>4
      <4>3. CASE \E i \in 1..Len(pending[l]) : pending[l][i] = n
        BY <3>1, <4>1, <4>3 DEF Unjoined, Waits
      <4> QED BY <3>1, <4>1, <4>2, <4>3 DEF Waits
    <3>10. CASE TaskDone(l)
      <4>1. loop[l].pc = "write" /\ loop[l].left = <<>> /\ UNCHANGED <<user, pending, files>>
        BY <3>10 DEF TaskDone
      <4> QED BY <3>1, <4>1 DEF Unjoined, Waits
    <3>11. CASE IdleTick(l) \/ FlushFile(l) \/ EndTick(l)
      <4>1. loop[l].pc \in {"idle", "flush"} /\ UNCHANGED <<user, pending, files>>
        BY <3>11 DEF IdleTick, FlushFile, EndTick
      <4> QED BY <3>1, <4>1 DEF Unjoined, Waits
    <3> QED BY <1>2, <2>2, <3>2, <3>3, <3>4, <3>5, <3>6, <3>7, <3>8, <3>9, <3>10, <3>11
  <2> QED BY <2>1, <2>2
<1> QED BY <1>4, <1>6, <1>7 DEF OwedOK
-----------------------------------------------------------------------------
(* The specification. *)

LEMMA LoggerInitOK == LoggerInit => LoggerInv
<1> SUFFICES ASSUME LoggerInit PROVE LoggerInv
  OBVIOUS
<1>1. NoReference \in UserState /\ Unoccupied \in LoopState
  BY DEF NoReference, Unoccupied, UserState, LoopState, Stop
<1>2. LoggerTypeOK
  <2>1. /\ pending \in [Logger -> Seq(Nat)] /\ files \in [Logger -> Seq(Nat)]
        /\ unfinished \in [Logger -> Int] /\ stopping \in [Logger -> BOOLEAN]
    BY DEF LoggerInit
  <2> QED BY <1>1, <2>1 DEF LoggerInit, LoggerTypeOK
<1>3. Holders = {}
  BY DEF LoggerInit, Holders, NoReference
<1>4. CountOK
  BY <1>3, FS_EmptySet DEF LoggerInit, CountOK
<1>5. OwedOK
  BY DEF LoggerInit, OwedOK, Taken
<1>6. ASSUME NEW l \in Logger PROVE ReferenceOK(l) /\ QueueOK(l)
  BY DEF LoggerInit, ReferenceOK, QueueOK, NoReference, Unoccupied
<1> QED BY <1>2, <1>4, <1>5, <1>6 DEF LoggerInv, LoggerInit, BufferOK, Unoccupied

LEMMA LoggerInvariance == LoggerSpec => []LoggerInv
<1>1. LoggerInv /\ [LoggerNext]_loggerVars => LoggerInv'
  <2> SUFFICES ASSUME LoggerInv, [LoggerNext]_loggerVars PROVE LoggerInv'
    OBVIOUS
  <2>1. CASE LoggerNext
    BY <2>1, TypeStep, ReferencesStep, BufferStep, QueueStep, OwedStep DEF LoggerInv
  <2>2. CASE UNCHANGED loggerVars
    <3>1. LoggerTypeOK' /\ CountOK' /\ OwedOK' /\ BufferOK'
      BY <2>2 DEF loggerVars, LoggerInv, LoggerTypeOK, CountOK, OwedOK, Unjoined, Waits, Holders,
                  Taken, BufferOK
    <3>2. \A l \in Logger : ReferenceOK(l)' /\ QueueOK(l)'
      BY <2>2 DEF loggerVars, LoggerInv, ReferenceOK, QueueOK, Unjoined
    <3> QED BY <3>1, <3>2 DEF LoggerInv
  <2> QED BY <2>1, <2>2
<1> QED BY <1>1, LoggerInitOK, PTL DEF LoggerSpec

\* When close() has returned, what was logged while the logger was bound to the
\* file is in the file, or in the buffer of the handle while another logger
\* keeps it open, whichever loggers share the handle, whoever opens it and
\* whoever releases it first.
THEOREM ClosedLoggerLosesNothingHolds == LoggerSpec => []ClosedLoggerLosesNothing
<1>1. LoggerInv => ClosedLoggerLosesNothing
  <2> SUFFICES ASSUME LoggerInv, NEW l \in Logger, user[l].pc = "closed", NEW m \in owed, m[1] = l
               PROVE  m \in written \/ (m \in buffered /\ registry # 0)
    BY DEF ClosedLoggerLosesNothing
  <2>1. OwedOK /\ BufferOK /\ ~Unjoined(l)
    BY DEF LoggerInv, Unjoined
  <2>2. PICK n \in Nat : m = <<l, n>>
    BY <2>1 DEF OwedOK
  <2>3. m \in Taken
    BY <2>1, <2>2 DEF OwedOK
  <2> QED BY <2>1, <2>3 DEF Taken, BufferOK
<1> QED BY <1>1, LoggerInvariance, PTL
=============================================================================
