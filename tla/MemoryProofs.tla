----------------------------- MODULE MemoryProofs -----------------------------
(***************************************************************************)
(* Proofs about the memories of the GUI package: the read/write lock, for  *)
(* any set of threads and any of them reading again while they read; the   *)
(* lesson store that lives behind it, for any rules and any bounds; and    *)
(* the episodic store, for any processes of which one changes it.          *)
(***************************************************************************)
EXTENDS LessonMemory, EpisodicMemory, WellFoundedInduction, FiniteSetTheorems,
        SequenceTheorems, TLAPS

(* The lock                                                                *)

Queued == {t \in Thread : at[t] \in {"sleepWrite", "wokeWrite"}}

LockTypeOK ==
    /\ at \in [Thread -> Place]
    /\ readers \in Nat /\ waiting \in Nat /\ writing \in BOOLEAN

\* The counters and the flag say how many threads are where.
Counted ==
    /\ readers = Cardinality(Holding) + Cardinality(HoldingTwice)
    /\ waiting = Cardinality(Queued)
    /\ writing <=> Writers # {}

\* Who sleeps has a reason that is still there.
SleepsForAReason ==
    \A t \in Thread :
        /\ at[t] = "sleepWrite" => writing \/ readers > 0
        /\ at[t] \in {"sleepRead", "sleepReread"} => writing \/ waiting > 0

LockInv == LockTypeOK /\ Counted /\ WriterIsAlone /\ SleepsForAReason

\* The sets of threads the counters count are finite and numbered.
LEMMA CountsAreNumbers ==
    /\ IsFiniteSet(Holding) /\ Cardinality(Holding) \in Nat
    /\ IsFiniteSet(HoldingTwice) /\ Cardinality(HoldingTwice) \in Nat
    /\ IsFiniteSet(Queued) /\ Cardinality(Queued) \in Nat
<1>1. IsFiniteSet(Holding) /\ IsFiniteSet(HoldingTwice) /\ IsFiniteSet(Queued)
  <2>1. Holding \subseteq Thread /\ HoldingTwice \subseteq Thread /\ Queued \subseteq Thread
    BY DEF Holding, HoldingTwice, Queued
  <2> QED  BY <2>1, LockAssumption, FS_Subset
<1> QED  BY <1>1, FS_CardinalityType

\* No reader is counted exactly when no thread holds the read lock, and no
\* writer is counted exactly when none is queued.
LEMMA ZeroMeansNobody ==
    ASSUME Counted
    PROVE  /\ readers = 0 <=> Holding = {}
           /\ waiting = 0 <=> Queued = {}
<1>1. Cardinality(Holding) = 0 <=> Holding = {}
  BY CountsAreNumbers, FS_EmptySet
<1>2. Cardinality(Queued) = 0 <=> Queued = {}
  BY CountsAreNumbers, FS_EmptySet
<1>3. Holding = {} => Cardinality(HoldingTwice) = 0
  <2>1. HoldingTwice \subseteq Holding
    BY DEF HoldingTwice, Holding
  <2> QED  BY <2>1, FS_EmptySet
<1> QED  BY <1>1, <1>2, <1>3, CountsAreNumbers DEF Counted

\* A step that wakes sleepers moves no thread in or out of what is counted.
LEMMA NotifiedKeepsSets ==
    ASSUME NEW place \in [Thread -> Place]
    PROVE  /\ Notified(place) \in [Thread -> Place]
           /\ \A t \in Thread :
                 /\ Notified(place)[t] \notin {"sleepRead", "sleepReread", "sleepWrite"}
                 /\ Notified(place)[t] \in {"reading", "askReread", "sleepReread", "rereading"}
                      <=> place[t] \in {"reading", "askReread", "sleepReread", "rereading"}
                 /\ Notified(place)[t] = "rereading" <=> place[t] = "rereading"
                 /\ Notified(place)[t] = "writing" <=> place[t] = "writing"
                 /\ Notified(place)[t] \in {"sleepWrite", "wokeWrite"}
                      <=> place[t] \in {"sleepWrite", "wokeWrite"}
  BY DEF Notified, Place

\* Adding a thread that was not counted counts one more, taking one that was
\* counted away counts one less.
LEMMA OneMoreOneLess ==
    ASSUME NEW S, IsFiniteSet(S), NEW t
    PROVE  /\ t \notin S => Cardinality(S \cup {t}) = Cardinality(S) + 1
           /\ t \in S => Cardinality(S \ {t}) = Cardinality(S) - 1
  BY FS_AddElement, FS_RemoveElement

LEMMA AskKeepsLockInv ==
    ASSUME LockInv, NEW t \in Thread, Ask(t)
    PROVE  LockInv'
<1>1. LockTypeOK'
  BY DEF LockInv, LockTypeOK, Ask, Place
<1>2. Holding' = Holding /\ HoldingTwice' = HoldingTwice /\ Queued' = Queued /\ Writers' = Writers
  BY DEF LockInv, LockTypeOK, Ask, Holding, HoldingTwice, Queued, Writers
<1>3. Counted' /\ WriterIsAlone'
  BY <1>2 DEF LockInv, Ask, Counted, WriterIsAlone
<1>4. SleepsForAReason'
  BY DEF LockInv, LockTypeOK, Ask, SleepsForAReason
<1> QED  BY <1>1, <1>3, <1>4 DEF LockInv

LEMMA AcquireReadKeepsLockInv ==
    ASSUME LockInv, NEW t \in Thread, AcquireRead(t)
    PROVE  LockInv'
<1>1. LockTypeOK'
  BY DEF LockInv, LockTypeOK, AcquireRead, Place
<1>2. Queued' = Queued /\ Writers' = Writers
  BY DEF LockInv, LockTypeOK, AcquireRead, Queued, Writers
<1>3. CASE writing \/ waiting > 0
  <2>1. Holding' = Holding /\ HoldingTwice' = HoldingTwice
    BY <1>3 DEF LockInv, LockTypeOK, AcquireRead, Holding, HoldingTwice
  <2>2. Counted' /\ WriterIsAlone'
    BY <1>2, <1>3, <2>1 DEF LockInv, AcquireRead, Counted, WriterIsAlone
  <2>3. SleepsForAReason'
    BY <1>3 DEF LockInv, LockTypeOK, AcquireRead, SleepsForAReason
  <2> QED  BY <1>1, <2>2, <2>3 DEF LockInv
<1>4. CASE ~(writing \/ waiting > 0)
  <2>1. Writers = {}
    BY <1>4 DEF LockInv, Counted
  <2>2. WriterIsAlone'
    BY <1>2, <2>1 DEF WriterIsAlone
  <2>3. SleepsForAReason'
    BY <1>4 DEF LockInv, LockTypeOK, AcquireRead, SleepsForAReason
  <2>4. readers' = readers + 1 /\ writing' = writing /\ waiting' = waiting
    BY <1>4 DEF AcquireRead
  <2>5. CASE at[t] = "askRead"
    <3>1. t \notin Holding /\ Holding' = Holding \cup {t} /\ HoldingTwice' = HoldingTwice
      BY <1>4, <2>5 DEF LockInv, LockTypeOK, AcquireRead, Holding, HoldingTwice
    <3>2. Cardinality(Holding') = Cardinality(Holding) + 1
      BY <3>1, CountsAreNumbers, OneMoreOneLess
    <3>3. Counted'
      BY <1>2, <2>4, <3>1, <3>2, CountsAreNumbers DEF LockInv, Counted
    <3> QED  BY <1>1, <2>2, <2>3, <3>3 DEF LockInv
  <2>6. CASE at[t] = "askReread"
    <3>1. t \notin HoldingTwice /\ HoldingTwice' = HoldingTwice \cup {t} /\ Holding' = Holding
      BY <1>4, <2>6 DEF LockInv, LockTypeOK, AcquireRead, Holding, HoldingTwice
    <3>2. Cardinality(HoldingTwice') = Cardinality(HoldingTwice) + 1
      BY <3>1, CountsAreNumbers, OneMoreOneLess
    <3>3. Counted'
      BY <1>2, <2>4, <3>1, <3>2, CountsAreNumbers DEF LockInv, Counted
    <3> QED  BY <1>1, <2>2, <2>3, <3>3 DEF LockInv
  <2> QED  BY <2>5, <2>6 DEF AcquireRead
<1> QED  BY <1>3, <1>4

LEMMA ReleaseReadKeepsLockInv ==
    ASSUME LockInv, NEW t \in Thread, ReleaseRead(t)
    PROVE  LockInv'
<1> DEFINE left == [at EXCEPT ![t] = IF at[t] = "rereading" THEN "reading" ELSE "out"]
<1>1. left \in [Thread -> Place] /\ readers \in Nat
  BY DEF LockInv, LockTypeOK, Place
<1>2. /\ readers' = readers - 1 /\ writing' = writing /\ waiting' = waiting
      /\ at' = IF readers' = 0 THEN Notified(left) ELSE left
  BY DEF ReleaseRead
<1>3. t \in Holding /\ readers > 0 /\ readers' \in Nat
  <2>1. t \in Holding
    BY DEF ReleaseRead, Holding
  <2> QED  BY <1>1, <1>2, <2>1, ZeroMeansNobody DEF LockInv
<1>4. LockTypeOK'
  BY <1>1, <1>2, <1>3, NotifiedKeepsSets DEF LockInv, LockTypeOK
<1>5. \A s \in Thread :
         /\ at'[s] \in {"reading", "askReread", "sleepReread", "rereading"}
              <=> left[s] \in {"reading", "askReread", "sleepReread", "rereading"}
         /\ at'[s] = "rereading" <=> left[s] = "rereading"
         /\ at'[s] = "writing" <=> left[s] = "writing"
         /\ at'[s] \in {"sleepWrite", "wokeWrite"} <=> left[s] \in {"sleepWrite", "wokeWrite"}
  <2>1. CASE readers' = 0
    <3>1. at' = Notified(left)
      BY <1>2, <2>1
    <3> HIDE DEF left
    <3> QED  BY <1>1, <3>1, NotifiedKeepsSets
  <2>2. CASE readers' # 0
    BY <1>2, <2>2
  <2> QED  BY <2>1, <2>2
<1>6. Queued' = Queued /\ Writers' = Writers
  BY <1>5 DEF LockInv, LockTypeOK, ReleaseRead, Queued, Writers
<1>7. Writers = {}
  BY <1>3 DEF LockInv, WriterIsAlone
<1>8. WriterIsAlone'
  BY <1>6, <1>7 DEF WriterIsAlone
<1>9. Counted'
  <2>1. CASE at[t] = "rereading"
    <3>1. t \in HoldingTwice /\ HoldingTwice' = HoldingTwice \ {t} /\ Holding' = Holding
      BY <1>5, <2>1 DEF LockInv, LockTypeOK, Holding, HoldingTwice
    <3>2. Cardinality(HoldingTwice') = Cardinality(HoldingTwice) - 1
      BY <3>1, CountsAreNumbers, OneMoreOneLess
    <3> QED  BY <1>2, <1>6, <3>1, <3>2, CountsAreNumbers DEF LockInv, Counted
  <2>2. CASE at[t] = "reading"
    <3>1. Holding' = Holding \ {t} /\ HoldingTwice' = HoldingTwice
      BY <1>5, <2>2 DEF LockInv, LockTypeOK, Holding, HoldingTwice
    <3>2. Cardinality(Holding') = Cardinality(Holding) - 1
      BY <1>3, <3>1, CountsAreNumbers, OneMoreOneLess
    <3> QED  BY <1>2, <1>6, <3>1, <3>2, CountsAreNumbers DEF LockInv, Counted
  <2> QED  BY <2>1, <2>2 DEF ReleaseRead
<1>10. SleepsForAReason'
  <2>1. CASE readers' = 0
    <3>1. at' = Notified(left)
      BY <1>2, <2>1
    <3> HIDE DEF left
    <3> QED  BY <1>1, <3>1, NotifiedKeepsSets DEF SleepsForAReason
  <2>2. CASE readers' # 0
    BY <1>2, <1>3, <2>2 DEF LockInv, LockTypeOK, SleepsForAReason
  <2> QED  BY <2>1, <2>2
<1> QED  BY <1>4, <1>8, <1>9, <1>10 DEF LockInv

LEMMA AcquireWriteKeepsLockInv ==
    ASSUME LockInv, NEW t \in Thread, AcquireWrite(t) \/ RetryWrite(t)
    PROVE  LockInv'
<1>1. LockTypeOK' /\ readers' = readers
  <2>1. readers' = readers
    BY DEF AcquireWrite, RetryWrite
  <2>2. at' \in [Thread -> Place]
    BY DEF LockInv, LockTypeOK, AcquireWrite, RetryWrite, Enter, Place
  <2>3. writing' \in BOOLEAN
    BY DEF LockInv, LockTypeOK, AcquireWrite, RetryWrite, Enter
  <2>4. waiting' \in Nat
    <3>1. RetryWrite(t) => waiting > 0
      <4>1. RetryWrite(t) => t \in Queued
        BY DEF RetryWrite, Queued
      <4> QED  BY <4>1, ZeroMeansNobody DEF LockInv, LockTypeOK
    <3>2. waiting' \in {waiting, waiting + 1} \/ (waiting > 0 /\ waiting' = waiting - 1)
      BY <3>1 DEF AcquireWrite, RetryWrite, Enter
    <3>3. waiting \in Nat
      BY DEF LockInv, LockTypeOK
    <3> QED  BY <3>2, <3>3
  <2> QED  BY <2>1, <2>2, <2>3, <2>4 DEF LockInv, LockTypeOK
<1>2. Holding' = Holding /\ HoldingTwice' = HoldingTwice
  BY DEF LockInv, LockTypeOK, AcquireWrite, RetryWrite, Enter, Holding, HoldingTwice
<1>3. CASE writing \/ readers > 0
  <2>1. Writers' = Writers /\ writing' = writing
    BY <1>3 DEF LockInv, LockTypeOK, AcquireWrite, RetryWrite, Writers
  <2>2. WriterIsAlone'
    BY <1>2, <2>1 DEF LockInv, WriterIsAlone
  <2>3. waiting' = Cardinality(Queued')
    <3>1. CASE AcquireWrite(t)
      <4>1. t \notin Queued /\ Queued' = Queued \cup {t} /\ waiting' = waiting + 1
        BY <1>3, <3>1 DEF LockInv, LockTypeOK, AcquireWrite, Queued
      <4> QED  BY <4>1, CountsAreNumbers, OneMoreOneLess DEF LockInv, Counted
    <3>2. CASE RetryWrite(t)
      <4>1. Queued' = Queued /\ waiting' = waiting
        BY <1>3, <3>2 DEF LockInv, LockTypeOK, RetryWrite, Queued
      <4> QED  BY <4>1 DEF LockInv, Counted
    <3> QED  BY <3>1, <3>2
  <2>4. Counted'
    BY <1>1, <1>2, <2>1, <2>3 DEF LockInv, Counted
  <2>5. SleepsForAReason'
    BY <1>3 DEF LockInv, LockTypeOK, AcquireWrite, RetryWrite, SleepsForAReason
  <2> QED  BY <1>1, <2>2, <2>4, <2>5 DEF LockInv
<1>4. CASE ~(writing \/ readers > 0)
  <2>1. Writers = {} /\ Holding = {}
    BY <1>4, ZeroMeansNobody DEF LockInv, LockTypeOK, Counted
  <2>2. Writers' = {t} /\ writing' = TRUE
    <3>1. writing' = TRUE /\ at' = [at EXCEPT ![t] = "writing"]
      BY <1>4 DEF AcquireWrite, RetryWrite, Enter
    <3> QED  BY <2>1, <3>1 DEF LockInv, LockTypeOK, Writers
  <2>3. WriterIsAlone'
    BY <1>2, <2>1, <2>2 DEF WriterIsAlone
  <2>4. waiting' = Cardinality(Queued')
    <3>1. CASE AcquireWrite(t)
      <4>1. Queued' = Queued /\ waiting' = waiting
        BY <1>4, <3>1 DEF LockInv, LockTypeOK, AcquireWrite, Enter, Queued
      <4> QED  BY <4>1 DEF LockInv, Counted
    <3>2. CASE RetryWrite(t)
      <4>1. t \in Queued /\ Queued' = Queued \ {t} /\ waiting' = waiting - 1
        BY <1>4, <3>2 DEF LockInv, LockTypeOK, RetryWrite, Enter, Queued
      <4> QED  BY <4>1, CountsAreNumbers, OneMoreOneLess DEF LockInv, Counted
    <3> QED  BY <3>1, <3>2
  <2>5. Counted'
    BY <1>1, <1>2, <2>2, <2>4 DEF LockInv, Counted
  <2>6. SleepsForAReason'
    BY <2>2 DEF SleepsForAReason
  <2> QED  BY <1>1, <2>3, <2>5, <2>6 DEF LockInv
<1> QED  BY <1>3, <1>4

LEMMA ReleaseWriteKeepsLockInv ==
    ASSUME LockInv, NEW t \in Thread, ReleaseWrite(t)
    PROVE  LockInv'
<1> DEFINE left == [at EXCEPT ![t] = "out"]
<1>1. left \in [Thread -> Place]
  BY DEF LockInv, LockTypeOK, Place
<1>2. /\ at' = Notified(left) /\ writing' = FALSE
      /\ readers' = readers /\ waiting' = waiting
  BY DEF ReleaseWrite
<1>3. LockTypeOK'
  BY <1>1, <1>2, NotifiedKeepsSets DEF LockInv, LockTypeOK
<1>4. \A s \in Thread :
         /\ at'[s] \notin {"sleepRead", "sleepReread", "sleepWrite"}
         /\ at'[s] \in {"reading", "askReread", "sleepReread", "rereading"}
              <=> left[s] \in {"reading", "askReread", "sleepReread", "rereading"}
         /\ at'[s] = "rereading" <=> left[s] = "rereading"
         /\ at'[s] = "writing" <=> left[s] = "writing"
         /\ at'[s] \in {"sleepWrite", "wokeWrite"} <=> left[s] \in {"sleepWrite", "wokeWrite"}
  <2> HIDE DEF left
  <2> QED  BY <1>1, <1>2, NotifiedKeepsSets
<1>5. Writers = {t}
  BY DEF LockInv, WriterIsAlone, ReleaseWrite, Writers
<1>6. /\ Holding' = Holding /\ HoldingTwice' = HoldingTwice
      /\ Queued' = Queued /\ Writers' = {}
  <2>1. at[t] = "writing" /\ at \in [Thread -> Place]
    BY DEF ReleaseWrite, LockInv, LockTypeOK
  <2>2. Holding' = Holding /\ HoldingTwice' = HoldingTwice
    BY <1>4, <2>1 DEF Holding, HoldingTwice
  <2>3. Queued' = Queued
    BY <1>4, <2>1 DEF Queued
  <2>4. Writers' = {}
    BY <1>4, <1>5, <2>1 DEF Writers
  <2> QED  BY <2>2, <2>3, <2>4
<1>7. Counted' /\ WriterIsAlone'
  BY <1>2, <1>6 DEF LockInv, Counted, WriterIsAlone
<1>8. SleepsForAReason'
  BY <1>4 DEF SleepsForAReason
<1> QED  BY <1>3, <1>7, <1>8 DEF LockInv

\* The invariant of the lock holds at first and is kept by every step.
LEMMA LockInvHolds == LockSpec => []LockInv
<1>1. LockInit => LockInv
  <2> SUFFICES ASSUME LockInit PROVE LockInv
    OBVIOUS
  <2>1. Holding = {} /\ HoldingTwice = {} /\ Queued = {} /\ Writers = {}
    BY DEF LockInit, Holding, HoldingTwice, Queued, Writers
  <2>2. Cardinality({}) = 0
    BY FS_EmptySet
  <2>3. LockTypeOK /\ SleepsForAReason
    BY DEF LockInit, LockTypeOK, Place, SleepsForAReason
  <2>4. Counted
    <3>1. readers = Cardinality(Holding) + Cardinality(HoldingTwice)
      BY <2>1, <2>2 DEF LockInit
    <3>2. waiting = Cardinality(Queued)
      BY <2>1, <2>2 DEF LockInit
    <3>3. writing <=> Writers # {}
      BY <2>1 DEF LockInit
    <3> QED  BY <3>1, <3>2, <3>3 DEF Counted
  <2>5. WriterIsAlone
    BY <2>1 DEF WriterIsAlone
  <2> QED  BY <2>3, <2>4, <2>5 DEF LockInv
<1>2. LockInv /\ [LockNext]_lockvars => LockInv'
  <2>1. ASSUME LockInv, LockNext PROVE LockInv'
    BY <2>1, AskKeepsLockInv, AcquireReadKeepsLockInv, ReleaseReadKeepsLockInv,
       AcquireWriteKeepsLockInv, ReleaseWriteKeepsLockInv DEF LockNext
  <2>2. ASSUME LockInv, UNCHANGED lockvars PROVE LockInv'
    <3>1. at' = at /\ readers' = readers /\ writing' = writing /\ waiting' = waiting
      BY <2>2 DEF lockvars
    <3>2. Holding' = Holding /\ HoldingTwice' = HoldingTwice /\ Queued' = Queued /\ Writers' = Writers
      BY <3>1 DEF Holding, HoldingTwice, Queued, Writers
    <3>3. LockTypeOK' /\ SleepsForAReason'
      BY <2>2, <3>1 DEF LockInv, LockTypeOK, SleepsForAReason
    <3>4. Counted' /\ WriterIsAlone'
      BY <2>2, <3>1, <3>2 DEF LockInv, Counted, WriterIsAlone
    <3> QED  BY <3>3, <3>4 DEF LockInv
  <2> QED  BY <2>1, <2>2
<1> QED  BY <1>1, <1>2, PTL DEF LockSpec

\* A thread that holds the write lock is the only one inside, for any number of
\* threads and any of them reading twice (RWLock).
THEOREM WriterIsAloneHolds == LockSpec => []WriterIsAlone
<1>1. LockInv => WriterIsAlone
  BY DEF LockInv
<1> QED  BY <1>1, LockInvHolds, PTL

\* As long as no thread sleeps in its second read, sleepers have a thread that
\* is awake and will release or take the lock (release_read, release_write).
\* That is no freedom from deadlock: a second read that sleeps behind a waiting
\* writer, as dump's may (lesson_memory.py:572), is what it leaves out.
THEOREM SleepersHaveAWakerHolds == LockSpec => []SleepersHaveAWaker
<1>1. LockInv => SleepersHaveAWaker
  <2> SUFFICES ASSUME LockInv, Asleep # {}, \A t \in Thread : at[t] # "sleepReread"
               PROVE  \E t \in Thread : at[t] # "out" /\ t \notin Asleep
    BY DEF SleepersHaveAWaker
  <2>1. CASE writing
    BY <2>1 DEF LockInv, Counted, Writers, Asleep
  <2>2. CASE readers > 0
    <3>1. Holding # {}
      BY <2>2, ZeroMeansNobody DEF LockInv, LockTypeOK
    <3> QED  BY <3>1 DEF Holding, Asleep
  <2>3. CASE waiting > 0
    <3>1. PICK w \in Thread : at[w] \in {"sleepWrite", "wokeWrite"}
      BY <2>3, ZeroMeansNobody DEF LockInv, LockTypeOK, Queued
    <3>2. CASE at[w] = "sleepWrite"
      BY <2>1, <2>2, <3>2 DEF LockInv, SleepsForAReason
    <3>3. CASE at[w] = "wokeWrite"
      BY <3>3 DEF Asleep
    <3> QED  BY <3>1, <3>2, <3>3
  <2> QED  BY <2>1, <2>2, <2>3 DEF LockInv, SleepsForAReason, Asleep
<1> QED  BY <1>1, LockInvHolds, PTL

(* The lesson store behind the lock                                        *)

\* Every step of the lesson store is a step of the lock or leaves it alone, so
\* the store uses the lock as the lock expects.
THEOREM LessonUsesLock == LessonSpec => LockSpec
<1>1. LessonInit => LockInit
  BY DEF LessonInit
<1>2. [LessonNext]_lvars => [LockNext]_lockvars
  <2> SUFFICES ASSUME [LessonNext]_lvars PROVE [LockNext]_lockvars
    OBVIOUS
  <2>1. CASE UNCHANGED lvars
    BY <2>1 DEF lvars
  <2>2. ASSUME NEW t \in Thread,
               \/ Begin(t) \/ Lock(t) \/ Get(t) \/ DumpLessons(t)
               \/ Pop(t) \/ Update(t) \/ Clear(t)
               \/ Insert(t) \/ Fire(t) \/ Merge(t) \/ MergeFails(t) \/ Return(t)
        PROVE  [LockNext]_lockvars
    <3>1. CASE Begin(t)
      BY <3>1 DEF Begin, LockNext
    <3>2. CASE Lock(t)
      BY <3>2 DEF Lock, LockNext
    <3>3. CASE Get(t) \/ DumpLessons(t)
      BY <3>3 DEF Get, DumpLessons, LockNext
    <3>4. CASE Pop(t) \/ Update(t) \/ Clear(t) \/ MergeFails(t) \/ Return(t)
      BY <3>4 DEF Pop, Update, Clear, MergeFails, Return, EndCall, LockNext
    <3>5. CASE Insert(t)
      BY <3>5 DEF Insert, EndCall, LockNext
    <3>6. CASE Fire(t) \/ Merge(t)
      BY <3>6 DEF Fire, Merge
    <3> QED  BY <2>2, <3>1, <3>2, <3>3, <3>4, <3>5, <3>6
  <2> QED  BY <2>1, <2>2 DEF LessonNext
<1> QED  BY <1>1, <1>2, PTL DEF LessonSpec, LockSpec

Lesson == [id : Nat, refs : SUBSET Nat]

Call == [kind : {"none", "add", "pop", "update", "clear", "get", "dump"},
         step : {"none", "first", "again", "save", "rules", "merge"},
         node : Nat, rule : Nat, bucket : SUBSET Lesson]

LessonTyped ==
    /\ op \in [Thread -> Call]
    /\ store \subseteq Lesson
    /\ added \in Nat

\* What a merge has popped and not yet replaced.
Popped == UNION {op[t].bucket : t \in Thread}

Accounted == Refs(store) \cup Refs(Popped) \cup dropped \cup spoilt

\* An addition past its insertion is under the write lock and its episode is
\* accounted for; only a merge holds popped lessons.
CallOK(t) ==
    /\ op[t].step \in {"rules", "merge"} =>
          at[t] = "writing" /\ op[t].kind = "add" /\ op[t].node \in Accounted
    /\ op[t].step # "merge" => op[t].bucket = {}
    /\ op[t].kind = "none" => op[t] = Idle

LessonInv == LessonTyped /\ (\A t \in Thread : CallOK(t)) /\ acked \subseteq Accounted

LessonStep(t) ==
    \/ Begin(t) \/ Lock(t) \/ Get(t) \/ DumpLessons(t)
    \/ Pop(t) \/ Update(t) \/ Clear(t)
    \/ Insert(t) \/ Fire(t) \/ Merge(t) \/ MergeFails(t) \/ Return(t)

\* A step of a thread leaves the calls of the others alone, and those that
\* write go on writing.
LEMMA OthersGoOn ==
    ASSUME LockTypeOK, LessonTyped, NEW t \in Thread, LessonStep(t), NEW s \in Thread \ {t}
    PROVE  op'[s] = op[s] /\ (at[s] = "writing" => at'[s] = "writing")
<1>1. op'[s] = op[s]
  <2>1. CASE Begin(t) \/ Lock(t) \/ Get(t) \/ DumpLessons(t) \/ Pop(t) \/ Update(t) \/ Clear(t)
    BY <2>1 DEF LessonTyped, Begin, Lock, Get, DumpLessons, Pop, Update, Clear, EndCall, ldata
  <2>2. CASE Insert(t) \/ Merge(t) \/ MergeFails(t) \/ Return(t)
    BY <2>2 DEF LessonTyped, Insert, Merge, MergeFails, Return, EndCall
  <2>3. CASE Fire(t)
    BY <2>3 DEF LessonTyped, Fire, FireMap, FireSemantic
  <2> QED  BY <2>1, <2>2, <2>3 DEF LessonStep
<1>2. \/ at' = at
      \/ \E place \in [Thread -> Place] : place[s] = at[s] /\ at' \in {place, Notified(place)}
  <2>1. \/ UNCHANGED lockvars \/ Ask(t) \/ AcquireRead(t) \/ ReleaseRead(t)
        \/ AcquireWrite(t) \/ RetryWrite(t) \/ ReleaseWrite(t)
    BY DEF LessonStep, Begin, Lock, Get, DumpLessons, Pop, Update, Clear, Insert, Fire,
           Merge, MergeFails, Return, EndCall
  <2>2. at \in [Thread -> Place]
    BY DEF LockTypeOK
  <2>3. \A p \in Place : [at EXCEPT ![t] = p] \in [Thread -> Place] /\ [at EXCEPT ![t] = p][s] = at[s]
    BY <2>2
  <2>4. CASE UNCHANGED lockvars
    BY <2>4 DEF lockvars
  <2>5. CASE Ask(t) \/ AcquireRead(t) \/ AcquireWrite(t) \/ RetryWrite(t)
    <3>1. \E p \in Place : at' = [at EXCEPT ![t] = p]
      BY <2>5 DEF Ask, AcquireRead, AcquireWrite, RetryWrite, Enter, Place
    <3> QED  BY <2>3, <3>1
  <2>6. CASE ReleaseRead(t) \/ ReleaseWrite(t)
    <3>1. \E p \in Place : at' \in {[at EXCEPT ![t] = p], Notified([at EXCEPT ![t] = p])}
      <4>1. CASE ReleaseWrite(t)
        BY <4>1 DEF ReleaseWrite, Place
      <4>2. CASE ReleaseRead(t)
        <5>1. CASE at[t] = "rereading"
          <6>1. at' \in {[at EXCEPT ![t] = "reading"], Notified([at EXCEPT ![t] = "reading"])}
            BY <4>2, <5>1 DEF ReleaseRead
          <6> QED  BY <6>1 DEF Place
        <5>2. CASE at[t] # "rereading"
          <6>1. at' \in {[at EXCEPT ![t] = "out"], Notified([at EXCEPT ![t] = "out"])}
            BY <4>2, <5>2 DEF ReleaseRead
          <6> QED  BY <6>1 DEF Place
        <5> QED  BY <5>1, <5>2
      <4> QED  BY <2>6, <4>1, <4>2
    <3> QED  BY <2>3, <3>1
  <2> QED  BY <2>1, <2>4, <2>5, <2>6
<1>3. at[s] = "writing" => at'[s] = "writing"
  BY <1>2, NotifiedKeepsSets
<1> QED  BY <1>1, <1>3

\* What is accounted for is read off the lessons: an episode is referred to by
\* a stored or a popped lesson, or is in one of the two histories.
LEMMA AccountedFor ==
    /\ \A e : e \in Accounted <=>
          \/ \E l \in store : e \in l.refs
          \/ \E t \in Thread : \E l \in op[t].bucket : e \in l.refs
          \/ e \in dropped \/ e \in spoilt
    /\ \A e : e \in Accounted' <=>
          \/ \E l \in store' : e \in l.refs
          \/ \E t \in Thread : \E l \in op'[t].bucket : e \in l.refs
          \/ e \in dropped' \/ e \in spoilt'
<1>1. \A e : e \in Accounted <=>
          \/ \E l \in store : e \in l.refs
          \/ \E t \in Thread : \E l \in op[t].bucket : e \in l.refs
          \/ e \in dropped \/ e \in spoilt
  BY DEF Accounted, Refs, Popped
<1>2. \A e : e \in Accounted' <=>
          \/ \E l \in store' : e \in l.refs
          \/ \E t \in Thread : \E l \in op'[t].bucket : e \in l.refs
          \/ e \in dropped' \/ e \in spoilt'
  BY DEF Accounted, Refs, Popped
<1> QED  BY <1>1, <1>2

\* A step that leaves the histories, the store and every bucket as they are.
LEMMA AccountedStays ==
    ASSUME LessonTyped, NEW t \in Thread, op'[t].bucket = op[t].bucket,
           \A s \in Thread \ {t} : op'[s] = op[s],
           store \subseteq store', dropped' = dropped, spoilt' = spoilt
    PROVE  Accounted \subseteq Accounted'
<1>1. \A s \in Thread : op'[s].bucket = op[s].bucket
  OBVIOUS
<1> QED  BY <1>1, AccountedFor

LEMMA QuietSteps ==
    ASSUME LockTypeOK, LessonInv, NEW t \in Thread,
           Begin(t) \/ Lock(t) \/ Get(t) \/ DumpLessons(t)
    PROVE  /\ LessonTyped' /\ CallOK(t)' /\ acked' = acked
           /\ Accounted \subseteq Accounted'
<1>1. op \in [Thread -> Call] /\ op[t] \in Call /\ CallOK(t) /\ LessonTyped
  BY DEF LessonInv, LessonTyped
<1>2. store' = store /\ dropped' = dropped /\ spoilt' = spoilt /\ acked' = acked
  BY DEF Begin, Lock, Get, DumpLessons, ldata
<1>3. \A s \in Thread \ {t} : op'[s] = op[s]
  BY <1>1, OthersGoOn DEF LessonStep
<1>4. CASE Begin(t)
  <2>1. PICK kind \in {"add", "pop", "update", "clear", "get", "dump"} :
          op' = [op EXCEPT ![t].kind = kind, ![t].step = "first",
                           ![t].node = IF kind = "add" THEN added + 1 ELSE 0]
    BY <1>4 DEF Begin
  <2>2. added' \in Nat
    BY <1>1, <1>4 DEF Begin, LessonTyped
  <2>3. op[t] = Idle
    BY <1>1, <1>4 DEF Begin, CallOK
  <2>4. /\ op' \in [Thread -> Call]
        /\ op'[t].bucket = {} /\ op'[t].step = "first" /\ op'[t].kind # "none"
    BY <1>1, <2>1, <2>3 DEF Call, Idle, LessonTyped
  <2>5. Accounted \subseteq Accounted'
    <3>1. op'[t].bucket = op[t].bucket
      BY <2>3, <2>4 DEF Idle
    <3> QED  BY <1>1, <1>2, <1>3, <3>1, AccountedStays
  <2> QED  BY <1>1, <1>2, <2>2, <2>4, <2>5 DEF LessonTyped, CallOK
<1>5. CASE Lock(t)
  <2>1. op' = op /\ added' = added /\ UNCHANGED ldata
    BY <1>5 DEF Lock, ldata
  <2>2. Accounted \subseteq Accounted'
    BY <1>1, <1>2, <1>3, <2>1, AccountedStays
  <2>3. op[t].step \notin {"rules", "merge"}
    BY <1>1, <1>5 DEF Lock, AcquireRead, AcquireWrite, RetryWrite, CallOK
  <2> QED  BY <1>1, <1>2, <2>1, <2>2, <2>3 DEF LessonTyped, CallOK
<1>6. CASE Get(t) \/ DumpLessons(t)
  <2>1. at[t] # "writing"
    BY <1>6 DEF Get, DumpLessons, Ask, ReleaseRead
  <2>2. op[t].step \notin {"rules", "merge"} /\ op[t].bucket = {}
    BY <1>1, <2>1 DEF CallOK
  <2>3. /\ added' = added
        /\ \/ op' = [op EXCEPT ![t] = Idle]
           \/ op' = [op EXCEPT ![t].step = "again"] /\ op[t].kind = "dump"
           \/ op' = [op EXCEPT ![t].step = "save"] /\ op[t].kind = "dump"
    BY <1>6 DEF Get, DumpLessons
  <2>4. Idle \in Call
    BY DEF Idle, Call
  <2>5. /\ op' \in [Thread -> Call]
        /\ op'[t].bucket = {} /\ op'[t].step \notin {"rules", "merge"}
        /\ op'[t].kind = "none" => op'[t] = Idle
    <3>1. CASE op' = [op EXCEPT ![t] = Idle]
      BY <1>1, <2>4, <3>1 DEF Idle
    <3>2. CASE op' = [op EXCEPT ![t].step = "again"] /\ op[t].kind = "dump"
      BY <1>1, <2>2, <3>2 DEF Call
    <3>3. CASE op' = [op EXCEPT ![t].step = "save"] /\ op[t].kind = "dump"
      BY <1>1, <2>2, <3>3 DEF Call
    <3> QED  BY <2>3, <3>1, <3>2, <3>3
  <2>6. Accounted \subseteq Accounted'
    BY <1>1, <1>2, <1>3, <2>2, <2>5, AccountedStays
  <2> QED  BY <1>1, <1>2, <2>3, <2>5, <2>6 DEF LessonTyped, CallOK
<1> QED  BY <1>4, <1>5, <1>6

\* The end of a call under the write lock.
LEMMA CallEnds ==
    ASSUME LessonInv, NEW t \in Thread, EndCall(t)
    PROVE  /\ op' \in [Thread -> Call] /\ CallOK(t)'
           /\ op'[t] = Idle /\ \A s \in Thread \ {t} : op'[s] = op[s]
<1>1. Idle \in Call
  BY DEF Idle, Call
<1>2. op' = [op EXCEPT ![t] = Idle] /\ op \in [Thread -> Call]
  BY DEF EndCall, LessonInv, LessonTyped
<1>3. op'[t] = Idle
  BY <1>2
<1>4. CallOK(t)'
  BY <1>3 DEF CallOK, Idle
<1> QED  BY <1>1, <1>2, <1>3, <1>4

\* Lessons that calls of one step take out of the store are written down.
LEMMA RemovingSteps ==
    ASSUME LockTypeOK, LessonInv, NEW t \in Thread, Pop(t) \/ Update(t) \/ Clear(t)
    PROVE  /\ LessonTyped' /\ CallOK(t)' /\ acked' = acked
           /\ Accounted \subseteq Accounted'
<1>1. EndCall(t) /\ acked' = acked /\ added' = added
  BY DEF Pop, Update, Clear
<1>2. op[t].bucket = {} /\ op'[t].bucket = {} /\ \A s \in Thread \ {t} : op'[s] = op[s]
  <2>1. op[t].bucket = {}
    BY DEF LessonInv, CallOK, Pop, Update, Clear
  <2>2. op'[t] = Idle /\ \A s \in Thread \ {t} : op'[s] = op[s]
    BY <1>1, CallEnds
  <2> QED  BY <2>1, <2>2 DEF Idle
<1>3. store' \subseteq Lesson
  <2>1. store \subseteq Lesson
    BY DEF LessonInv, LessonTyped
  <2>2. \A l \in store : [l EXCEPT !.refs = {}] \in Lesson
    BY <2>1 DEF Lesson
  <2> QED  BY <2>1, <2>2 DEF Pop, Update, Clear
<1>4. /\ \A l \in store : l \in store' \/ l.refs \subseteq dropped' \cup spoilt'
      /\ dropped \subseteq dropped' /\ spoilt \subseteq spoilt'
  <2>1. CASE Pop(t)
    BY <2>1 DEF Pop
  <2>2. CASE Update(t)
    BY <2>2 DEF Update
  <2>3. CASE Clear(t)
    BY <2>3 DEF Clear, Refs
  <2> QED  BY <2>1, <2>2, <2>3
<1>5. Accounted \subseteq Accounted'
  BY <1>2, <1>4, AccountedFor
<1> QED  BY <1>1, <1>3, <1>5, CallEnds DEF LessonInv, LessonTyped

LEMMA InsertStep ==
    ASSUME LockTypeOK, LessonInv, NEW t \in Thread, Insert(t)
    PROVE  /\ LessonTyped' /\ CallOK(t)' /\ acked' = acked
           /\ Accounted \subseteq Accounted'
<1>1. op \in [Thread -> Call] /\ LessonTyped /\ op[t].bucket = {} /\ op[t].kind = "add"
  BY DEF LessonInv, LessonTyped, CallOK, Insert
<1>2. acked' = acked /\ added' = added /\ dropped' = dropped /\ spoilt' = spoilt
  BY DEF Insert
<1>3. CASE EndCall(t) /\ UNCHANGED store
  <2>1. op'[t].bucket = {} /\ \A s \in Thread \ {t} : op'[s] = op[s]
    BY <1>3, CallEnds DEF Idle
  <2>2. Accounted \subseteq Accounted'
    BY <1>1, <1>2, <1>3, <2>1, AccountedStays
  <2> QED  BY <1>1, <1>2, <1>3, <2>2, CallEnds DEF LessonTyped
<1>4. CASE /\ store' = store \cup {[id |-> op[t].node, refs |-> {op[t].node}]}
           /\ op' = [op EXCEPT ![t].step = "rules", ![t].rule = 1]
           /\ UNCHANGED lockvars
  <2>1. op[t] \in Call /\ op[t].node \in Nat
    BY <1>1 DEF Call
  <2>2. /\ op' \in [Thread -> Call] /\ op'[t].bucket = {} /\ op'[t].step = "rules"
        /\ op'[t].kind = "add" /\ op'[t].node = op[t].node
        /\ \A s \in Thread \ {t} : op'[s] = op[s]
    BY <1>1, <1>4, <2>1 DEF Call
  <2>3. store' \subseteq Lesson
    BY <1>1, <1>4, <2>1 DEF LessonTyped, Lesson
  <2>4. Accounted \subseteq Accounted'
    BY <1>1, <1>2, <1>4, <2>2, AccountedStays
  <2>5. op[t].node \in Accounted'
    <3>1. [id |-> op[t].node, refs |-> {op[t].node}] \in store'
      BY <1>4
    <3>2. op[t].node \in [id |-> op[t].node, refs |-> {op[t].node}].refs
      OBVIOUS
    <3> QED  BY <3>1, <3>2, AccountedFor
  <2>6. at'[t] = "writing"
    BY <1>4 DEF Insert, lockvars
  <2> QED  BY <1>1, <1>2, <2>2, <2>3, <2>4, <2>5, <2>6 DEF LessonTyped, CallOK
<1> QED  BY <1>3, <1>4 DEF Insert

LEMMA FireStep ==
    ASSUME LockTypeOK, LessonInv, NEW t \in Thread, Fire(t)
    PROVE  /\ LessonTyped' /\ CallOK(t)' /\ acked' = acked
           /\ Accounted \subseteq Accounted'
<1>1. /\ op \in [Thread -> Call] /\ op[t] \in Call /\ LessonTyped /\ op[t].bucket = {}
      /\ op[t].step = "rules" /\ op[t].kind = "add"
      /\ at[t] = "writing" /\ op[t].node \in Accounted
  BY DEF LessonInv, LessonTyped, CallOK, Fire
<1>2. /\ acked' = acked /\ added' = added /\ dropped' = dropped /\ spoilt' = spoilt
      /\ at' = at
  BY DEF Fire, lockvars
<1>3. \E bucket \in SUBSET store, step \in {"rules", "merge"}, rule \in Nat :
         /\ op' = [op EXCEPT ![t].bucket = bucket, ![t].step = step, ![t].rule = rule]
         /\ store' = store \ bucket
         /\ step = "rules" => bucket = {}
  <2>1. op[t].rule \in Nat /\ op[t].rule + 1 \in Nat
    BY <1>1 DEF Call
  <2>2. CASE FireMap(t)
    <3> DEFINE ids == Append(queued, op[t].node)
    <3>1. Named(ids) \subseteq store
      BY DEF Named
    <3>2. CASE Len(ids) > Threshold
      <4>1. /\ op' = [op EXCEPT ![t].bucket = Named(ids), ![t].step = "merge", ![t].rule = op[t].rule]
            /\ store' = store \ Named(ids)
        BY <1>1, <2>2, <3>2 DEF FireMap
      <4> QED  BY <2>1, <3>1, <4>1
    <3>3. CASE ~(Len(ids) > Threshold)
      <4>1. /\ op' = [op EXCEPT ![t].bucket = {}, ![t].step = "rules", ![t].rule = op[t].rule + 1]
            /\ store' = store \ {}
        BY <1>1, <2>2, <3>3 DEF FireMap
      <4> QED  BY <2>1, <4>1
    <3> QED  BY <3>2, <3>3
  <2>3. CASE FireSemantic(t)
    <3>1. PICK near \in SUBSET {l \in store : l.id # op[t].node} :
            LET bucket == {l \in store : l.id = op[t].node} \cup near
            IN  IF near = {}
                THEN op' = [op EXCEPT ![t].rule = @ + 1] /\ UNCHANGED store
                ELSE /\ op' = [op EXCEPT ![t].bucket = bucket, ![t].step = "merge"]
                     /\ store' = store \ bucket
      BY <2>3 DEF FireSemantic
    <3>2. CASE near = {}
      <4>1. op' = [op EXCEPT ![t].rule = op[t].rule + 1] /\ store' = store \ {}
        BY <1>1, <3>1, <3>2
      <4>2. op' = [op EXCEPT ![t].bucket = {}, ![t].step = "rules", ![t].rule = op[t].rule + 1]
        BY <1>1, <4>1 DEF Call
      <4> QED  BY <2>1, <4>1, <4>2
    <3>3. CASE near # {}
      <4> DEFINE bucket == {l \in store : l.id = op[t].node} \cup near
      <4>1. op' = [op EXCEPT ![t].bucket = bucket, ![t].step = "merge"] /\ store' = store \ bucket
        BY <3>1, <3>3
      <4>2. op' = [op EXCEPT ![t].bucket = bucket, ![t].step = "merge", ![t].rule = op[t].rule]
        BY <1>1, <4>1 DEF Call
      <4>3. bucket \in SUBSET store
        OBVIOUS
      <4> QED  BY <2>1, <4>1, <4>2, <4>3
    <3> QED  BY <3>2, <3>3
  <2> QED  BY <2>2, <2>3 DEF Fire
<1>4. PICK bucket \in SUBSET store, step \in {"rules", "merge"}, rule \in Nat :
         /\ op' = [op EXCEPT ![t].bucket = bucket, ![t].step = step, ![t].rule = rule]
         /\ store' = store \ bucket
         /\ step = "rules" => bucket = {}
  BY <1>3
<1>5. /\ op'[t].bucket = bucket /\ op'[t].step = step /\ op'[t].kind = "add"
      /\ op'[t].node = op[t].node
      /\ \A s \in Thread \ {t} : op'[s] = op[s]
  BY <1>1, <1>4 DEF Call
<1>6. op' \in [Thread -> Call]
  <2>1. bucket \in SUBSET Lesson
    BY <1>1 DEF LessonTyped
  <2> QED  BY <1>1, <1>4, <2>1 DEF Call
<1>7. Accounted \subseteq Accounted'
  BY <1>1, <1>2, <1>4, <1>5, AccountedFor
<1> QED  BY <1>1, <1>2, <1>4, <1>5, <1>6, <1>7 DEF LessonTyped, CallOK

LEMMA MergeStep ==
    ASSUME LockTypeOK, LessonInv, NEW t \in Thread, Merge(t)
    PROVE  /\ LessonTyped' /\ CallOK(t)' /\ acked' = acked
           /\ Accounted \subseteq Accounted'
<1>1. /\ op \in [Thread -> Call] /\ op[t] \in Call /\ LessonTyped
      /\ op[t].kind = "add" /\ at[t] = "writing" /\ op[t].node \in Accounted
  BY DEF LessonInv, LessonTyped, CallOK, Merge
<1>2. acked' = acked /\ dropped' = dropped /\ at' = at
  BY DEF Merge, lockvars
<1>3. op' = [op EXCEPT ![t].bucket = {}, ![t].step = "rules", ![t].rule = op[t].rule + 1]
  BY <1>1 DEF Merge
<1>4. /\ op' \in [Thread -> Call]
      /\ op'[t].bucket = {} /\ op'[t].step = "rules" /\ op'[t].kind = "add"
      /\ op'[t].node = op[t].node /\ \A s \in Thread \ {t} : op'[s] = op[s]
  BY <1>1, <1>3 DEF Call
<1>5. /\ store \subseteq store' /\ store' \subseteq Lesson /\ added' \in Nat
      /\ spoilt \subseteq spoilt'
      /\ Refs(op[t].bucket) \subseteq Refs(store') \cup spoilt'
  <2>1. op[t].bucket \subseteq Lesson /\ store \subseteq Lesson /\ added \in Nat
    BY <1>1 DEF Call, LessonTyped
  <2>2. CASE UNCHANGED <<store, added, faults, spoilt>> /\ op[t].bucket = {}
    BY <2>1, <2>2 DEF Refs
  <2>3. CASE /\ store' = store \cup {Replacement(added + 1, op[t].bucket)}
             /\ added' = added + 1
             /\ UNCHANGED <<faults, spoilt>>
    <3>1. Refs(op[t].bucket) \subseteq Nat
      BY <2>1 DEF Refs, Lesson
    <3>2. Replacement(added + 1, op[t].bucket) \in Lesson
      BY <2>1, <3>1 DEF Replacement, Lesson
    <3>3. Refs(op[t].bucket) \subseteq Refs(store')
      <4>1. Replacement(added + 1, op[t].bucket) \in store'
        BY <2>3
      <4>2. Replacement(added + 1, op[t].bucket).refs = Refs(op[t].bucket)
        BY DEF Replacement
      <4>3. Replacement(added + 1, op[t].bucket).refs \subseteq UNION {l.refs : l \in store'}
        BY <4>1
      <4> QED  BY <4>2, <4>3 DEF Refs
    <3> QED  BY <2>1, <2>3, <3>2, <3>3
  <2>4. CASE /\ spoilt' = spoilt \cup Refs(op[t].bucket)
             /\ UNCHANGED <<store, added>>
    BY <2>1, <2>4
  <2> QED  BY <2>2, <2>3, <2>4 DEF Merge
<1>6. Accounted \subseteq Accounted'
  BY <1>2, <1>4, <1>5, AccountedFor DEF Refs
<1> QED  BY <1>1, <1>2, <1>4, <1>5, <1>6 DEF LessonTyped, CallOK

LEMMA EndingSteps ==
    ASSUME LockTypeOK, LessonInv, NEW t \in Thread, MergeFails(t) \/ Return(t)
    PROVE  /\ LessonTyped' /\ CallOK(t)' /\ acked' \subseteq Accounted'
           /\ Accounted \subseteq Accounted'
<1>1. EndCall(t) /\ added' = added /\ store' = store /\ dropped' = dropped
  BY DEF MergeFails, Return
<1>2. LessonTyped' /\ CallOK(t)'
  BY <1>1, CallEnds DEF LessonInv, LessonTyped
<1>3. op'[t].bucket = {} /\ \A s \in Thread \ {t} : op'[s] = op[s]
  BY <1>1, CallEnds DEF Idle
<1>4. CASE MergeFails(t)
  <2>1. spoilt' = spoilt \cup Refs(op[t].bucket) /\ acked' = acked
    BY <1>4 DEF MergeFails
  <2>2. Accounted \subseteq Accounted'
    BY <1>1, <1>3, <2>1, AccountedFor DEF Refs
  <2> QED  BY <1>2, <2>1, <2>2 DEF LessonInv
<1>5. CASE Return(t)
  <2>1. /\ spoilt' = spoilt /\ acked' = acked \cup {op[t].node}
        /\ op[t].bucket = {} /\ op[t].node \in Accounted
    BY <1>5 DEF Return, LessonInv, CallOK
  <2>2. Accounted \subseteq Accounted'
    BY <1>1, <1>3, <2>1, AccountedFor
  <2> QED  BY <1>2, <2>1, <2>2 DEF LessonInv
<1> QED  BY <1>4, <1>5

\* Whatever threads add, merge, remove and replace at once, and whatever fails,
\* the episode of a lesson whose add returned is referred to by a stored lesson
\* when no writer is inside, or was given up by a caller or by a failed merge.
THEOREM AddedStaysReferredHolds == LessonSpec => []AddedStaysReferred
<1>1. LessonInit => LessonInv
  <2> SUFFICES ASSUME LessonInit PROVE LessonInv
    OBVIOUS
  <2>1. Idle \in Call
    BY DEF Idle, Call
  <2>2. op = [t \in Thread |-> Idle] /\ store = {} /\ added = 0 /\ acked = {}
    BY DEF LessonInit
  <2>3. LessonTyped
    BY <2>1, <2>2 DEF LessonTyped
  <2>4. \A t \in Thread : CallOK(t)
    BY <2>2 DEF CallOK, Idle
  <2> QED  BY <2>2, <2>3, <2>4 DEF LessonInv
<1>2. LockInv /\ LessonInv /\ [LessonNext]_lvars => LessonInv'
  <2>1. ASSUME LockInv, LessonInv, LessonNext PROVE LessonInv'
    <3>1. PICK t \in Thread : LessonStep(t)
      BY <2>1 DEF LessonNext, LessonStep
    <3>2. LockTypeOK
      BY <2>1 DEF LockInv
    <3>3. /\ LessonTyped' /\ CallOK(t)' /\ Accounted \subseteq Accounted'
          /\ acked' \subseteq Accounted'
      <4>1. CASE Begin(t) \/ Lock(t) \/ Get(t) \/ DumpLessons(t)
        BY <2>1, <3>2, <4>1, QuietSteps DEF LessonInv
      <4>2. CASE Pop(t) \/ Update(t) \/ Clear(t)
        BY <2>1, <3>2, <4>2, RemovingSteps DEF LessonInv
      <4>3. CASE Insert(t)
        BY <2>1, <3>2, <4>3, InsertStep DEF LessonInv
      <4>4. CASE Fire(t)
        BY <2>1, <3>2, <4>4, FireStep DEF LessonInv
      <4>5. CASE Merge(t)
        BY <2>1, <3>2, <4>5, MergeStep DEF LessonInv
      <4>6. CASE MergeFails(t) \/ Return(t)
        BY <2>1, <3>2, <4>6, EndingSteps
      <4> QED  BY <3>1, <4>1, <4>2, <4>3, <4>4, <4>5, <4>6 DEF LessonStep
    <3>4. \A s \in Thread \ {t} : CallOK(s)'
      <4> TAKE s \in Thread \ {t}
      <4>1. op'[s] = op[s] /\ (at[s] = "writing" => at'[s] = "writing")
        BY <2>1, <3>1, <3>2, OthersGoOn DEF LessonInv
      <4>2. CallOK(s)
        BY <2>1 DEF LessonInv
      <4> QED  BY <3>3, <4>1, <4>2 DEF CallOK
    <3> QED  BY <3>3, <3>4 DEF LessonInv
  <2>2. ASSUME LessonInv, UNCHANGED lvars PROVE LessonInv'
    <3>1. op' = op /\ store' = store /\ added' = added /\ acked' = acked
          /\ dropped' = dropped /\ spoilt' = spoilt /\ at' = at
      BY <2>2 DEF lvars, ldata, lockvars
    <3>2. Accounted' = Accounted
      BY <3>1 DEF Accounted, Refs, Popped
    <3>3. LessonTyped' /\ (\A t \in Thread : CallOK(t)')
      BY <2>2, <3>1, <3>2 DEF LessonInv, LessonTyped, CallOK
    <3> QED  BY <2>2, <3>1, <3>2, <3>3 DEF LessonInv
  <2> QED  BY <2>1, <2>2
<1>3. LockInv /\ LessonInv => AddedStaysReferred
  <2> SUFFICES ASSUME LockInv, LessonInv, ~writing
               PROVE  acked \subseteq Refs(store) \cup dropped \cup spoilt
    BY DEF AddedStaysReferred
  <2>1. \A t \in Thread : at[t] # "writing"
    BY DEF LockInv, Counted, Writers
  <2>2. Refs(Popped) = {}
    <3>1. \A t \in Thread : op[t].bucket = {}
      BY <2>1 DEF LessonInv, CallOK
    <3> QED  BY <3>1 DEF Popped, Refs
  <2> QED  BY <2>2 DEF LessonInv, Accounted
<1>4. LessonSpec => []LockInv
  BY LessonUsesLock, LockInvHolds, PTL
<1>5. LessonInit /\ [][LessonNext]_lvars /\ []LockInv => []LessonInv
  BY <1>1, <1>2, PTL
<1> QED  BY <1>3, <1>4, <1>5, PTL DEF LessonSpec

-----------------------------------------------------------------------------
(* The episodic store with one process that changes it, any number that    *)
(* read it, any records of any length and any number of kills.             *)

\* What holds of 0 and of n + 1 when it holds of n holds of all.
LEMMA NaturalsFrom ==
    ASSUME NEW S \in SUBSET Nat, 0 \in S, \A n \in S : n + 1 \in S
    PROVE  S = Nat
<1> DEFINE T == Nat \ S
<1> SUFFICES ASSUME T # {} PROVE FALSE
  OBVIOUS
<1>1. T \subseteq Nat /\ IsWellFoundedOn(OpToRel(<, Nat), Nat)
  BY NatLessThanWellFounded
<1>2. PICK n \in T : \A m \in T : ~(<<m, n>> \in OpToRel(<, Nat))
  <2> HIDE DEF T
  <2> QED BY <1>1, WFMin
<1>3. n \in Nat /\ n \notin S /\ n - 1 \in Nat /\ n - 1 < n
  BY n \in Nat \ S
<1>4. <<n - 1, n>> \in OpToRel(<, Nat)
  BY <1>3 DEF OpToRel
<1>5. n - 1 \in S
  BY <1>2, <1>3, <1>4
<1>6. (n - 1) + 1 \in S
  BY <1>5
<1> QED BY <1>3, <1>6

Steps(f, a, g, n) == f[0] = a /\ \A k \in 1..n : f[k] = g[k][f[k - 1]]

\* N steps of a given function can be taken from any start.
LEMMA StepsExist ==
    ASSUME NEW S, NEW a \in S, NEW N \in Nat, NEW g \in [1..N -> [S -> S]]
    PROVE  \E f \in [0..N -> S] : Steps(f, a, g, N)
<1> DEFINE T == {n \in Nat : n <= N => \E f \in [0..n -> S] : Steps(f, a, g, n)}
<1>1. 0 \in T
  <2>1. [k \in 0..0 |-> a] \in [0..0 -> S] /\ Steps([k \in 0..0 |-> a], a, g, 0)
    BY DEF Steps
  <2> QED BY <2>1
<1>2. ASSUME NEW n \in T PROVE n + 1 \in T
  <2> SUFFICES ASSUME n + 1 <= N
               PROVE  \E f \in [0..(n + 1) -> S] : Steps(f, a, g, n + 1)
    OBVIOUS
  <2>1. PICK f \in [0..n -> S] : Steps(f, a, g, n)
    OBVIOUS
  <2> DEFINE h == [k \in 0..(n + 1) |-> IF k = n + 1 THEN g[n + 1][f[n]] ELSE f[k]]
  <2>2. g[n + 1] \in [S -> S] /\ f[n] \in S
    OBVIOUS
  <2>3. h \in [0..(n + 1) -> S]
    BY <2>2
  <2>4. h[0] = a
    BY <2>1 DEF Steps
  <2>5. ASSUME NEW k \in 1..(n + 1) PROVE h[k] = g[k][h[k - 1]]
    BY <2>1 DEF Steps
  <2>6. Steps(h, a, g, n + 1)
    BY <2>4, <2>5 DEF Steps
  <2> QED BY <2>3, <2>6
<1>3. T = Nat
  BY <1>1, <1>2, NaturalsFrom
<1> QED BY <1>3

LEMMA TextOfParts ==
    ASSUME NEW r \in Record
    PROVE  /\ TextOf(r) \in Seq(Parts) /\ Len(TextOf(r)) = Size[r] /\ Size[r] \in Nat \ {0}
           /\ \A i \in 1..Size[r] : TextOf(r)[i] = <<r, i>>
<1>1. Size[r] \in Nat \ {0}
  BY EpisodesAssumption
<1>2. \A i \in 1..Size[r] : TextOf(r)[i] = <<r, i>>
  BY DEF TextOf
<1>3. DOMAIN TextOf(r) = 1..Size[r]
  BY DEF TextOf
<1>4. TextOf(r) \in [1..Size[r] -> Parts]
  <2>1. \A i \in 1..Size[r] : TextOf(r)[i] \in Parts
    <3> SUFFICES ASSUME NEW i \in 1..Size[r] PROVE TextOf(r)[i] \in Parts
      OBVIOUS
    <3>1. TextOf(r)[i] \in ToSet(TextOf(r))
      BY <1>3 DEF ToSet
    <3>2. ToSet(TextOf(r)) \subseteq UNION {ToSet(TextOf(s)) : s \in Record}
      OBVIOUS
    <3> QED BY <3>1, <3>2 DEF Parts
  <2>2. TextOf(r) = [i \in 1..Size[r] |-> TextOf(r)[i]]
    BY <1>3 DEF TextOf
  <2> QED BY <2>1, <2>2
<1>5. TextOf(r) \in Seq(Parts)
  BY <1>1, <1>4, SeqDef
<1>6. Len(TextOf(r)) = Size[r]
  <2>1. Len(TextOf(r)) \in Nat /\ DOMAIN TextOf(r) = 1..Len(TextOf(r))
    BY <1>5, LenProperties
  <2> QED BY <1>1, <1>3, <2>1
<1> QED BY <1>1, <1>2, <1>5, <1>6

\* Texts are made step by step, so that each is there.
LEMMA TextUpTo ==
    ASSUME NEW db \in Stores
    PROVE  \E f \in [0..Len(db) -> Seq(Parts)] :
              /\ f[0] = <<Open>>
              /\ \A k \in 1..Len(db) : f[k] = f[k - 1] \o TextOf(db[k])
              /\ Text(db) = Append(f[Len(db)], Close)
<1>1. db \in Seq(Record) /\ Len(db) \in Nat /\ \A k \in 1..Len(db) : db[k] \in Record
  BY DEF Stores
<1> DEFINE N == Len(db)
           Next(t, k) == t \o TextOf(db[k])
           Is(f) == f = [k \in 0..N |-> IF k = 0 THEN <<Open>> ELSE f[k - 1] \o TextOf(db[k])]
           g == [k \in 1..N |-> [t \in Seq(Parts) |-> Next(t, k)]]
           up == CHOOSE h : Is(h)
<1>2. <<Open>> \in Seq(Parts)
  BY DEF Parts
<1>3. \A k \in 1..N, t \in Seq(Parts) : Next(t, k) \in Seq(Parts)
  BY <1>1, TextOfParts
<1>4. \A h : Is(h) <=> h = [k \in 0..N |-> IF k = 0 THEN <<Open>> ELSE Next(h[k - 1], k)]
  OBVIOUS
<1>5. Text(db) = Append(up[N], Close)
  BY DEF Text
<1> HIDE DEF Next, N, Is
<1>6. g \in [1..N -> [Seq(Parts) -> Seq(Parts)]]
  BY <1>3
<1>7. N \in Nat
  BY <1>1 DEF N
<1>8. PICK f \in [0..N -> Seq(Parts)] : Steps(f, <<Open>>, g, N)
  <2> HIDE DEF g
  <2> QED BY <1>2, <1>6, <1>7, StepsExist
<1>9. \A k \in 0..N : f[k] = IF k = 0 THEN <<Open>> ELSE Next(f[k - 1], k)
  <2>1. f[0] = <<Open>> /\ \A k \in 1..N : f[k] = g[k][f[k - 1]]
    BY <1>8 DEF Steps
  <2>2. ASSUME NEW k \in 1..N PROVE f[k] = Next(f[k - 1], k)
    <3>1. f[k - 1] \in Seq(Parts) /\ g[k] = [t \in Seq(Parts) |-> Next(t, k)]
      BY <1>7
    <3>2. g[k][f[k - 1]] = Next(f[k - 1], k)
      BY <3>1
    <3> QED BY <2>1, <3>2
  <2>3. \A k \in 0..N : k = 0 \/ k \in 1..N
    BY <1>7
  <2>4. ~(0 \in 1..N)
    BY <1>7
  <2> QED BY <2>1, <2>2, <2>3, <2>4, Zenon
<1>10. f = [k \in 0..N |-> IF k = 0 THEN <<Open>> ELSE Next(f[k - 1], k)]
  BY <1>9
<1>11. Is(up)
  BY <1>4, <1>10
<1> HIDE DEF up
<1>12. up = [k \in 0..N |-> IF k = 0 THEN <<Open>> ELSE Next(up[k - 1], k)]
  BY <1>4, <1>11
<1>13. up[0] = <<Open>> /\ \A k \in 1..N : up[k] = Next(up[k - 1], k)
  <2>1. 0 \in 0..N /\ \A k \in 1..N : k \in 0..N /\ k # 0
    BY <1>7
  <2>2. \A k \in 0..N : up[k] = IF k = 0 THEN <<Open>> ELSE Next(up[k - 1], k)
    BY <1>12
  <2> QED BY <2>1, <2>2
<1>14. \A k \in 0..N : up[k] \in Seq(Parts)
  <2> DEFINE T == {k \in Nat : k <= N => up[k] \in Seq(Parts)}
  <2>1. 0 \in T
    BY <1>2, <1>13
  <2>2. ASSUME NEW k \in T PROVE k + 1 \in T
    <3>1. k + 1 <= N => k + 1 \in 1..N /\ up[k + 1] = Next(up[k], k + 1) /\ up[k] \in Seq(Parts)
      BY <1>7, <1>13
    <3> QED BY <1>3, <3>1
  <2>3. T = Nat
    <3> HIDE DEF T
    <3>1. T \subseteq Nat
      BY DEF T
    <3> QED BY <2>1, <2>2, <3>1, NaturalsFrom
  <2>4. \A k \in 0..N : k \in Nat /\ k <= N
    BY <1>7
  <2>5. \A k \in Nat : k \in T
    BY <2>3
  <2> QED BY <2>4, <2>5
<1>15. up \in [0..N -> Seq(Parts)]
  BY <1>12, <1>14
<1>16. \A k \in 1..N : up[k] = up[k - 1] \o TextOf(db[k])
  BY <1>13 DEF Next
<1> QED BY <1>5, <1>13, <1>15, <1>16 DEF N

\* A text that has its opening and whole records, those of ids.
Follows(t, i) ==
    \/ Starts(t[i]) /\ Ends(t[i - 1])
    \/ t[i][1] # None /\ t[i] = <<t[i - 1][1], t[i - 1][2] + 1>>
Begun(t, ids) ==
    /\ t \in Seq(Parts) /\ Len(t) >= 1 /\ t[1] = Open /\ Ends(t[Len(t)])
    /\ \A i \in 1..Len(t) : t[i] # Close
    /\ \A i \in 2..Len(t) : Follows(t, i)
    /\ ids = {r \in Record : \E i \in 1..Len(t) : t[i] = <<r, 1>>}

LEMMA BegunGoesOn ==
    ASSUME NEW t, NEW ids, Begun(t, ids), NEW r \in Record
    PROVE  Begun(t \o TextOf(r), ids \cup {r})
<1> DEFINE b == TextOf(r)
           n == Len(t)
           u == t \o b
<1>1. /\ b \in Seq(Parts) /\ Len(b) = Size[r] /\ Size[r] \in Nat \ {0}
      /\ \A i \in 1..Size[r] : b[i] = <<r, i>>
  BY TextOfParts
<1>2. t \in Seq(Parts) /\ n \in Nat /\ n >= 1
  BY DEF Begun
<1> HIDE DEF b
<1>3. u \in Seq(Parts) /\ Len(u) = n + Size[r]
  BY <1>1, <1>2, ConcatProperties
<1>4. \A i \in 1..n : u[i] = t[i]
  BY <1>1, <1>2
<1>5. \A i \in 1..Size[r] : u[n + i] = <<r, i>>
  BY <1>1, <1>2
<1> HIDE DEF u, n
<1>6. \A i \in 1..Len(u) : i \in 1..n \/ \E j \in 1..Size[r] : i = n + j /\ u[i] = <<r, j>>
  <2>1. ASSUME NEW i \in 1..Len(u), i \notin 1..n
        PROVE  i - n \in 1..Size[r] /\ i = n + (i - n)
    BY <1>1, <1>2, <1>3, <2>1
  <2> QED BY <1>5, <2>1
<1>7. r # None /\ ~(<<r, 1>>[1] = None)
  BY EpisodesAssumption
<1>8. u[1] = Open /\ Len(u) >= 1
  BY <1>1, <1>2, <1>3, <1>4 DEF Begun
<1>9. Ends(u[Len(u)])
  <2>1. u[Len(u)] = <<r, Size[r]>>
    BY <1>1, <1>3, <1>5
  <2> QED BY <1>7, <2>1 DEF Ends
<1>10. ASSUME NEW i \in 1..Len(u) PROVE u[i] # Close
  <2>1. i \in 1..n => u[i] # Close
    BY <1>4 DEF Begun, n
  <2>2. \A j : <<r, j>> # Close
    BY <1>7 DEF Close
  <2> QED BY <1>6, <2>1, <2>2
<1>11. ASSUME NEW i \in 2..Len(u) PROVE Follows(u, i)
  <2>1. CASE i \in 1..n
    <3>1. i \in 2..Len(t) /\ i - 1 \in 1..n
      BY <1>2, <2>1 DEF n
    <3>2. u[i] = t[i] /\ u[i - 1] = t[i - 1] /\ Follows(t, i)
      BY <1>4, <2>1, <3>1 DEF Begun
    <3> QED BY <3>2 DEF Follows
  <2>2. CASE i = n + 1
    <3>1. u[i] = <<r, 1>> /\ u[i - 1] = t[n]
      <4>1. 1 \in 1..Size[r] /\ n \in 1..n /\ i - 1 = n
        BY <1>1, <1>2, <2>2
      <4> QED BY <1>4, <1>5, <2>2, <4>1
    <3>2. Starts(u[i]) /\ Ends(u[i - 1])
      BY <1>7, <3>1 DEF Starts, Begun, n
    <3> QED BY <3>2 DEF Follows
  <2>3. CASE i \notin 1..n /\ i # n + 1
    <3>1. i - n \in 1..Size[r] /\ i - n - 1 \in 1..Size[r]
      BY <1>1, <1>2, <1>3, <2>3, SMTT(20)
    <3>2. n + (i - n) = i /\ n + (i - n - 1) = i - 1 /\ (i - n - 1) + 1 = i - n
      BY <1>2
    <3>3. u[i] = <<r, i - n>> /\ u[i - 1] = <<r, i - n - 1>>
      BY <1>5, <3>1, <3>2
    <3> QED BY <1>7, <3>2, <3>3 DEF Follows
  <2> QED BY <2>1, <2>2, <2>3
<1>12. ids \cup {r} = {s \in Record : \E i \in 1..Len(u) : u[i] = <<s, 1>>}
  <2>1. ASSUME NEW s \in ids PROVE s \in Record /\ \E i \in 1..Len(u) : u[i] = <<s, 1>>
    <3>1. s \in Record /\ \E i \in 1..n : t[i] = <<s, 1>>
      BY DEF Begun, n
    <3>2. \A i \in 1..n : i \in 1..Len(u)
      BY <1>1, <1>2, <1>3
    <3> QED BY <1>4, <3>1, <3>2
  <2>2. \E i \in 1..Len(u) : u[i] = <<r, 1>>
    <3>1. n + 1 \in 1..Len(u) /\ 1 \in 1..Size[r]
      BY <1>1, <1>2, <1>3
    <3> QED BY <1>5, <3>1
  <2>3. ASSUME NEW s \in Record, NEW i \in 1..Len(u), u[i] = <<s, 1>>
        PROVE  s \in ids \cup {r}
    <3>1. CASE i \in 1..n
      BY <1>4, <2>3, <3>1 DEF Begun, n
    <3>2. CASE \E j \in 1..Size[r] : u[i] = <<r, j>>
      BY <2>3, <3>2
    <3> QED BY <1>6, <3>1, <3>2
  <2> QED BY <2>1, <2>2, <2>3
<1> QED BY <1>3, <1>8, <1>9, <1>10, <1>11, <1>12 DEF Begun, u, b

\* The text of a store reads as a store, of the same records, and no proper
\* beginning of it does.
LEMMA TextIs ==
    ASSUME NEW db \in Stores
    PROVE  LET t == Text(db) IN
           /\ t \in Seq(Parts) /\ Len(t) > 1 /\ t[1] = Open /\ t[Len(t)] = Close
           /\ \A i \in 1..(Len(t) - 1) : t[i] # Close
           /\ \A i \in 2..Len(t) : (i = Len(t) /\ Ends(t[i - 1])) \/ Follows(t, i)
           /\ {r \in Record : \E i \in 1..Len(t) : t[i] = <<r, 1>>} = ToSet(db)
<1> DEFINE N == Len(db)
<1>1. db \in Seq(Record) /\ N \in Nat /\ DOMAIN db = 1..N /\ \A k \in 1..N : db[k] \in Record
  BY DEF Stores
<1>2. PICK f \in [0..N -> Seq(Parts)] :
              /\ f[0] = <<Open>>
              /\ \A k \in 1..N : f[k] = f[k - 1] \o TextOf(db[k])
              /\ Text(db) = Append(f[N], Close)
  BY TextUpTo
<1> HIDE DEF N
<1> DEFINE Ids(k) == {db[j] : j \in 1..k}
           T == {k \in Nat : k <= N => Begun(f[k], Ids(k))}
<1>3. 0 \in T
  <2>1. f[0] \in Seq(Parts) /\ Len(f[0]) = 1 /\ f[0][1] = Open
    BY <1>1, <1>2 DEF Parts
  <2>2. Open # Close /\ \A r \in Record : Open # <<r, 1>>
    BY EpisodesAssumption DEF Open, Close
  <2>3. Ids(0) = {}
    OBVIOUS
  <2>4. Ends(f[0][Len(f[0])])
    BY <2>1 DEF Ends
  <2>5. {r \in Record : \E i \in 1..Len(f[0]) : f[0][i] = <<r, 1>>} = {}
    <3>1. \A i \in 1..Len(f[0]) : f[0][i] = Open
      BY <2>1
    <3> QED BY <2>2, <3>1
  <2>6. \A i \in 1..Len(f[0]) : f[0][i] # Close
    BY <2>1, <2>2
  <2>7. \A i \in 2..Len(f[0]) : FALSE
    BY <2>1
  <2> HIDE DEF Ids
  <2>8. Begun(f[0], Ids(0))
    BY <2>1, <2>3, <2>4, <2>5, <2>6, <2>7 DEF Begun
  <2> QED BY <2>8
<1>4. ASSUME NEW k \in T PROVE k + 1 \in T
  <2> SUFFICES ASSUME k + 1 <= N PROVE Begun(f[k + 1], Ids(k + 1))
    OBVIOUS
  <2>1. k \in Nat /\ k <= N /\ k + 1 \in 1..N /\ (k + 1) - 1 = k
    BY <1>1
  <2>2. Begun(f[k], Ids(k)) /\ db[k + 1] \in Record
    BY <1>1, <2>1
  <2>3. f[k + 1] = f[k] \o TextOf(db[k + 1])
    BY <1>2, <2>1
  <2>4. Ids(k + 1) = Ids(k) \cup {db[k + 1]}
    <3>1. \A j : j \in 1..(k + 1) <=> j \in 1..k \/ j = k + 1
      BY <2>1
    <3> QED BY <3>1
  <2> HIDE DEF Ids
  <2> QED BY <2>2, <2>3, <2>4, BegunGoesOn
<1>5. T = Nat
  <2>1. T \subseteq Nat
    OBVIOUS
  <2> HIDE DEF T
  <2> QED BY <1>3, <1>4, <2>1, NaturalsFrom
<1>6. Begun(f[N], Ids(N))
  <2> HIDE DEF Ids
  <2>1. N \in T
    <3> HIDE DEF T
    <3> QED BY <1>1, <1>5
  <2> QED BY <1>1, <2>1
<1>7. Ids(N) = ToSet(db)
  BY <1>1 DEF ToSet
<1> HIDE DEF Ids, T
<1> DEFINE h == f[N]
           t == Text(db)
<1>8. h \in Seq(Parts) /\ Len(h) \in Nat /\ Len(h) >= 1 /\ h[1] = Open /\ t = Append(h, Close)
  BY <1>2, <1>6 DEF Begun
<1> HIDE DEF h, t
<1>9. /\ t \in Seq(Parts) /\ Len(t) = Len(h) + 1 /\ t[Len(t)] = Close
      /\ \A i \in 1..Len(h) : t[i] = h[i]
  BY <1>8 DEF Parts
<1>10. Len(t) > 1 /\ t[1] = Open
  BY <1>8, <1>9
<1>11. \A i \in 1..(Len(t) - 1) : t[i] # Close
  <2>1. \A i \in 1..Len(h) : h[i] # Close
    BY <1>6 DEF Begun, h
  <2>2. \A i \in 1..(Len(t) - 1) : i \in 1..Len(h)
    BY <1>8, <1>9
  <2> QED BY <1>9, <2>1, <2>2
<1>12. ASSUME NEW i \in 2..Len(t) PROVE (i = Len(t) /\ Ends(t[i - 1])) \/ Follows(t, i)
  <2>1. CASE i = Len(t)
    <3>1. i - 1 = Len(h) /\ Len(h) \in 1..Len(h)
      BY <1>8, <1>9, <2>1
    <3>2. t[i - 1] = h[Len(h)] /\ Ends(h[Len(h)])
      BY <1>6, <1>9, <3>1 DEF Begun, h
    <3> QED BY <2>1, <3>2
  <2>2. CASE i # Len(t)
    <3>1. i \in 2..Len(h) /\ i \in 1..Len(h) /\ i - 1 \in 1..Len(h)
      BY <1>8, <1>9, <2>2
    <3>2. t[i] = h[i] /\ t[i - 1] = h[i - 1] /\ Follows(h, i)
      BY <1>6, <1>9, <3>1 DEF Begun, h
    <3> QED BY <3>2 DEF Follows
  <2> QED BY <2>1, <2>2
<1>13. {r \in Record : \E i \in 1..Len(t) : t[i] = <<r, 1>>} = ToSet(db)
  <2>1. {r \in Record : \E i \in 1..Len(h) : h[i] = <<r, 1>>} = ToSet(db)
    BY <1>6, <1>7 DEF Begun, h
  <2>2. \A r \in Record : Close # <<r, 1>>
    BY DEF Close
  <2>3. \A i : i \in 1..Len(t) <=> i \in 1..Len(h) \/ i = Len(t)
    BY <1>8, <1>9
  <2>4. \A r \in Record : (\E i \in 1..Len(t) : t[i] = <<r, 1>>) <=> \E i \in 1..Len(h) : h[i] = <<r, 1>>
    BY <1>9, <2>2, <2>3
  <2> QED BY <2>1, <2>4
<1> QED BY <1>9, <1>10, <1>11, <1>12, <1>13 DEF t

LEMMA StartsAre ==
    \A part \in Parts : Starts(part) => part[1] \in Record /\ part = <<part[1], 1>>
<1> SUFFICES ASSUME NEW part \in Parts, Starts(part)
             PROVE  part[1] \in Record /\ part = <<part[1], 1>>
  OBVIOUS
<1>1. part \notin {Open, Close, Hole}
  BY DEF Starts, Open, Close, Hole
<1>2. PICK r \in Record : part \in ToSet(TextOf(r))
  BY <1>1 DEF Parts
<1>3. PICK i \in DOMAIN TextOf(r) : part = TextOf(r)[i]
  BY <1>2 DEF ToSet
<1>4. DOMAIN TextOf(r) = 1..Size[r]
  BY DEF TextOf
<1>5. part = <<r, i>>
  BY <1>3, <1>4, TextOfParts
<1> QED BY <1>5 DEF Starts

LEMMA WithIs ==
    ASSUME NEW db \in Stores, NEW r \in Record, r \notin ToSet(db)
    PROVE  With(db, r) \in Stores /\ ToSet(With(db, r)) = ToSet(db) \cup {r}
<1> DEFINE n == Len(db)
           u == Append(db, r)
<1>1. db \in Seq(Record) /\ n \in Nat /\ DOMAIN db = 1..n /\ IsInjective(db)
  BY DEF Stores
<1> HIDE DEF n
<1>2. /\ u \in Seq(Record) /\ DOMAIN u = 1..(n + 1) /\ u[n + 1] = r
      /\ \A i \in 1..n : u[i] = db[i]
  BY <1>1, AppendProperties DEF n
<1> HIDE DEF u
<1>3. \A i \in 1..n : db[i] # r
  BY <1>1 DEF ToSet
<1>4. \A i : i \in 1..(n + 1) <=> i \in 1..n \/ i = n + 1
  BY <1>1
<1>5. \A i, j \in 1..n : db[i] = db[j] => i = j
  BY <1>1 DEF IsInjective
<1>6. \A i, j \in 1..(n + 1) : u[i] = u[j] => i = j
  BY <1>2, <1>3, <1>4, <1>5
<1>7. IsInjective(u)
  BY <1>2, <1>6 DEF IsInjective
<1>8. ToSet(u) = ToSet(db) \cup {r}
  BY <1>1, <1>2, <1>4 DEF ToSet
<1> QED BY <1>2, <1>7, <1>8 DEF With, Stores, u

LEMMA WithoutIs ==
    ASSUME NEW db \in Stores, NEW r \in ToSet(db)
    PROVE  Without(db, r) \in Stores /\ ToSet(Without(db, r)) = ToSet(db) \ {r}
<1> DEFINE n == Len(db)
<1>1. db \in Seq(Record) /\ n \in Nat /\ DOMAIN db = 1..n /\ IsInjective(db)
  BY DEF Stores
<1> HIDE DEF n
<1>2. \A i, j \in 1..n : db[i] = db[j] => i = j
  BY <1>1 DEF IsInjective
<1>3. PICK k \in 1..n : db[k] = r
  BY <1>1 DEF ToSet
<1>4. {i \in 1..n : db[i] = r} = {k}
  BY <1>2, <1>3
<1>5. Min({k}) = k
  BY <1>1, <1>3 DEF Min
<1>6. Without(db, r) = RemoveAt(db, k)
  <2>1. SelectInSeq(db, LAMBDA v : v = r) = k
    <3>1. {i \in 1..Len(db) : db[i] = r} = {k}
      BY <1>4 DEF n
    <3> QED BY <1>5, <3>1 DEF SelectInSeq
  <2>2. \E i \in 1..Len(db) : db[i] = r
    BY <1>3 DEF n
  <2> QED BY <2>1, <2>2 DEF Without, RemoveFirst
<1> DEFINE u == SubSeq(db, 1, k - 1) \o SubSeq(db, k + 1, n)
<1>7. Without(db, r) = u
  BY <1>6 DEF RemoveAt, n
<1>8. /\ u \in Seq(Record) /\ Len(u) = n - 1
      /\ \A i \in 1..(k - 1) : u[i] = db[i]
      /\ \A i \in k..(n - 1) : u[i] = db[i + 1]
  <2> DEFINE a == SubSeq(db, 1, k - 1)
             b == SubSeq(db, k + 1, n)
  <2>1. a \in Seq(Record) /\ Len(a) = k - 1 /\ \A i \in 1..(k - 1) : a[i] = db[i]
    BY <1>1, <1>3 DEF n
  <2>2. b \in Seq(Record) /\ Len(b) = n - k /\ \A i \in 1..(n - k) : b[i] = db[k + i]
    <3>1. \A i \in (k + 1)..n : i \in 1..Len(db)
      BY <1>1, <1>3 DEF n
    <3>2. /\ b \in Seq(Record)
          /\ Len(b) = IF k + 1 <= n THEN n - (k + 1) + 1 ELSE 0
          /\ \A i \in 1..(n - (k + 1) + 1) : b[i] = db[(k + 1) + i - 1]
      BY <1>1, <1>3, <3>1, SubSeqProperties DEF n
    <3>3. n - (k + 1) + 1 = n - k /\ \A i \in 1..(n - k) : (k + 1) + i - 1 = k + i
      BY <1>1, <1>3
    <3>4. Len(b) = n - k
      BY <1>1, <1>3, <3>2
    <3> HIDE DEF b
    <3> QED BY <3>2, <3>3, <3>4
  <2> HIDE DEF a, b
  <2>3. (a \o b) \in Seq(Record) /\ Len(a \o b) = n - 1
    BY <1>1, <1>3, <2>1, <2>2, ConcatProperties
  <2>4. \A i \in 1..(k - 1) : (a \o b)[i] = db[i]
    BY <1>1, <1>3, <2>1, <2>2, ConcatProperties
  <2>5. ASSUME NEW i \in k..(n - 1) PROVE (a \o b)[i] = db[i + 1]
    <3>1. i \in 1..(Len(a) + Len(b)) /\ i > Len(a) /\ i - Len(a) \in 1..(n - k)
      BY <1>1, <1>3, <2>1, <2>2
    <3>2. (a \o b)[i] = b[i - Len(a)]
      BY <2>1, <2>2, <3>1, ConcatProperties, SMTT(20)
    <3>3. k + (i - Len(a)) = i + 1
      BY <1>1, <1>3, <2>1
    <3> QED BY <2>2, <3>1, <3>2, <3>3
  <2> QED BY <2>3, <2>4, <2>5 DEF a, b
<1> HIDE DEF u
<1>9. DOMAIN u = 1..(n - 1)
  BY <1>1, <1>3, <1>8, LenProperties
<1> DEFINE place(i) == IF i < k THEN i ELSE i + 1
<1>10. ASSUME NEW i \in 1..(n - 1)
       PROVE  place(i) \in 1..n /\ place(i) # k /\ u[i] = db[place(i)]
  <2>1. CASE i < k
    <3>1. i \in 1..(k - 1) /\ place(i) = i /\ i \in 1..n
      BY <1>1, <1>3, <2>1
    <3> QED BY <1>8, <2>1, <3>1
  <2>2. CASE i >= k
    <3>1. i \in k..(n - 1) /\ place(i) = i + 1 /\ i + 1 \in 1..n /\ i + 1 # k
      BY <1>1, <1>3, <2>2
    <3> QED BY <1>8, <3>1
  <2> QED BY <1>1, <1>3, <2>1, <2>2
<1>11. \A i, j \in 1..(n - 1) : place(i) = place(j) => i = j
  BY <1>1, <1>3
<1>12. \A j \in 1..n : j # k => \E i \in 1..(n - 1) : place(i) = j
  <2> SUFFICES ASSUME NEW j \in 1..n, j # k PROVE \E i \in 1..(n - 1) : place(i) = j
    OBVIOUS
  <2>1. CASE j < k
    <3>1. j \in 1..(n - 1) /\ place(j) = j
      BY <1>1, <1>3, <2>1
    <3> QED BY <3>1
  <2>2. CASE j > k
    <3>1. j - 1 \in 1..(n - 1) /\ place(j - 1) = j
      BY <1>1, <1>3, <2>2
    <3> QED BY <3>1
  <2> QED BY <1>1, <1>3, <2>1, <2>2
<1> HIDE DEF place
<1>13. IsInjective(u)
  BY <1>2, <1>9, <1>10, <1>11 DEF IsInjective
<1>14. ToSet(u) \subseteq ToSet(db) \ {r}
  <2> SUFFICES ASSUME NEW i \in 1..(n - 1) PROVE u[i] \in ToSet(db) \ {r}
    BY <1>9 DEF ToSet
  <2>1. db[place(i)] # r
    BY <1>2, <1>3, <1>10
  <2> QED BY <1>1, <1>10, <2>1 DEF ToSet
<1>15. ToSet(db) \ {r} \subseteq ToSet(u)
  <2> SUFFICES ASSUME NEW j \in 1..n, db[j] # r PROVE db[j] \in ToSet(u)
    BY <1>1 DEF ToSet
  <2>1. PICK i \in 1..(n - 1) : place(i) = j
    BY <1>3, <1>12
  <2> QED BY <1>9, <1>10, <2>1 DEF ToSet
<1> QED BY <1>7, <1>8, <1>13, <1>14, <1>15 DEF Stores

LEMMA TakenIs ==
    ASSUME NEW db \in Stores, NEW part \in Parts
    PROVE  /\ Taken(db, part) \in Stores
           /\ ToSet(Taken(db, part)) = ToSet(db) \cup {r \in Record : part = <<r, 1>>}
<1>1. DOMAIN db = 1..Len(db)
  BY DEF Stores
<1>2. \A r : Contains(db, r) <=> r \in ToSet(db)
  BY <1>1 DEF Contains, ToSet
<1>3. CASE Starts(part)
  <2>1. part[1] \in Record /\ part = <<part[1], 1>>
    BY <1>3, StartsAre
  <2>2. {r \in Record : part = <<r, 1>>} = {part[1]}
    BY <2>1
  <2>3. CASE part[1] \in ToSet(db)
    BY <1>2, <2>2, <2>3 DEF Taken
  <2>4. CASE part[1] \notin ToSet(db)
    BY <1>2, <1>3, <2>1, <2>2, <2>4, WithIs DEF Taken
  <2> QED BY <2>3, <2>4
<1>4. CASE ~Starts(part)
  <2>1. \A r \in Record : part # <<r, 1>>
    BY <1>4, EpisodesAssumption DEF Starts
  <2>2. {r \in Record : part = <<r, 1>>} = {}
    BY <2>1
  <2> QED BY <1>4, <2>2 DEF Taken
<1> QED BY <1>3, <1>4

\* What json.load returns of a text that it takes, or of any other text.
LEMMA ParseIs ==
    ASSUME file \in Seq(Parts)
    PROVE  /\ Parse \in Stores
           /\ ToSet(Parse) = {r \in Record : \E i \in 1..Len(file) : file[i] = <<r, 1>>}
<1> DEFINE N == Len(file)
           Is(f) == f = [i \in 0..N |-> IF i = 0 THEN <<>> ELSE Taken(f[i - 1], file[i])]
           up == CHOOSE h : Is(h)
           g == [i \in 1..N |-> [db \in Stores |-> Taken(db, file[i])]]
<1>1. Parse = up[N]
  BY DEF Parse
<1>2. N \in Nat /\ \A i \in 1..N : file[i] \in Parts
  OBVIOUS
<1>3. <<>> \in Stores /\ ToSet(<<>>) = {}
  BY DEF Stores, IsInjective, ToSet
<1>4. \A h : Is(h) <=> h = [i \in 0..N |-> IF i = 0 THEN <<>> ELSE Taken(h[i - 1], file[i])]
  OBVIOUS
<1> HIDE DEF N, Is
<1>5. g \in [1..N -> [Stores -> Stores]]
  BY <1>2, TakenIs
<1>6. PICK f \in [0..N -> Stores] : Steps(f, <<>>, g, N)
  <2> HIDE DEF g
  <2> QED BY <1>2, <1>3, <1>5, StepsExist
<1>7. \A i \in 0..N : f[i] = IF i = 0 THEN <<>> ELSE Taken(f[i - 1], file[i])
  <2>1. f[0] = <<>> /\ \A i \in 1..N : f[i] = g[i][f[i - 1]]
    BY <1>6 DEF Steps
  <2>2. ASSUME NEW i \in 1..N PROVE f[i] = Taken(f[i - 1], file[i])
    <3>1. f[i - 1] \in Stores /\ g[i] = [db \in Stores |-> Taken(db, file[i])]
      BY <1>2
    <3>2. g[i][f[i - 1]] = Taken(f[i - 1], file[i])
      BY <3>1
    <3> QED BY <2>1, <3>2
  <2>3. ~(0 \in 1..N) /\ \A i \in 0..N : i = 0 \/ i \in 1..N
    BY <1>2
  <2> QED BY <2>1, <2>2, <2>3, Zenon
<1>8. f = [i \in 0..N |-> IF i = 0 THEN <<>> ELSE Taken(f[i - 1], file[i])]
  BY <1>7
<1>9. Is(up)
  BY <1>4, <1>8
<1> HIDE DEF up
<1>10. up = [i \in 0..N |-> IF i = 0 THEN <<>> ELSE Taken(up[i - 1], file[i])]
  BY <1>4, <1>9
<1>11. up[0] = <<>> /\ \A i \in 1..N : up[i] = Taken(up[i - 1], file[i])
  <2>1. 0 \in 0..N /\ \A i \in 1..N : i \in 0..N /\ i # 0
    BY <1>2
  <2>2. \A i \in 0..N : up[i] = IF i = 0 THEN <<>> ELSE Taken(up[i - 1], file[i])
    BY <1>10
  <2> QED BY <2>1, <2>2
<1> DEFINE Ids(i) == {r \in Record : \E j \in 1..i : file[j] = <<r, 1>>}
           T == {i \in Nat : i <= N => up[i] \in Stores /\ ToSet(up[i]) = Ids(i)}
<1>12. 0 \in T
  <2>1. Ids(0) = {}
    OBVIOUS
  <2> HIDE DEF Ids
  <2> QED BY <1>3, <1>11, <2>1
<1>13. ASSUME NEW i \in T PROVE i + 1 \in T
  <2> HIDE DEF Ids
  <2> SUFFICES ASSUME i + 1 <= N PROVE up[i + 1] \in Stores /\ ToSet(up[i + 1]) = Ids(i + 1)
    OBVIOUS
  <2>1. i \in Nat /\ i <= N /\ i + 1 \in 1..N /\ (i + 1) - 1 = i
    BY <1>2
  <2>2. Ids(i + 1) = Ids(i) \cup {r \in Record : file[i + 1] = <<r, 1>>}
    <3>1. \A j : j \in 1..(i + 1) <=> j \in 1..i \/ j = i + 1
      BY <2>1
    <3> QED BY <3>1 DEF Ids
  <2>3. up[i] \in Stores /\ ToSet(up[i]) = Ids(i) /\ file[i + 1] \in Parts
    BY <1>2, <2>1
  <2>4. up[i + 1] = Taken(up[i], file[i + 1])
    BY <1>11, <2>1
  <2> QED BY <2>2, <2>3, <2>4, TakenIs
<1>14. N \in T
  <2>1. T \subseteq Nat
    OBVIOUS
  <2> HIDE DEF T
  <2> QED BY <1>2, <1>12, <1>13, <2>1, NaturalsFrom
<1>15. up[N] \in Stores /\ ToSet(up[N]) = Ids(N)
  <2> HIDE DEF Ids
  <2> QED BY <1>2, <1>14
<1> QED BY <1>1, <1>15 DEF N

LEMMA MaxOfTwo ==
    ASSUME NEW a \in Nat, NEW b \in Nat
    PROVE  Max({a, b}) = IF a >= b THEN a ELSE b
  BY DEF Max

BeginningOf(text, n) == SubSeq(text, 1, n)

LEMMA BeginningIs ==
    ASSUME NEW S, NEW text \in Seq(S), NEW n \in 0..Len(text)
    PROVE  /\ BeginningOf(text, n) \in Seq(S) /\ Len(BeginningOf(text, n)) = n
           /\ \A i \in 1..n : BeginningOf(text, n)[i] = text[i]
<1>1. \A i \in 1..n : text[i] \in S
  OBVIOUS
<1> QED BY <1>1, SubSeqProperties DEF BeginningOf

\* The buffer that goes out completes what was dumped.
LEMMA Completed ==
    ASSUME NEW S, NEW text \in Seq(S), NEW n \in 0..Len(text), file = BeginningOf(text, n)
    PROVE  WriteAt(n, SubSeq(text, n + 1, Len(text))) = text
<1> DEFINE L == Len(text)
           rest == SubSeq(text, n + 1, L)
<1>1. L \in Nat /\ text = [i \in 1..L |-> text[i]] /\ \A i \in (n + 1)..L : text[i] \in S
  OBVIOUS
<1>2. Len(file) = n /\ \A i \in 1..n : file[i] = text[i]
  BY BeginningIs
<1>3. Len(rest) = L - n /\ \A i \in 1..(L - n) : rest[i] = text[n + i]
  <2>1. /\ Len(rest) = IF n + 1 <= L THEN L - (n + 1) + 1 ELSE 0
        /\ \A i \in 1..(L - (n + 1) + 1) : rest[i] = text[(n + 1) + i - 1]
    BY <1>1, SubSeqProperties
  <2>2. L - (n + 1) + 1 = L - n /\ \A i \in 1..(L - n) : (n + 1) + i - 1 = n + i
    BY <1>1
  <2> HIDE DEF rest
  <2> QED BY <1>1, <2>1, <2>2, SMTT(20)
<1> HIDE DEF L, rest
<1>4. n \in Nat /\ n <= L /\ n + Len(rest) = L
  BY <1>1, <1>3 DEF L
<1>5. Max({Len(file), n + Len(rest)}) = L
  BY <1>1, <1>2, <1>4, MaxOfTwo
<1>6. WriteAt(n, rest) =
        [i \in 1..L |-> IF i \in (n + 1)..L THEN rest[i - n]
                        ELSE IF i <= n THEN file[i] ELSE Hole]
  BY <1>2, <1>4, <1>5 DEF WriteAt
<1>7. ASSUME NEW i \in 1..L
      PROVE  (IF i \in (n + 1)..L THEN rest[i - n] ELSE IF i <= n THEN file[i] ELSE Hole) = text[i]
  <2>1. CASE i \in (n + 1)..L
    <3>1. i - n \in 1..(L - n) /\ n + (i - n) = i
      BY <1>1, <1>4, <2>1
    <3> QED BY <1>3, <2>1, <3>1
  <2>2. CASE i \notin (n + 1)..L
    <3>1. i <= n /\ i \in 1..n
      BY <1>1, <1>4, <2>2
    <3> QED BY <1>2, <2>2, <3>1
  <2> QED BY <2>1, <2>2
<1>8. WriteAt(n, rest) = [i \in 1..L |-> text[i]]
  BY <1>6, <1>7
<1> QED BY <1>1, <1>8 DEF L, rest

\* What is dumped to an empty file is a beginning of the text.
LEMMA Dumped ==
    ASSUME NEW S, NEW text \in Seq(S), NEW n \in 0..Len(text), file = <<>>
    PROVE  WriteAt(0, SubSeq(text, 1, n)) = BeginningOf(text, n)
<1> DEFINE b == SubSeq(text, 1, n)
<1>1. b \in Seq(S) /\ Len(b) = n /\ n \in Nat /\ b = BeginningOf(text, n)
  BY BeginningIs DEF BeginningOf
<1> HIDE DEF b
<1>2. Max({Len(file), 0 + Len(b)}) = n /\ 0 + Len(b) = n
  BY <1>1, MaxOfTwo
<1>3. WriteAt(0, b) = [i \in 1..n |-> IF i \in 1..n THEN b[i] ELSE IF i <= 0 THEN file[i] ELSE Hole]
  BY <1>1, <1>2 DEF WriteAt
<1>4. b = [i \in 1..n |-> b[i]]
  BY <1>1
<1>5. WriteAt(0, b) = b
  BY <1>3, <1>4
<1> QED BY <1>1, <1>5 DEF b

\* A beginning of a store's text can be read when it is the whole text, and
\* then it gives the same records.
LEMMA ReadBack ==
    ASSUME NEW db \in Stores, NEW n \in 0..Len(Text(db)), file = BeginningOf(Text(db), n)
    PROVE  /\ file \in Seq(Parts)
           /\ Readable <=> n = Len(Text(db))
           /\ Readable => file = Text(db) /\ ToSet(Parse) = ToSet(db)
<1> DEFINE t == Text(db)
<1>1. /\ t \in Seq(Parts) /\ Len(t) > 1 /\ t[1] = Open /\ t[Len(t)] = Close
      /\ \A i \in 1..(Len(t) - 1) : t[i] # Close
      /\ \A i \in 2..Len(t) : (i = Len(t) /\ Ends(t[i - 1])) \/ Follows(t, i)
      /\ {r \in Record : \E i \in 1..Len(t) : t[i] = <<r, 1>>} = ToSet(db)
  BY TextIs
<1> HIDE DEF t
<1>2. file \in Seq(Parts) /\ Len(file) = n /\ \A i \in 1..n : file[i] = t[i]
  BY <1>1, BeginningIs DEF t
<1>3. n \in Nat /\ n <= Len(t) /\ Len(t) \in Nat
  BY <1>1 DEF t
<1>4. Readable => n = Len(t)
  <2> SUFFICES ASSUME Readable, n # Len(t) PROVE FALSE
    OBVIOUS
  <2>1. n > 1 /\ file[n] = Close
    BY <1>2 DEF Readable
  <2>2. n \in 1..n /\ n \in 1..(Len(t) - 1)
    BY <1>3, <2>1
  <2> QED BY <1>1, <1>2, <2>1, <2>2
<1>5. n = Len(t) => file = t
  BY <1>1, <1>2, <1>3
<1>6. file = t => Readable
  <2> SUFFICES ASSUME file = t PROVE Readable
    OBVIOUS
  <2>1. Len(file) > 1 /\ file[1] = Open /\ file[Len(file)] = Close
    BY <1>1
  <2>2. \A i \in 2..Len(file) : (i = Len(file) /\ Ends(file[i - 1])) \/ Follows(file, i)
    BY <1>1
  <2> QED BY <2>1, <2>2 DEF Readable, Follows
<1>7. file = t => ToSet(Parse) = ToSet(db)
  <2>1. ToSet(Parse) = {r \in Record : \E i \in 1..Len(file) : file[i] = <<r, 1>>}
    BY <1>2, ParseIs
  <2>2. file = t =>
           {r \in Record : \E i \in 1..Len(file) : file[i] = <<r, 1>>}
             = {r \in Record : \E i \in 1..Len(t) : t[i] = <<r, 1>>}
    OBVIOUS
  <2> QED BY <1>1, <2>1, <2>2, Zenon
<1> QED BY <1>2, <1>4, <1>5, <1>6, <1>7 DEF t

(* The store, while p alone changes it.                                    *)

Operation ==
    [pc : {"out", "ready", "write", "opened", "dumped", "unlocked"},
     op : {"none", "create", "add", "delete", "reset"},
     rec : Record \cup {None}, db : Stores, at : Nat]

StoreTypeOK ==
    /\ proc \in [Proc -> Operation]
    /\ \A q \in Proc : proc[q].at <= Len(Text(proc[q].db))
    /\ seen \in [Proc -> Stores \cup {None}]
    /\ used \subseteq Record /\ kept \subseteq used /\ kills \in 0..MaxKills

OthersRead(p) == \A q \in Proc \ {p} : proc[q].pc \in {"out", "ready"}

\* What the store holds once p is done.
Target(p) == kept \cup (IF proc[p].op = "add" THEN {proc[p].rec} ELSE {})

\* The file is the beginning of the text of a store that has all that was kept.
FileHasKept ==
    file # None =>
        \E db \in Stores : \E n \in 0..Len(Text(db)) :
            /\ file = BeginningOf(Text(db), n)
            /\ kept \subseteq ToSet(db) /\ ToSet(db) \subseteq used

NoFileYet(p) ==
    file = None => /\ kept = {} /\ proc[p].pc \in {"out", "write"}
                   /\ \A q \in Proc : proc[q].pc # "ready"

WriterKnows(p) ==
    Changing(p) =>
        /\ proc[p].op # "none"
        /\ proc[p].op = "add" => proc[p].rec \in used
        /\ Target(p) \subseteq ToSet(proc[p].db) /\ ToSet(proc[p].db) \subseteq used
        /\ kills = 0 => ToSet(proc[p].db) = Target(p)

FileIsWritten(p) ==
    /\ proc[p].pc = "opened" => file = <<>>
    /\ proc[p].pc \in {"dumped", "unlocked"} => file = BeginningOf(Text(proc[p].db), proc[p].at)

AtRest(p) ==
    kills = 0 /\ ~Changing(p) /\ file # None =>
        \E db \in Stores : file = Text(db) /\ ToSet(db) = kept

StoreInv(p) ==
    /\ StoreTypeOK /\ OthersRead(p) /\ FileHasKept /\ NoFileYet(p)
    /\ WriterKnows(p) /\ FileIsWritten(p) /\ AtRest(p)

\* One process at a time changes the store, now this one, now that one.
SharedInv ==
    /\ overlapped \in BOOLEAN
    /\ ~overlapped => \E p \in Proc : StoreInv(p)

LEMMA TextHasLength ==
    ASSUME NEW db \in Stores
    PROVE  /\ Text(db) \in Seq(Parts) /\ Len(Text(db)) \in Nat
           /\ BeginningOf(Text(db), Len(Text(db))) = Text(db)
           /\ BeginningOf(Text(db), 0) = <<>>
<1>1. Text(db) \in Seq(Parts) /\ Len(Text(db)) \in Nat
  BY TextIs
<1> DEFINE t == Text(db)
           b == BeginningOf(t, Len(t))
           c == BeginningOf(t, 0)
<1> HIDE DEF t
<1>2. t \in Seq(Parts) /\ Len(t) \in Nat /\ Len(t) \in 0..Len(t) /\ 0 \in 0..Len(t)
  BY <1>1 DEF t
<1>3. b \in Seq(Parts) /\ Len(b) = Len(t) /\ \A i \in 1..Len(t) : b[i] = t[i]
  BY <1>2, BeginningIs
<1>4. c \in Seq(Parts) /\ Len(c) = 0
  BY <1>2, BeginningIs
<1> HIDE DEF b, c
<1>5. b = t /\ c = <<>>
  BY <1>2, <1>3, <1>4
<1> QED BY <1>1, <1>5 DEF t, b, c

LEMMA NoneIsNoText == \A s \in Seq(Parts) : s # None
  BY EpisodesAssumption

LEMMA EmptyStore == <<>> \in Stores /\ ToSet(<<>>) = {} /\ <<>> \in Seq(Parts)
  BY DEF Stores, IsInjective, ToSet

\* What a read returns, whoever reads and whenever.
LEMMA ReadHasKept ==
    ASSUME NEW p \in Proc, StoreInv(p), file # None
    PROVE  /\ file \in Seq(Parts) /\ Parse \in Stores
           /\ Readable => kept \subseteq ToSet(Parse) /\ ToSet(Parse) \subseteq used
           /\ kills = 0 /\ ~Changing(p) => Readable /\ ToSet(Parse) = kept
<1>1. PICK db \in Stores : \E n \in 0..Len(Text(db)) :
            /\ file = BeginningOf(Text(db), n)
            /\ kept \subseteq ToSet(db) /\ ToSet(db) \subseteq used
  BY DEF StoreInv, FileHasKept
<1>2. PICK n \in 0..Len(Text(db)) :
            /\ file = BeginningOf(Text(db), n)
            /\ kept \subseteq ToSet(db) /\ ToSet(db) \subseteq used
  BY <1>1
<1>3. file \in Seq(Parts) /\ (Readable => ToSet(Parse) = ToSet(db))
  BY <1>2, ReadBack
<1>4. Parse \in Stores
  BY <1>3, ParseIs
<1>5. ASSUME kills = 0, ~Changing(p) PROVE Readable /\ ToSet(Parse) = kept
  <2>1. PICK d \in Stores : file = Text(d) /\ ToSet(d) = kept
    BY <1>5 DEF StoreInv, AtRest
  <2>2. file = BeginningOf(Text(d), Len(Text(d))) /\ Len(Text(d)) \in 0..Len(Text(d))
    BY <2>1, TextHasLength
  <2> QED BY <2>1, <2>2, ReadBack
<1> QED BY <1>2, <1>3, <1>4, <1>5

\* A process that is ready finds a file.
LEMMA ReadyHasFile ==
    ASSUME NEW p \in Proc, StoreInv(p), NEW q \in Proc, proc[q].pc = "ready"
    PROVE  file # None
  BY DEF StoreInv, NoFileYet

LEMMA InitStoreInv ==
    ASSUME NEW p \in Proc, MemoryInit
    PROVE  StoreInv(p)
<1>1. Outside \in Operation /\ Outside.at = 0 /\ Outside.db = <<>> /\ Outside.pc = "out"
  BY EmptyStore DEF Operation, Outside
<1>2. StoreTypeOK
  BY <1>1, EmptyStore, TextHasLength, EpisodesAssumption DEF MemoryInit, StoreTypeOK
<1> QED BY <1>1, <1>2 DEF MemoryInit, StoreInv, OthersRead, FileHasKept, NoFileYet, WriterKnows,
             FileIsWritten, AtRest, Changing

LEMMA ProcChanges ==
    ASSUME StoreTypeOK, NEW q \in Proc, NEW x \in Operation, x.at <= Len(Text(x.db)),
           proc' = [proc EXCEPT ![q] = x]
    PROVE  /\ proc' \in [Proc -> Operation]
           /\ \A r \in Proc : proc'[r].at <= Len(Text(proc'[r].db))
           /\ proc'[q] = x /\ \A r \in Proc \ {q} : proc'[r] = proc[r]
<1>1. proc' \in [Proc -> Operation] /\ proc'[q] = x /\ \A r \in Proc \ {q} : proc'[r] = proc[r]
  BY DEF StoreTypeOK
<1>2. ASSUME NEW r \in Proc PROVE proc'[r].at <= Len(Text(proc'[r].db))
  <2>1. CASE r = q
    BY <1>1, <2>1
  <2>2. CASE r # q
    <3>1. proc'[r] = proc[r]
      BY <1>1, <2>2
    <3> QED BY <3>1 DEF StoreTypeOK
  <2> QED BY <2>1, <2>2
<1> QED BY <1>1, <1>2

LEMMA RestingIs ==
    /\ Outside \in Operation /\ Outside.pc = "out" /\ Outside.at <= Len(Text(Outside.db))
    /\ Ready \in Operation /\ Ready.pc = "ready" /\ Ready.at <= Len(Text(Ready.db))
<1>1. Outside.db = <<>> /\ Outside.at = 0 /\ Ready.db = <<>> /\ Ready.at = 0
  BY DEF Outside, Ready
<1>2. 0 <= Len(Text(<<>>))
  BY EmptyStore, TextHasLength
<1>3. Outside \in Operation /\ Outside.pc = "out"
  BY EmptyStore DEF Outside, Operation
<1>4. Ready \in Operation /\ Ready.pc = "ready"
  BY EmptyStore DEF Outside, Ready, Operation
<1> QED BY <1>1, <1>2, <1>3, <1>4

LEMMA WritingIs ==
    ASSUME NEW what \in {"create", "add", "delete", "reset"}, NEW r \in Record \cup {None},
           NEW db \in Stores
    PROVE  \E x \in Operation :
              /\ x = Writing(what, r, db) /\ x.at <= Len(Text(x.db))
              /\ x.pc = "write" /\ x.op = what /\ x.rec = r /\ x.db = db
<1> DEFINE x == Writing(what, r, db)
<1>1. x.pc = "write" /\ x.op = what /\ x.rec = r /\ x.db = db /\ x.at = 0
  BY DEF Writing, Ready, Outside
<1>2. x \in Operation
  BY DEF Writing, Ready, Outside, Operation
<1>3. 0 <= Len(Text(db))
  BY TextHasLength
<1> QED BY <1>1, <1>2, <1>3

\* Whoever takes a step that leaves the file alone and ends at rest keeps the
\* invariant, unless it is p in the middle of a change and nobody was killed.
LEMMA RestKeeps ==
    ASSUME NEW p \in Proc, StoreInv(p), NEW q \in Proc, NEW x \in {Outside, Ready},
           proc' = [proc EXCEPT ![q] = x], UNCHANGED <<file, used, kept>>,
           seen' \in [Proc -> Stores \cup {None}], kills' \in 0..MaxKills,
           kills' = 0 => kills = 0 /\ ~(q = p /\ Changing(p)),
           x = Ready => file # None
    PROVE  StoreInv(p)'
<1>1. x \in Operation /\ x.pc \in {"out", "ready"} /\ x.at <= Len(Text(x.db))
      /\ (x.pc = "ready" => x = Ready)
  BY RestingIs
<1>2. /\ proc' \in [Proc -> Operation]
      /\ \A r \in Proc : proc'[r].at <= Len(Text(proc'[r].db))
      /\ proc'[q] = x /\ \A r \in Proc \ {q} : proc'[r] = proc[r]
  BY <1>1, ProcChanges DEF StoreInv
<1>3. StoreTypeOK'
  BY <1>2 DEF StoreInv, StoreTypeOK
<1>4. OthersRead(p)'
  BY <1>1, <1>2 DEF StoreInv, OthersRead
<1>5. FileHasKept'
  BY DEF StoreInv, FileHasKept
<1>6. NoFileYet(p)'
  BY <1>1, <1>2 DEF StoreInv, NoFileYet
<1>7. CASE q = p
  <2>1. ~Changing(p)'
    BY <1>1, <1>2, <1>7 DEF Changing
  <2>2. WriterKnows(p)' /\ FileIsWritten(p)'
    BY <1>1, <1>2, <1>7, <2>1 DEF WriterKnows, FileIsWritten
  <2>3. AtRest(p)'
    BY <1>7 DEF StoreInv, AtRest
  <2> QED BY <1>3, <1>4, <1>5, <1>6, <2>2, <2>3 DEF StoreInv
<1>8. CASE q # p
  <2>1. proc'[p] = proc[p]
    BY <1>2, <1>8
  <2>2. WriterKnows(p)'
    <3>1. kills' = 0 => kills = 0
      OBVIOUS
    <3> QED BY <2>1, <3>1 DEF StoreInv, WriterKnows, Changing, Target
  <2>3. FileIsWritten(p)' /\ AtRest(p)'
    BY <2>1 DEF StoreInv, FileIsWritten, AtRest, Changing
  <2> QED BY <1>3, <1>4, <1>5, <1>6, <2>2, <2>3 DEF StoreInv
<1> QED BY <1>7, <1>8

\* p sets out to write db, having read or not.
LEMMA SetsOut ==
    ASSUME NEW p \in Proc, StoreInv(p), NEW what \in {"create", "add", "delete", "reset"},
           NEW r \in Record \cup {None}, NEW db \in Stores,
           proc' = [proc EXCEPT ![p] = Writing(what, r, db)], UNCHANGED <<file, seen, kills>>,
           ~Changing(p), used \subseteq used', used' \subseteq Record, kept' \subseteq kept,
           what = "add" => r \in used',
           ToSet(db) \subseteq used',
           LET target == kept' \cup (IF what = "add" THEN {r} ELSE {})
           IN  target \subseteq ToSet(db) /\ (kills = 0 => ToSet(db) = target)
    PROVE  StoreInv(p)'
<1>1. PICK x \in Operation :
          /\ x = Writing(what, r, db) /\ x.at <= Len(Text(x.db))
          /\ x.pc = "write" /\ x.op = what /\ x.rec = r /\ x.db = db
  BY WritingIs
<1>2. /\ proc' \in [Proc -> Operation]
      /\ \A s \in Proc : proc'[s].at <= Len(Text(proc'[s].db))
      /\ proc'[p] = x /\ \A s \in Proc \ {p} : proc'[s] = proc[s]
  BY <1>1, ProcChanges DEF StoreInv
<1>3. kept' \subseteq used'
  BY DEF StoreInv, StoreTypeOK
<1>4. StoreTypeOK'
  BY <1>2, <1>3 DEF StoreInv, StoreTypeOK
<1>5. OthersRead(p)'
  BY <1>2 DEF StoreInv, OthersRead
<1>6. FileHasKept'
  <2> SUFFICES ASSUME file # None PROVE FileHasKept'
    BY DEF FileHasKept
  <2>1. PICK d \in Stores : \E n \in 0..Len(Text(d)) :
            file = BeginningOf(Text(d), n) /\ kept \subseteq ToSet(d) /\ ToSet(d) \subseteq used
    BY DEF StoreInv, FileHasKept
  <2>2. PICK n \in 0..Len(Text(d)) :
            file = BeginningOf(Text(d), n) /\ kept \subseteq ToSet(d) /\ ToSet(d) \subseteq used
    BY <2>1
  <2>3. file' = BeginningOf(Text(d), n) /\ kept' \subseteq ToSet(d) /\ ToSet(d) \subseteq used'
    BY <2>2
  <2> QED BY <2>3 DEF FileHasKept
<1>7. NoFileYet(p)'
  <2>1. \A s \in Proc : proc'[s].pc = "ready" => proc[s].pc = "ready"
    BY <1>1, <1>2
  <2> QED BY <1>1, <1>2, <2>1 DEF StoreInv, NoFileYet
<1>8. Changing(p)'
  BY <1>1, <1>2 DEF Changing
<1>9. WriterKnows(p)'
  BY <1>1, <1>2 DEF WriterKnows, Target
<1>10. FileIsWritten(p)' /\ AtRest(p)'
  BY <1>1, <1>2, <1>8 DEF FileIsWritten, AtRest
<1> QED BY <1>4, <1>5, <1>6, <1>7, <1>9, <1>10 DEF StoreInv

\* p goes on with what it writes: the file holds what pc says.
LEMMA GoesOnWriting ==
    ASSUME NEW p \in Proc, StoreInv(p), Changing(p), NEW x \in Operation,
           proc' = [proc EXCEPT ![p] = x], UNCHANGED <<seen, used, kept, kills>>,
           x.op = proc[p].op, x.rec = proc[p].rec, x.db = proc[p].db,
           x.at <= Len(Text(x.db)),
           \/ x.pc = "opened" /\ file' = <<>>
           \/ x.pc \in {"dumped", "unlocked"} /\ file' = BeginningOf(Text(x.db), x.at)
    PROVE  StoreInv(p)'
<1>1. /\ proc' \in [Proc -> Operation]
      /\ \A s \in Proc : proc'[s].at <= Len(Text(proc'[s].db))
      /\ proc'[p] = x /\ \A s \in Proc \ {p} : proc'[s] = proc[s]
  BY ProcChanges DEF StoreInv
<1>2. x.db \in Stores /\ x.at \in 0..Len(Text(x.db)) /\ Len(Text(x.db)) \in Nat
  BY TextHasLength DEF Operation
<1>3. StoreTypeOK'
  BY <1>1 DEF StoreInv, StoreTypeOK
<1>4. OthersRead(p)'
  BY <1>1 DEF StoreInv, OthersRead
<1>5. Changing(p)' /\ Target(p)' = Target(p)
  BY <1>1 DEF Changing, Target
<1>6. WriterKnows(p)'
  BY <1>1, <1>5 DEF StoreInv, WriterKnows
<1>7. \E n \in 0..Len(Text(x.db)) : file' = BeginningOf(Text(x.db), n)
  <2>1. 0 \in 0..Len(Text(x.db)) /\ BeginningOf(Text(x.db), 0) = <<>>
    BY <1>2, TextHasLength
  <2> QED BY <1>2, <2>1
<1>8. file' \in Seq(Parts) /\ file' # None
  BY <1>2, <1>7, TextHasLength, BeginningIs, NoneIsNoText
<1>9. FileHasKept'
  <2>1. kept' \subseteq ToSet(x.db) /\ ToSet(x.db) \subseteq used'
    BY DEF StoreInv, WriterKnows, Target
  <2> QED BY <1>2, <1>7, <2>1 DEF FileHasKept
<1>10. NoFileYet(p)'
  BY <1>8 DEF NoFileYet
<1>11. FileIsWritten(p)' /\ AtRest(p)'
  BY <1>1, <1>5 DEF FileIsWritten, AtRest
<1> QED BY <1>3, <1>4, <1>6, <1>9, <1>10, <1>11 DEF StoreInv

LEMMA ChangeBegins ==
    ASSUME NEW p \in Proc, StoreInv(p), NEW q \in Proc, NEW what, NEW r, NEW db,
           proc' = [proc EXCEPT ![q] = Writing(what, r, db)]
    PROVE  Changing(q)'
<1>1. proc'[q].pc = "write"
  BY DEF StoreInv, StoreTypeOK, Writing, Ready, Outside
<1> QED BY <1>1 DEF Changing

LEMMA ConstructKeeps ==
    ASSUME NEW p \in Proc, StoreInv(p), NEW q \in Proc, Construct(q), Changing(q)' => q = p
    PROVE  StoreInv(p)'
<1>1. CASE Missing /\ q \in Founder /\ proc' = [proc EXCEPT ![q] = Writing("create", None, <<>>)]
  <2>1. q = p /\ proc[p].pc = "out" /\ file = None
    BY <1>1, ChangeBegins DEF Construct, Missing
  <2>2. kept = {} /\ ~Changing(p) /\ used \subseteq Record
    BY <2>1 DEF StoreInv, StoreTypeOK, NoFileYet, Changing
  <2>3. UNCHANGED <<file, seen, used, kept, kills>>
    BY DEF Construct
  <2> QED BY <1>1, <2>1, <2>2, <2>3, EmptyStore, SetsOut
<1>2. CASE ~Missing /\ proc' = [proc EXCEPT ![q] = Ready]
  <2>1. file # None /\ proc[q].pc = "out" /\ UNCHANGED <<file, seen, used, kept, kills>>
    BY <1>2 DEF Construct, Missing
  <2>2. ~(q = p /\ Changing(p))
    BY <2>1 DEF Changing
  <2>3. seen' \in [Proc -> Stores \cup {None}] /\ kills' \in 0..MaxKills
    BY <2>1 DEF StoreInv, StoreTypeOK
  <2> QED BY <1>2, <2>1, <2>2, <2>3, RestKeeps
<1> QED BY <1>1, <1>2 DEF Construct

LEMMA AddKeeps ==
    ASSUME NEW p \in Proc, StoreInv(p), NEW q \in Proc, Add(q), Changing(q)' => q = p
    PROVE  StoreInv(p)'
<1>1. q = p /\ proc[p].pc = "ready" /\ Readable
  BY ChangeBegins DEF Add, CanRead
<1>2. file # None /\ ~Changing(p)
  BY <1>1, ReadyHasFile DEF Changing
<1>3. PICK r \in Fresh :
        /\ used' = used \cup {r}
        /\ proc' = [proc EXCEPT ![p] = Writing("add", r, With(Parse, r))]
  BY <1>1 DEF Add
<1>4. UNCHANGED <<file, seen, kept, kills>> /\ r \in Record /\ r \notin used /\ used \subseteq Record
  BY <1>3 DEF Add, Fresh, StoreInv, StoreTypeOK
<1>5. /\ Parse \in Stores /\ kept \subseteq ToSet(Parse) /\ ToSet(Parse) \subseteq used
      /\ kills = 0 => ToSet(Parse) = kept
  BY <1>1, <1>2, ReadHasKept
<1>6. With(Parse, r) \in Stores /\ ToSet(With(Parse, r)) = ToSet(Parse) \cup {r}
  BY <1>4, <1>5, WithIs
<1> DEFINE db == With(Parse, r)
<1> HIDE DEF db
<1>7. /\ db \in Stores /\ ToSet(db) \subseteq used' /\ kept' \cup {r} \subseteq ToSet(db)
      /\ kills = 0 => ToSet(db) = kept' \cup {r}
      /\ proc' = [proc EXCEPT ![p] = Writing("add", r, db)]
  BY <1>3, <1>4, <1>5, <1>6 DEF db
<1>8. used \subseteq used' /\ used' \subseteq Record /\ r \in used' /\ kept' \subseteq kept
  BY <1>3, <1>4
<1> QED BY <1>2, <1>4, <1>7, <1>8, SetsOut

LEMMA DeleteKeeps ==
    ASSUME NEW p \in Proc, StoreInv(p), NEW q \in Proc, Delete(q), Changing(q)' => q = p
    PROVE  StoreInv(p)'
<1>1. q = p /\ proc[p].pc = "ready" /\ Readable
  BY ChangeBegins DEF Delete, CanRead
<1>2. file # None /\ ~Changing(p)
  BY <1>1, ReadyHasFile DEF Changing
<1>3. PICK r \in used :
        /\ Contains(Parse, r) /\ kept' = kept \ {r}
        /\ proc' = [proc EXCEPT ![p] = Writing("delete", r, Without(Parse, r))]
  BY <1>1 DEF Delete
<1>4. UNCHANGED <<file, seen, used, kills>> /\ used \subseteq Record
  BY DEF Delete, StoreInv, StoreTypeOK
<1>5. /\ Parse \in Stores /\ kept \subseteq ToSet(Parse) /\ ToSet(Parse) \subseteq used
      /\ kills = 0 => ToSet(Parse) = kept
  BY <1>1, <1>2, ReadHasKept
<1>6. r \in ToSet(Parse)
  <2>1. DOMAIN Parse = 1..Len(Parse)
    BY <1>5 DEF Stores
  <2> QED BY <1>3, <2>1 DEF Contains, ToSet
<1>7. Without(Parse, r) \in Stores /\ ToSet(Without(Parse, r)) = ToSet(Parse) \ {r}
  BY <1>5, <1>6, WithoutIs
<1> DEFINE db == Without(Parse, r)
<1> HIDE DEF db
<1>8. /\ db \in Stores /\ ToSet(db) \subseteq used' /\ kept' \subseteq ToSet(db)
      /\ kills = 0 => ToSet(db) = kept'
      /\ proc' = [proc EXCEPT ![p] = Writing("delete", r, db)]
  BY <1>3, <1>4, <1>5, <1>7 DEF db
<1>9. r \in Record /\ used \subseteq used' /\ used' \subseteq Record /\ kept' \subseteq kept
  BY <1>3, <1>4
<1> QED BY <1>2, <1>4, <1>8, <1>9, SetsOut

LEMMA ListKeeps ==
    ASSUME NEW p \in Proc, StoreInv(p), NEW q \in Proc, List(q)
    PROVE  StoreInv(p)'
<1>1. proc[q].pc = "ready" /\ UNCHANGED <<file, proc, used, kept, kills>>
      /\ seen' = [seen EXCEPT ![q] = Parse]
  BY DEF List, CanRead
<1>2. Parse \in Stores
  BY <1>1, ReadyHasFile, ReadHasKept
<1>3. StoreTypeOK'
  BY <1>1, <1>2 DEF StoreInv, StoreTypeOK
<1> QED BY <1>1, <1>3 DEF StoreInv, OthersRead, FileHasKept, NoFileYet, WriterKnows, FileIsWritten,
             AtRest, Changing, Target

LEMMA ResetKeeps ==
    ASSUME NEW p \in Proc, StoreInv(p), NEW q \in Proc, Reset(q), Changing(q)' => q = p
    PROVE  StoreInv(p)'
<1>1. q = p /\ ~Changing(p)
  BY ChangeBegins DEF Reset, Changing
<1>2. kept' = {} /\ proc' = [proc EXCEPT ![p] = Writing("reset", None, <<>>)]
      /\ UNCHANGED <<file, seen, used, kills>>
  BY <1>1 DEF Reset
<1>3. used \subseteq Record
  BY DEF StoreInv, StoreTypeOK
<1> QED BY <1>1, <1>2, <1>3, EmptyStore, SetsOut

\* Who opens, dumps, unlocks or closes is p.
LEMMA WriterIsP ==
    ASSUME NEW p \in Proc, StoreInv(p), NEW q \in Proc,
           proc[q].pc \in {"write", "opened", "dumped", "unlocked"}
    PROVE  q = p /\ Changing(p) /\ proc[p] \in Operation /\ proc[p].db \in Stores
           /\ Text(proc[p].db) \in Seq(Parts) /\ Len(Text(proc[p].db)) \in Nat
           /\ proc[p].at \in 0..Len(Text(proc[p].db))
<1>1. q = p /\ Changing(p) /\ proc[p] \in Operation /\ proc[p].at <= Len(Text(proc[p].db))
  BY DEF StoreInv, OthersRead, Changing, StoreTypeOK
<1>2. proc[p].db \in Stores /\ proc[p].at \in Nat
  BY <1>1 DEF Operation
<1> QED BY <1>1, <1>2, TextHasLength

LEMMA OpenToWriteKeeps ==
    ASSUME NEW p \in Proc, StoreInv(p), NEW q \in Proc, OpenToWrite(q)
    PROVE  StoreInv(p)'
<1>1. /\ q = p /\ Changing(p) /\ proc[p] \in Operation
      /\ proc[p].at \in 0..Len(Text(proc[p].db)) /\ Len(Text(proc[p].db)) \in Nat
  BY WriterIsP DEF OpenToWrite
<1> DEFINE x == [proc[p] EXCEPT !.pc = "opened"]
<1>2. /\ x \in Operation /\ x.op = proc[p].op /\ x.rec = proc[p].rec /\ x.db = proc[p].db
      /\ x.at = proc[p].at /\ x.pc = "opened"
  BY <1>1 DEF Operation
<1>3. proc' = [proc EXCEPT ![p] = x] /\ file' = <<>> /\ UNCHANGED <<seen, used, kept, kills>>
  BY <1>1 DEF OpenToWrite, Goto, Truncated
<1>4. x.at <= Len(Text(x.db))
  BY <1>1, <1>2
<1> HIDE DEF x
<1> QED BY <1>1, <1>2, <1>3, <1>4, GoesOnWriting

LEMMA DumpKeeps ==
    ASSUME NEW p \in Proc, StoreInv(p), NEW q \in Proc, Dump(q)
    PROVE  StoreInv(p)'
<1> DEFINE t == Text(proc[p].db)
<1>1. q = p /\ Changing(p) /\ proc[p] \in Operation /\ t \in Seq(Parts) /\ Len(t) \in Nat
  BY WriterIsP DEF Dump
<1>2. file = <<>>
  BY <1>1 DEF Dump, StoreInv, FileIsWritten
<1>3. PICK n \in 0..Len(t) :
        /\ file' = WriteAt(0, SubSeq(t, 1, n))
        /\ proc' = [proc EXCEPT ![p].pc = "dumped", ![p].at = n]
  BY <1>1 DEF Dump
<1>4. file' = BeginningOf(t, n)
  <2> HIDE DEF t
  <2> QED BY <1>1, <1>2, <1>3, Dumped
<1> DEFINE x == [proc[p] EXCEPT !.pc = "dumped", !.at = n]
<1>5. n \in Nat /\ n <= Len(t)
  BY <1>1
<1>6. /\ x \in Operation /\ x.op = proc[p].op /\ x.rec = proc[p].rec /\ x.db = proc[p].db
      /\ x.at = n /\ x.pc = "dumped"
  BY <1>1, <1>5 DEF Operation
<1>7. proc' = [proc EXCEPT ![p] = x] /\ UNCHANGED <<seen, used, kept, kills>>
  BY <1>1, <1>3 DEF Dump, StoreInv, StoreTypeOK, Operation
<1>8. x.at <= Len(Text(x.db)) /\ file' = BeginningOf(Text(x.db), x.at)
  BY <1>4, <1>5, <1>6
<1> HIDE DEF x, t
<1> QED BY <1>1, <1>6, <1>7, <1>8, GoesOnWriting

LEMMA UnlockKeeps ==
    ASSUME NEW p \in Proc, StoreInv(p), NEW q \in Proc, Unlock(q)
    PROVE  StoreInv(p)'
<1>1. /\ q = p /\ Changing(p) /\ proc[p] \in Operation
      /\ proc[p].at \in 0..Len(Text(proc[p].db)) /\ Len(Text(proc[p].db)) \in Nat
  BY WriterIsP DEF Unlock
<1> DEFINE x == [proc[p] EXCEPT !.pc = "unlocked"]
<1>2. /\ x \in Operation /\ x.op = proc[p].op /\ x.rec = proc[p].rec /\ x.db = proc[p].db
      /\ x.at = proc[p].at /\ x.pc = "unlocked"
  BY <1>1 DEF Operation
<1>3. proc' = [proc EXCEPT ![p] = x] /\ UNCHANGED <<file, seen, used, kept, kills>>
  BY <1>1 DEF Unlock, Goto
<1>4. file = BeginningOf(Text(proc[p].db), proc[p].at)
  BY <1>1 DEF Unlock, StoreInv, FileIsWritten
<1>5. x.at <= Len(Text(x.db)) /\ file' = BeginningOf(Text(x.db), x.at)
  BY <1>1, <1>2, <1>3, <1>4
<1> HIDE DEF x
<1> QED BY <1>1, <1>2, <1>3, <1>5, GoesOnWriting

LEMMA CloseFileKeeps ==
    ASSUME NEW p \in Proc, StoreInv(p), NEW q \in Proc, CloseFile(q)
    PROVE  StoreInv(p)'
<1> DEFINE db == proc[p].db
           t == Text(db)
           n == proc[p].at
<1>1. /\ q = p /\ Changing(p) /\ db \in Stores
      /\ t \in Seq(Parts) /\ Len(t) \in Nat /\ n \in 0..Len(t)
  BY WriterIsP DEF CloseFile
<1>2. file = BeginningOf(t, n)
  BY <1>1 DEF CloseFile, StoreInv, FileIsWritten
<1>3. /\ file' = WriteAt(n, SubSeq(t, n + 1, Len(t)))
      /\ kept' = IF proc[p].op = "add" THEN kept \cup {proc[p].rec} ELSE kept
      /\ proc' = [proc EXCEPT ![p] = Ready] /\ UNCHANGED <<seen, used, kills>>
  BY <1>1 DEF CloseFile
<1>4. kept' = Target(p)
  BY <1>3 DEF Target
<1>5. /\ kept' \subseteq ToSet(db) /\ ToSet(db) \subseteq used'
      /\ kills' = 0 => ToSet(db) = kept'
  BY <1>1, <1>3, <1>4 DEF StoreInv, WriterKnows
<1> HIDE DEF db, t, n
<1>6. file' = t
  BY <1>1, <1>2, <1>3, Completed
<1>7. /\ proc' \in [Proc -> Operation]
      /\ \A s \in Proc : proc'[s].at <= Len(Text(proc'[s].db))
      /\ proc'[p] = Ready /\ \A s \in Proc \ {p} : proc'[s] = proc[s]
  BY <1>3, RestingIs, ProcChanges DEF StoreInv
<1>8. StoreTypeOK'
  BY <1>3, <1>5, <1>7 DEF StoreInv, StoreTypeOK
<1>9. proc'[p].pc = "ready" /\ file' # None
  BY <1>1, <1>6, <1>7, RestingIs, NoneIsNoText
<1>10. OthersRead(p)'
  BY <1>7 DEF StoreInv, OthersRead
<1>11. FileHasKept'
  <2>1. Len(t) \in 0..Len(t) /\ file' = BeginningOf(t, Len(t))
    BY <1>1, <1>6, TextHasLength DEF t
  <2> QED BY <1>1, <1>5, <2>1 DEF FileHasKept, t
<1>12. NoFileYet(p)' /\ WriterKnows(p)' /\ FileIsWritten(p)'
  BY <1>9 DEF NoFileYet, WriterKnows, FileIsWritten, Changing
<1>13. AtRest(p)'
  BY <1>1, <1>5, <1>6 DEF AtRest, t
<1> QED BY <1>8, <1>10, <1>11, <1>12, <1>13 DEF StoreInv

LEMMA KillKeeps ==
    ASSUME NEW p \in Proc, StoreInv(p), NEW q \in Proc, Kill(q)
    PROVE  StoreInv(p)'
<1>1. /\ proc' = [proc EXCEPT ![q] = Outside] /\ UNCHANGED <<file, used, kept, seen>>
      /\ kills' = kills + 1 /\ kills < MaxKills
  BY DEF Kill
<1>2. kills' \in 0..MaxKills /\ kills' # 0 /\ seen' \in [Proc -> Stores \cup {None}]
  BY <1>1, EpisodesAssumption DEF StoreInv, StoreTypeOK
<1>3. Outside # Ready
  BY RestingIs
<1> QED BY <1>1, <1>2, <1>3, RestKeeps

LEMMA StepKeeps ==
    ASSUME NEW p \in Proc, StoreInv(p), NEW q \in Proc, Step(q), Changing(q)' => q = p
    PROVE  StoreInv(p)'
  BY ConstructKeeps, AddKeeps, DeleteKeeps, ListKeeps, ResetKeeps, OpenToWriteKeeps, DumpKeeps,
     UnlockKeeps, CloseFileKeeps, KillKeeps DEF Step

\* When nobody changes the store, any process may be the next.
LEMMA TurnsAreTaken ==
    ASSUME NEW p \in Proc, StoreInv(p), ~Changing(p), NEW q \in Proc
    PROVE  StoreInv(q)
<1>1. \A r \in Proc : ~Changing(r) /\ proc[r] \in Operation
  BY DEF StoreInv, OthersRead, StoreTypeOK, Changing
<1>2. \A r \in Proc : proc[r].pc \in {"out", "ready"}
  BY <1>1 DEF Changing, Operation
<1>3. OthersRead(q) /\ NoFileYet(q)
  BY <1>2 DEF StoreInv, OthersRead, NoFileYet
<1>4. WriterKnows(q) /\ FileIsWritten(q)
  BY <1>1 DEF WriterKnows, FileIsWritten, Changing
<1>5. AtRest(q)
  BY <1>1 DEF StoreInv, AtRest
<1> QED BY <1>3, <1>4, <1>5 DEF StoreInv

LEMMA NextSharedInv ==
    ASSUME SharedInv, [MemoryNext]_mvars
    PROVE  SharedInv'
<1>1. CASE MemoryNext
  <2>1. overlapped' = (overlapped \/ \E p, q \in Proc : p # q /\ Changing(p)' /\ Changing(q)')
    BY <1>1 DEF MemoryNext
  <2>2. overlapped' \in BOOLEAN
    BY <2>1
  <2> SUFFICES ASSUME ~overlapped' PROVE \E p \in Proc : StoreInv(p)'
    BY <2>2 DEF SharedInv
  <2>3. ~overlapped /\ \A p, q \in Proc : Changing(p)' /\ Changing(q)' => p = q
    BY <2>1
  <2>4. PICK p \in Proc : StoreInv(p)
    BY <2>3 DEF SharedInv
  <2>5. PICK q \in Proc : Step(q)
    BY <1>1 DEF MemoryNext
  <2>6. CASE ~Changing(p)
    <3>1. StoreInv(q)
      BY <2>4, <2>6, TurnsAreTaken
    <3> QED BY <2>5, <3>1, StepKeeps
  <2>7. CASE q = p
    BY <2>4, <2>5, <2>7, StepKeeps
  <2>8. CASE Changing(p) /\ q # p
    <3>1. proc'[p] = proc[p]
      BY <2>4, <2>5, <2>8 DEF Step, Construct, Add, Delete, List, Reset, OpenToWrite, Dump, Unlock,
         CloseFile, Kill, Goto, StoreInv, StoreTypeOK
    <3>2. Changing(p)'
      BY <2>8, <3>1 DEF Changing
    <3>3. Changing(q)' => q = p
      BY <2>3, <3>2
    <3> QED BY <2>4, <2>5, <3>3, StepKeeps
  <2> QED BY <2>6, <2>7, <2>8
<1>2. CASE UNCHANGED mvars
  BY <1>2 DEF mvars, SharedInv, StoreInv, StoreTypeOK, OthersRead, FileHasKept, NoFileYet, WriterKnows,
     FileIsWritten, AtRest, Changing, Target
<1> QED BY <1>1, <1>2

LEMMA SharedInvHolds == MemorySpec => []SharedInv
<1>1. MemoryInit => SharedInv
  BY InitStoreInv, EpisodesAssumption DEF MemoryInit, SharedInv
<1>2. SharedInv /\ [MemoryNext]_mvars => SharedInv'
  BY NextSharedInv
<1> QED BY <1>1, <1>2, PTL DEF MemorySpec

\* As long as no two changes overlapped, the variables have their types: no
\* operation builds a store with a record twice, whatever text it read
\* (episode_memory.py:158-170, 201-212).
THEOREM MemoryTypeOKHolds == MemorySpec => [](~overlapped => MemoryTypeOK)
<1>1. SharedInv => (~overlapped => MemoryTypeOK)
  <2> SUFFICES ASSUME SharedInv, ~overlapped PROVE MemoryTypeOK
    OBVIOUS
  <2>0. PICK p \in Proc : StoreInv(p)
    BY DEF SharedInv
  <2>1. file \in Seq(Parts) \cup {None}
    BY <2>0, ReadHasKept
  <2>2. ASSUME NEW q \in Proc
        PROVE  proc[q] \in
                  [pc : {"out", "ready", "write", "opened", "dumped", "unlocked"},
                   op : {"none", "create", "add", "delete", "reset"},
                   rec : Record \cup {None}, db : Stores, at : 0..Len(Text(proc[q].db))]
    <3>1. proc[q] \in Operation /\ proc[q].at <= Len(Text(proc[q].db))
      BY <2>0 DEF StoreInv, StoreTypeOK
    <3>2. Len(Text(proc[q].db)) \in Nat
      BY <3>1, TextHasLength DEF Operation
    <3> DEFINE L == Len(Text(proc[q].db))
    <3>3. L \in Nat /\ proc[q].at \in 0..L
      BY <3>1, <3>2 DEF Operation
    <3> HIDE DEF L
    <3>4. proc[q] \in
             [pc : {"out", "ready", "write", "opened", "dumped", "unlocked"},
              op : {"none", "create", "add", "delete", "reset"},
              rec : Record \cup {None}, db : Stores, at : 0..L]
      BY <3>1, <3>3 DEF Operation
    <3> QED BY <3>4 DEF L
  <2> QED BY <2>0, <2>1, <2>2 DEF StoreInv, StoreTypeOK, SharedInv, MemoryTypeOK
<1> QED BY <1>1, SharedInvHolds, PTL

\* Whichever processes found, change and reset the store in turn, a record whose
\* add returned is found by whoever can read it, as long as nobody asked to
\* remove it, wherever processes were killed and however often
\* (episode_memory.py:96-100, 167-170, 239-253). Turns are what the locks do not
\* enforce (:168): if two changes overlapped, nothing is claimed.
THEOREM AddedIsKeptHolds == MemorySpec => []AddedIsKept
<1>1. SharedInv => AddedIsKept
  BY ReadHasKept DEF SharedInv, AddedIsKept
<1> QED BY <1>1, SharedInvHolds, PTL

\* And when nobody was killed the store at rest reads as exactly the records
\* added and not removed, for records of any length and any text that was there
\* before (episode_memory.py:201-212, 247-253).
THEOREM StoreIsExactHolds == MemorySpec => []StoreIsExact
<1>1. SharedInv => StoreIsExact
  <2> SUFFICES ASSUME SharedInv, ~overlapped, Quiet, kills = 0, file # None
               PROVE  Readable /\ ToSet(Parse) = kept
    BY DEF StoreIsExact
  <2>1. PICK p \in Proc : StoreInv(p)
    BY DEF SharedInv
  <2>2. ~Changing(p)
    BY DEF Quiet, Changing
  <2> QED BY <2>1, <2>2, ReadHasKept
<1> QED BY <1>1, SharedInvHolds, PTL

\* A list that returns, in any process and at any moment of a change, holds
\* every record that was there all along: what a writer has truncated or not
\* yet written out makes the text unreadable, never shorter
\* (episode_memory.py:189-190, 239-253).
THEOREM ListIsCompleteHolds == MemorySpec => ListIsComplete
<1> DEFINE Complete ==
        ~overlapped => \A p \in Proc : seen'[p] # seen[p] => kept \subseteq ToSet(seen'[p])
<1>1. SharedInv /\ [MemoryNext]_mvars => [Complete]_mvars
  <2> SUFFICES ASSUME SharedInv, MemoryNext, ~overlapped, NEW q \in Proc, seen'[q] # seen[q]
               PROVE  kept \subseteq ToSet(seen'[q])
    OBVIOUS
  <2>1. PICK w \in Proc : StoreInv(w)
    BY DEF SharedInv
  <2>2. PICK r \in Proc : List(r)
    BY DEF MemoryNext, Step, Construct, Add, Delete, Reset, OpenToWrite, Dump, Unlock, CloseFile, Kill
  <2>3. Readable /\ file # None /\ seen' = [seen EXCEPT ![r] = Parse] /\ seen \in [Proc -> Stores \cup {None}]
    BY <2>1, <2>2, ReadyHasFile DEF List, CanRead, StoreInv, StoreTypeOK
  <2>4. seen'[q] = Parse
    BY <2>3
  <2> QED BY <2>1, <2>3, <2>4, ReadHasKept
<1> QED BY <1>1, SharedInvHolds, PTL DEF MemorySpec, ListIsComplete
=============================================================================
