------------------------------- MODULE RWLock -------------------------------
(***************************************************************************)
(* The read/write lock with writer priority of the GUI package: two        *)
(* counters and a flag behind one condition variable. What a method does   *)
(* between two waits is atomic, since it holds the condition's mutex.      *)
(***************************************************************************)
EXTENDS Naturals, FiniteSets

CONSTANTS
    Thread,
    Nested  \* threads that acquire the read lock again while they hold it

ASSUME LockAssumption == IsFiniteSet(Thread) /\ Nested \subseteq Thread

VARIABLES
    readers,  \* _readers
    writing,  \* _writer
    waiting,  \* _waiting_writers
    at        \* where each thread is with respect to the lock

lockvars == <<readers, writing, waiting, at>>

Place == {"out", "askRead", "sleepRead", "reading", "askReread", "sleepReread", "rereading",
          "askWrite", "sleepWrite", "wokeWrite", "writing"}

Asleep == {t \in Thread : at[t] \in {"sleepRead", "sleepReread", "sleepWrite"}}
Holding == {t \in Thread : at[t] \in {"reading", "askReread", "sleepReread", "rereading"}}
HoldingTwice == {t \in Thread : at[t] = "rereading"}
Writers == {t \in Thread : at[t] = "writing"}

LockInit ==
    /\ readers = 0 /\ writing = FALSE /\ waiting = 0
    /\ at = [t \in Thread |-> "out"]

\* notify_all: whoever sleeps looks again, a writer without counting itself
\* a second time.
Notified(place) == [t \in Thread |->
    CASE place[t] = "sleepRead" -> "askRead"
      [] place[t] = "sleepReread" -> "askReread"
      [] place[t] = "sleepWrite" -> "wokeWrite"
      [] OTHER -> place[t]]

\* A thread calls acquire_read or acquire_write, or acquire_read once more.
Ask(t) ==
    /\ \/ at[t] = "out" /\ \E place \in {"askRead", "askWrite"} : at' = [at EXCEPT ![t] = place]
       \/ t \in Nested /\ at[t] = "reading" /\ at' = [at EXCEPT ![t] = "askReread"]
    /\ UNCHANGED <<readers, writing, waiting>>

\* Mutant: a reader looks for waiting writers only.
MutantAcquireRead(t) ==
    /\ at[t] \in {"askRead", "askReread"}
    /\ LET again == at[t] = "askReread"
       IN  IF waiting > 0
           THEN /\ at' = [at EXCEPT ![t] = IF again THEN "sleepReread" ELSE "sleepRead"]
                /\ UNCHANGED readers
           ELSE /\ at' = [at EXCEPT ![t] = IF again THEN "rereading" ELSE "reading"]
                /\ readers' = readers + 1
    /\ UNCHANGED <<writing, waiting>>

AcquireRead(t) ==
    /\ at[t] \in {"askRead", "askReread"}
    /\ LET again == at[t] = "askReread"
       IN  IF writing \/ waiting > 0
           THEN /\ at' = [at EXCEPT ![t] = IF again THEN "sleepReread" ELSE "sleepRead"]
                /\ UNCHANGED readers
           ELSE /\ at' = [at EXCEPT ![t] = IF again THEN "rereading" ELSE "reading"]
                /\ readers' = readers + 1
    /\ UNCHANGED <<writing, waiting>>

\* Mutant: the last reader wakes nobody.
MutantReleaseRead(t) ==
    /\ at[t] \in {"reading", "rereading"}
    /\ readers' = readers - 1
    /\ at' = [at EXCEPT ![t] = IF at[t] = "rereading" THEN "reading" ELSE "out"]
    /\ UNCHANGED <<writing, waiting>>

ReleaseRead(t) ==
    /\ at[t] \in {"reading", "rereading"}
    /\ readers' = readers - 1
    /\ LET left == [at EXCEPT ![t] = IF at[t] = "rereading" THEN "reading" ELSE "out"]
       IN  at' = IF readers' = 0 THEN Notified(left) ELSE left
    /\ UNCHANGED <<writing, waiting>>

Enter(t) == writing' = TRUE /\ at' = [at EXCEPT ![t] = "writing"]

AcquireWrite(t) ==
    /\ at[t] = "askWrite"
    /\ IF writing \/ readers > 0
       THEN waiting' = waiting + 1 /\ at' = [at EXCEPT ![t] = "sleepWrite"] /\ UNCHANGED writing
       ELSE Enter(t) /\ UNCHANGED waiting
    /\ UNCHANGED readers

RetryWrite(t) ==
    /\ at[t] = "wokeWrite"
    /\ IF writing \/ readers > 0
       THEN at' = [at EXCEPT ![t] = "sleepWrite"] /\ UNCHANGED <<waiting, writing>>
       ELSE Enter(t) /\ waiting' = waiting - 1
    /\ UNCHANGED readers

ReleaseWrite(t) ==
    /\ at[t] = "writing"
    /\ writing' = FALSE
    /\ at' = Notified([at EXCEPT ![t] = "out"])
    /\ UNCHANGED <<readers, waiting>>

LockNext == \E t \in Thread :
    \/ Ask(t) \/ AcquireRead(t) \/ ReleaseRead(t)
    \/ AcquireWrite(t) \/ RetryWrite(t) \/ ReleaseWrite(t)

LockSpec == LockInit /\ [][LockNext]_lockvars
-----------------------------------------------------------------------------
\* A writer is alone: whatever the counters say, no other thread is between
\* acquire and release, reading or writing (RWLock).
WriterIsAlone ==
    \A t \in Writers : Writers = {t} /\ Holding = {}

\* As long as no thread sleeps in its second read, whoever sleeps on the
\* condition has a thread that is awake and will release or take the lock: no
\* wakeup is lost among them (notify_all in release_read and release_write, the
\* tests before wait). Of a sleeping second read nothing is claimed: it and a
\* waiting writer can block each other for ever (dump, lesson_memory.py:572).
SleepersHaveAWaker ==
    Asleep # {} /\ (\A t \in Thread : at[t] # "sleepReread") =>
        \E t \in Thread : at[t] # "out" /\ t \notin Asleep
=============================================================================
