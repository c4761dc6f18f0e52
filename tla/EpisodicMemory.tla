---------------------------- MODULE EpisodicMemory ----------------------------
(***************************************************************************)
(* The JSON file in which the GUI debugger keeps its episodes, as the      *)
(* processes and threads that share it see it.                             *)
(*                                                                         *)
(* Every operation reads the whole file under a shared lock; one that      *)
(* changes it then writes the whole file back under an exclusive lock, a   *)
(* lock taken anew.  Opening for writing truncates before the lock is      *)
(* asked for, and what Python still buffers reaches the file when it is    *)
(* closed, after the lock is released.  Each open file has an offset of    *)
(* its own, so the file is modelled down to who wrote which part of it.    *)
(***************************************************************************)
EXTENDS Naturals, SequencesExt

CONSTANTS Proc,      \* processes and threads that hold an EpisodicMemory
          Founder,   \* those that may come when there is no file yet
          Writer,    \* those that add and delete; all of Proc read
          Resetter,  \* those that may be started with --reset-memory
          Record,    \* ids that uuid4() may return, each once
          Size,      \* Size[r]: the length of the text of r
          MaxKills,  \* bound: processes killed
          None

VARIABLES file,   \* the parts of the file's text, or None: there is no file
          proc,   \* proc[p]: the operation p is in
          seen,   \* seen[p]: the store as the last read of p returned it
          used,   \* ids given out
          kept,   \* records whose add returned and that nobody asked to remove
          kills,
          overlapped \* history: two changes were under way at once

mvars == <<file, proc, seen, used, kept, kills, overlapped>>

\* A store is a dict of records: their ids in the order of insertion.
Stores == {s \in Seq(Record) : IsInjective(s)}
With(db, r) == Append(db, r)
Without(db, r) == RemoveFirst(db, r)

\* The text of a store: its opening, the parts of each record, its end.
Open == <<None, 1>>
Close == <<None, 2>>
Hole == <<None, 0>>    \* bytes nobody wrote
TextOf(r) == [i \in 1..Size[r] |-> <<r, i>>]
Parts == {Open, Close, Hole} \cup UNION {ToSet(TextOf(r)) : r \in Record}

ASSUME EpisodesAssumption ==
    /\ Size \in [Record -> Nat \ {0}] /\ MaxKills \in Nat /\ None \notin Record \cup Seq(Parts)
    /\ Proc # {}

Text(db) ==
    LET upTo[k \in 0..Len(db)] == IF k = 0 THEN <<Open>> ELSE upTo[k - 1] \o TextOf(db[k])
    IN  Append(upTo[Len(db)], Close)

\* json.load: the text is one opening, whole records and one end.  A record
\* met twice keeps its first place.
Starts(part) == part[1] # None /\ part[2] = 1
Ends(part) == part = Open \/ (part[1] # None /\ part[2] = Size[part[1]])

\* Mutant: a text that breaks off is taken up to there.
ReadableSoFar == Len(file) > 1 /\ file[1] = Open

Readable ==
    /\ Len(file) > 1 /\ file[1] = Open /\ file[Len(file)] = Close
    /\ \A i \in 2..Len(file) :
          \/ i = Len(file) /\ Ends(file[i - 1])
          \/ Starts(file[i]) /\ Ends(file[i - 1])
          \/ file[i][1] # None /\ file[i] = <<file[i - 1][1], file[i - 1][2] + 1>>
Taken(db, part) ==
    IF Starts(part) /\ ~Contains(db, part[1]) THEN With(db, part[1]) ELSE db
Parse ==
    LET upTo[i \in 0..Len(file)] == IF i = 0 THEN <<>> ELSE Taken(upTo[i - 1], file[i])
    IN  upTo[Len(file)]

\* write() at an offset: what lies beyond stays, a gap reads as zeros.
WriteAt(at, parts) ==
    [i \in 1..Max({Len(file), at + Len(parts)}) |->
        IF i \in (at + 1)..(at + Len(parts)) THEN parts[i - at]
        ELSE IF i <= Len(file) THEN file[i] ELSE Hole]

\* Mutant: open for update, which does not truncate.
Untouched == IF file = None THEN <<>> ELSE file

Truncated == <<>>

Outside == [pc |-> "out", op |-> "none", rec |-> None, db |-> <<>>, at |-> 0]
Ready == [Outside EXCEPT !.pc = "ready"]
Writing(op, r, db) == [Ready EXCEPT !.pc = "write", !.op = op, !.rec = r, !.db = db]
Goto(p, pc) == proc' = [proc EXCEPT ![p].pc = pc]

\* flock is advisory: it keeps out those who ask for it.
Locked == \E p \in Proc : proc[p].pc = "dumped" /\ proc[p].op # "reset"

MemoryInit ==
    /\ file = None
    /\ proc = [p \in Proc |-> Outside]
    /\ seen = [p \in Proc |-> None]
    /\ used = {} /\ kept = {} /\ kills = 0 /\ overlapped = FALSE

\* Mutant: the store is created anew each time.
AnyFile == TRUE

Missing == file = None

\* __init__ looks for the file, and creates it in a later step.
Construct(p) ==
    /\ proc[p].pc = "out"
    /\ \/ Missing /\ p \in Founder /\ proc' = [proc EXCEPT ![p] = Writing("create", None, <<>>)]
       \/ ~Missing /\ proc' = [proc EXCEPT ![p] = Ready]
    /\ UNCHANGED <<file, seen, used, kept, kills>>

\* The read every operation starts with.  When it cannot take the text for a
\* store the operation raises, and nothing has changed.
CanRead(p) == proc[p].pc = "ready" /\ ~Locked /\ Readable

\* Mutant: records are filed under the id of their task.
AnyId == Record

Fresh == Record \ used

Add(p) ==
    /\ CanRead(p) /\ p \in Writer
    /\ \E r \in Fresh :
          /\ used' = used \cup {r}
          /\ proc' = [proc EXCEPT ![p] = Writing("add", r, With(Parse, r))]
    /\ UNCHANGED <<file, seen, kept, kills>>

\* Mutant: the record is deleted from the dict, which is not written back.
DeleteInMemory(p) ==
    /\ CanRead(p) /\ p \in Writer
    /\ \E r \in used : Contains(Parse, r) /\ kept' = kept \ {r}
    /\ UNCHANGED <<file, proc, seen, used, kills>>

\* Deleting an unknown id answers False and writes nothing.
Delete(p) ==
    /\ CanRead(p) /\ p \in Writer
    /\ \E r \in used :
          /\ Contains(Parse, r)
          /\ kept' = kept \ {r}
          /\ proc' = [proc EXCEPT ![p] = Writing("delete", r, Without(Parse, r))]
    /\ UNCHANGED <<file, seen, used, kills>>

\* read and list.
List(p) ==
    /\ CanRead(p)
    /\ seen' = [seen EXCEPT ![p] = Parse]
    /\ UNCHANGED <<file, proc, used, kept, kills>>

\* --reset-memory of the command line: no lock, and no read before.
Reset(p) ==
    /\ proc[p].pc = "ready" /\ p \in Resetter
    /\ kept' = {}
    /\ proc' = [proc EXCEPT ![p] = Writing("reset", None, <<>>)]
    /\ UNCHANGED <<file, seen, used, kills>>

OpenToWrite(p) ==
    /\ proc[p].pc = "write"
    /\ file' = Truncated
    /\ Goto(p, "opened")
    /\ UNCHANGED <<seen, used, kept, kills>>

\* json.dump under the lock: all of the text but what stays buffered.
Dump(p) ==
    /\ proc[p].pc = "opened" /\ (proc[p].op = "reset" \/ ~Locked)
    /\ \E n \in 0..Len(Text(proc[p].db)) :
          /\ file' = WriteAt(0, SubSeq(Text(proc[p].db), 1, n))
          /\ proc' = [proc EXCEPT ![p].pc = "dumped", ![p].at = n]
    /\ UNCHANGED <<seen, used, kept, kills>>

Unlock(p) ==
    /\ proc[p].pc = "dumped"
    /\ Goto(p, "unlocked")
    /\ UNCHANGED <<file, seen, used, kept, kills>>

\* The end of the with block: the buffer goes out and the operation returns.
CloseFile(p) ==
    /\ proc[p].pc = "unlocked"
    /\ LET text == Text(proc[p].db)
       IN  file' = WriteAt(proc[p].at, SubSeq(text, proc[p].at + 1, Len(text)))
    /\ kept' = IF proc[p].op = "add" THEN kept \cup {proc[p].rec} ELSE kept
    /\ proc' = [proc EXCEPT ![p] = Ready]
    /\ UNCHANGED <<seen, used, kills>>

\* A killed process leaves the file as it is; the kernel drops its lock.
Kill(p) ==
    /\ proc[p].pc # "out" /\ kills < MaxKills
    /\ proc' = [proc EXCEPT ![p] = Outside]
    /\ kills' = kills + 1
    /\ UNCHANGED <<file, seen, used, kept>>

\* A change is under way from the look at the file or the read that it starts
\* with until the file is closed.
Changing(p) == proc[p].pc \in {"write", "opened", "dumped", "unlocked"}

Step(p) ==
    \/ Construct(p) \/ Add(p) \/ Delete(p) \/ List(p) \/ Reset(p)
    \/ OpenToWrite(p) \/ Dump(p) \/ Unlock(p) \/ CloseFile(p) \/ Kill(p)

MemoryNext ==
    /\ \E p \in Proc : Step(p)
    /\ overlapped' = (overlapped \/ \E p, q \in Proc : p # q /\ Changing(p)' /\ Changing(q)')

MemorySpec == MemoryInit /\ [][MemoryNext]_mvars
-------------------------------------------------------------------------------
Quiet == \A p \in Proc : proc[p].pc \in {"out", "ready"}

MemoryTypeOK ==
    /\ file \in Seq(Parts) \cup {None}
    /\ \A p \in Proc : proc[p] \in
          [pc : {"out", "ready", "write", "opened", "dumped", "unlocked"},
           op : {"none", "create", "add", "delete", "reset"},
           rec : Record \cup {None}, db : Stores, at : 0..Len(Text(proc[p].db))]
    /\ seen \in [Proc -> Stores \cup {None}]
    /\ used \subseteq Record /\ kept \subseteq used /\ kills \in 0..MaxKills
    /\ overlapped \in BOOLEAN

\* As long as no two changes overlapped, whoever made them, a record whose add
\* returned is found by whoever can read the store until somebody asks to remove
\* it: processes that read, take turns to found, change and reset the store, and
\* are killed in the middle of it, never lose one (episode_memory.py:96-100,
\* 167-170, 239-253). Two changes that overlap do: add reads and writes under
\* two locks (:168), and so do the look for the file and its creation (:99).
AddedIsKept ==
    ~overlapped /\ Quiet /\ file # None /\ Readable => kept \subseteq ToSet(Parse)

\* If moreover nobody was killed, the store at rest is readable and holds exactly
\* the records added and not deleted (episode_memory.py:167-170, 201-212).
StoreIsExact ==
    ~overlapped /\ Quiet /\ kills = 0 /\ file # None => Readable /\ ToSet(Parse) = kept

\* As long as no two changes overlapped, a list that returns in any process and
\* in the middle of a change holds every record that was there all along,
\* although the file is truncated before the lock is taken and completed after
\* it is released (episode_memory.py:239-253).
ListIsComplete ==
    [][~overlapped =>
          \A p \in Proc : seen'[p] # seen[p] => kept \subseteq ToSet(seen'[p])]_mvars
=============================================================================
