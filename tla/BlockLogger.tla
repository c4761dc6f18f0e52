----------------------------- MODULE BlockLogger -----------------------------
(***************************************************************************)
(* Loggers of the GUI package, each with a queue and a worker thread, that *)
(* mirror their messages to one file. The loggers bound to the file share  *)
(* a handle of it, counted in a registry of the class, and its buffer.     *)
(***************************************************************************)
EXTENDS Naturals, Sequences

CONSTANTS
    Logger,
    MaxMessages,  \* bound: messages
    MaxHandles    \* bound: times the file is opened

ASSUME LoggerAssumption == MaxMessages \in Nat /\ MaxHandles \in Nat

VARIABLES
    user,      \* the thread that binds, unbinds and closes: where it is
    logged,    \* messages given to the loggers
    pending,   \* queue of each logger
    unfinished, \* the queue's unfinished tasks
    stopping,  \* stop_event
    loop,      \* what each worker thread is doing
    files,     \* _files: the handles each logger is bound to
    registry,  \* the handle registered for the path, 0 if none
    refs,      \* refs[h] of the handles opened so far, 0 once closed
    buffered,  \* messages written to the registered handle, not to the file yet
    written,   \* the messages in the file
    owed       \* messages given to a logger while it was bound and stays so

loggerVars == <<user, logged, pending, unfinished, stopping, loop, files, registry, refs,
                buffered, written, owed>>

Stop == 0
Unoccupied == [pc |-> "idle", text |-> Stop, left |-> <<>>]
NoReference == [pc |-> "idle", held |-> <<>>]

LoggerInit ==
    /\ user = [l \in Logger |-> NoReference]
    /\ logged = 0 /\ pending = [l \in Logger |-> <<>>]
    /\ unfinished = [l \in Logger |-> 0] /\ stopping = [l \in Logger |-> FALSE]
    /\ loop = [l \in Logger |-> Unoccupied]
    /\ files = [l \in Logger |-> <<>>] /\ registry = 0 /\ refs = <<>>
    /\ buffered = {} /\ written = {} /\ owed = {}
-----------------------------------------------------------------------------
(* The threads that use a logger. Any thread may log at any time; one binds *)
(* files, unbinds them and closes the logger.                              *)

\* info() and the others. A message that comes after close() is nobody's.
Log(l) ==
    /\ logged < MaxMessages
    /\ logged' = logged + 1
    /\ LET n == logged + 1
       IN  /\ pending' = [pending EXCEPT ![l] = Append(@, n)]
           /\ owed' = IF user[l].pc = "idle" /\ files[l] # <<>> THEN owed \cup {<<l, n>>} ELSE owed
    /\ unfinished' = [unfinished EXCEPT ![l] = @ + 1]
    /\ UNCHANGED <<user, stopping, loop, files, registry, refs, buffered, written>>

GoTo(l, pc, held) == user' = [user EXCEPT ![l] = [pc |-> pc, held |-> held]]

\* bind_file: looks whether the path is bound, takes a reference, notes it.
BindFile(l) ==
    /\ user[l].pc = "idle" /\ files[l] = <<>>
    /\ GoTo(l, "bind", <<>>)
    /\ UNCHANGED <<logged, pending, unfinished, stopping, loop, files, registry, refs, buffered, written, owed>>

TakeReference(l) ==
    /\ user[l].pc = "bind"
    /\ \/ /\ registry = 0 /\ Len(refs) < MaxHandles
          /\ refs' = Append(refs, 1)
          /\ registry' = Len(refs')
       \/ /\ registry # 0
          /\ refs' = [refs EXCEPT ![registry] = @ + 1]
          /\ UNCHANGED registry
    /\ GoTo(l, "note", <<registry'>>)
    /\ UNCHANGED <<logged, pending, unfinished, stopping, loop, files, buffered, written, owed>>

NoteFile(l) ==
    /\ user[l].pc = "note"
    /\ files' = [files EXCEPT ![l] = @ \o user[l].held]
    /\ GoTo(l, "idle", <<>>)
    /\ UNCHANGED <<logged, pending, unfinished, stopping, loop, registry, refs, buffered, written, owed>>

\* unbind_files, and the end of _close, take the list and then release it.
Unbind(l) ==
    /\ user[l].pc = "idle" /\ files[l] # <<>>
    /\ GoTo(l, "unbind", files[l])
    /\ files' = [files EXCEPT ![l] = <<>>]
    /\ owed' = {m \in owed : m[1] = l => m \in written \cup buffered}
    /\ UNCHANGED <<logged, pending, unfinished, stopping, loop, registry, refs, buffered, written>>

\* What is in the buffer reaches the file.
Flushed == buffered' = {} /\ written' = written \cup buffered

\* Mutant: the first to release a handle closes it.
MutantRelease(l) ==
    /\ user[l].pc \in {"unbind", "release"}
    /\ IF user[l].held # <<>> /\ registry # 0
       THEN refs' = [refs EXCEPT ![user[l].held[1]] = 0] /\ registry' = 0 /\ Flushed
       ELSE UNCHANGED <<refs, registry, buffered, written>>
    /\ GoTo(l, IF user[l].pc = "unbind" THEN "idle" ELSE "closed", <<>>)
    /\ UNCHANGED <<logged, pending, unfinished, stopping, loop, files, owed>>

\* The handle is closed, and so flushed, with the last reference only.
Release(l) ==
    /\ user[l].pc \in {"unbind", "release"}
    /\ IF user[l].held # <<>> /\ registry # 0
       THEN LET h == user[l].held[1]
            IN  /\ refs' = [refs EXCEPT ![h] = @ - 1]
                /\ IF refs'[h] = 0 THEN registry' = 0 /\ Flushed
                                  ELSE UNCHANGED <<registry, buffered, written>>
       ELSE UNCHANGED <<refs, registry, buffered, written>>
    /\ GoTo(l, IF user[l].pc = "unbind" THEN "idle" ELSE "closed", <<>>)
    /\ UNCHANGED <<logged, pending, unfinished, stopping, loop, files, owed>>

\* _close: queue.join, the event and None, worker.join.
Join(l) ==
    /\ user[l].pc = "idle" /\ unfinished[l] = 0
    /\ GoTo(l, "stop", <<>>)
    /\ stopping' = [stopping EXCEPT ![l] = TRUE]
    /\ UNCHANGED <<logged, pending, unfinished, loop, files, registry, refs, buffered, written, owed>>

PutStop(l) ==
    /\ user[l].pc = "stop"
    /\ pending' = [pending EXCEPT ![l] = Append(@, Stop)]
    /\ GoTo(l, "join", <<>>)
    /\ UNCHANGED <<logged, unfinished, stopping, loop, files, registry, refs, buffered, written, owed>>

TakeFiles(l) ==
    /\ user[l].pc = "join" /\ loop[l].pc = "ended"
    /\ GoTo(l, "release", files[l])
    /\ files' = [files EXCEPT ![l] = <<>>]
    /\ UNCHANGED <<logged, pending, unfinished, stopping, loop, registry, refs, buffered, written, owed>>
-----------------------------------------------------------------------------
(* _worker_loop. *)

Works(l, step) == loop' = [loop EXCEPT ![l] = step]

TakeText(l) ==
    /\ loop[l].pc = "idle" /\ pending[l] # <<>>
    /\ pending' = [pending EXCEPT ![l] = Tail(@)]
    /\ Works(l, [Unoccupied EXCEPT !.pc = IF Head(pending[l]) = Stop THEN "ended" ELSE "print",
                             !.text = Head(pending[l])])
    /\ UNCHANGED <<user, logged, unfinished, stopping, files, registry, refs, buffered, written, owed>>

\* The loop is left without the last None as well.
Leave(l) ==
    /\ loop[l].pc = "idle" /\ pending[l] = <<>> /\ stopping[l]
    /\ Works(l, [Unoccupied EXCEPT !.pc = "ended"])
    /\ UNCHANGED <<user, logged, pending, unfinished, stopping, files, registry, refs, buffered, written, owed>>

\* print() goes well and the files are listed, or it raises and ends the thread.
PrintText(l) ==
    /\ loop[l].pc = "print"
    /\ \/ Works(l, [loop[l] EXCEPT !.pc = "write", !.left = files[l]])
       \/ Works(l, [Unoccupied EXCEPT !.pc = "ended"])
    /\ UNCHANGED <<user, logged, pending, unfinished, stopping, files, registry, refs, buffered, written, owed>>

\* fp.write on a handle that is open, the registered one: the text goes into
\* its buffer, and any part of the buffer to the file.
WriteText(l) ==
    /\ loop[l].pc = "write" /\ loop[l].left # <<>>
    /\ \/ /\ refs[Head(loop[l].left)] > 0
          /\ \E out \in SUBSET (buffered \cup {<<l, loop[l].text>>}) :
                /\ written' = written \cup out
                /\ buffered' = (buffered \cup {<<l, loop[l].text>>}) \ out
       \/ refs[Head(loop[l].left)] = 0 /\ UNCHANGED <<buffered, written>>
    /\ Works(l, [loop[l] EXCEPT !.left = Tail(@)])
    /\ UNCHANGED <<user, logged, pending, unfinished, stopping, files, registry, refs, owed>>

TaskDone(l) ==
    /\ loop[l].pc = "write" /\ loop[l].left = <<>>
    /\ unfinished' = [unfinished EXCEPT ![l] = @ - 1]
    /\ Works(l, Unoccupied)
    /\ UNCHANGED <<user, logged, pending, stopping, files, registry, refs, buffered, written, owed>>

\* No message for a tenth of a second: the files are listed and flushed.
IdleTick(l) ==
    /\ loop[l].pc = "idle" /\ pending[l] = <<>>
    /\ Works(l, [Unoccupied EXCEPT !.pc = "flush", !.left = files[l]])
    /\ UNCHANGED <<user, logged, pending, unfinished, stopping, files, registry, refs, buffered, written, owed>>

FlushFile(l) ==
    /\ loop[l].pc = "flush" /\ loop[l].left # <<>>
    /\ \/ refs[Head(loop[l].left)] > 0 /\ Flushed
       \/ refs[Head(loop[l].left)] = 0 /\ UNCHANGED <<buffered, written>>
    /\ Works(l, [loop[l] EXCEPT !.left = Tail(@)])
    /\ UNCHANGED <<user, logged, pending, unfinished, stopping, files, registry, refs, owed>>

EndTick(l) ==
    /\ loop[l].pc = "flush" /\ loop[l].left = <<>>
    /\ Works(l, Unoccupied)
    /\ UNCHANGED <<user, logged, pending, unfinished, stopping, files, registry, refs, buffered, written, owed>>
-----------------------------------------------------------------------------
LoggerNext == \E l \in Logger :
    \/ Log(l) \/ BindFile(l) \/ TakeReference(l) \/ NoteFile(l) \/ Unbind(l) \/ Release(l)
    \/ Join(l) \/ PutStop(l) \/ TakeFiles(l)
    \/ TakeText(l) \/ Leave(l) \/ PrintText(l) \/ WriteText(l) \/ TaskDone(l)
    \/ IdleTick(l) \/ FlushFile(l) \/ EndTick(l)

LoggerSpec == LoggerInit /\ [][LoggerNext]_loggerVars

\* close() loses nothing ("Flush queue, stop worker, and release bound files"):
\* when it has returned, what was logged while the logger was bound to the
\* file is in the file, or in the buffer of a handle that another logger still
\* keeps open, whose worker will flush it or whose close will close it. That
\* holds whichever loggers share the handle and whoever released it first;
\* when nobody holds it any more, everything is in the file. (A close() whose
\* worker has died never returns. A write or flush the system refuses is
\* swallowed by the worker, and is not in the model.)
ClosedLoggerLosesNothing ==
    \A l \in Logger : user[l].pc = "closed" =>
        \A m \in owed : m[1] = l => m \in written \/ (m \in buffered /\ registry # 0)
==============================================================================
