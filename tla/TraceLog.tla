------------------------------ MODULE TraceLog ------------------------------
(***************************************************************************)
(* What the capture store promises to a reader of the database, whatever   *)
(* hooks raced or died: a log of captured traces that only grows at its    *)
(* end and never holds a trace twice, and a head that always names the     *)
(* last one.  Log and head move together.                                  *)
(***************************************************************************)
EXTENDS Naturals, Sequences

CONSTANTS TraceIds,  \* ids a captured trace may have
          NoTrace    \* the head of an empty log

VARIABLES log, head

logVars == <<log, head>>

Logged(id) == \E k \in 1..Len(log) : log[k] = id

LogInit == log = <<>> /\ head = NoTrace

Capture(id) ==
    /\ ~Logged(id)
    /\ log' = Append(log, id)
    /\ head' = id

LogSpec == LogInit /\ [][\E id \in TraceIds : Capture(id)]_logVars
=============================================================================
