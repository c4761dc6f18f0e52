------------------------------ MODULE MCCapture ------------------------------
(* Small instances of Capture for TLC. *)
EXTENDS Capture, TLC

CONSTANTS p1, p2

Note(event) == [event |-> event, native |-> "n"]
StopNotes == {Note("Stop")}
TurnNotes == {Note("UserPromptSubmit"), Note("Stop")}
LifecycleNotes == {Note("SessionStart"), Note("UserPromptSubmit"), Note("Stop"), Note("SessionEnd")}

Prefixes(t) == {SubSeq(t, 1, n) : n \in 0..Len(t)}
OneTurn == Prefixes(<<"user", "assistant">>)
\* Turns that end in a prompt, in a run of AgentDebugX, or in a response after
\* a record that yields no event.
Varied == Prefixes(<<"user", "assistant", "user">>)
            \cup Prefixes(<<"user", "assistant", "run">>)
            \cup Prefixes(<<"user", "noise", "assistant">>)
=============================================================================
