----------------------------- MODULE Transcript -----------------------------
(***************************************************************************)
(* What a capture keeps of a host transcript.                              *)
(*                                                                         *)
(* A transcript is the sequence of the kinds of its complete JSONL         *)
(* records: "user" is a prompt, "assistant" an llm.response, "run" a tool  *)
(* call of the assistant that runs `agentdebug run`, "noise" a record that *)
(* normalises to no event (or to private reasoning, which is excluded).    *)
(* Every record yields at most one event, and records are distinct: both   *)
(* hosts stamp them with ids and times, so an event is its record's index. *)
(***************************************************************************)
EXTENDS Naturals, Sequences

RecordKinds == {"user", "assistant", "run", "noise"}

\* The prompts at the end of the first n records: a UserPromptSubmit hook
\* sees the prompt that fired it and drops it from what it captures.
TrailingPrompts(t, n) ==
    {i \in 1..n : /\ t[i] = "user"
                  /\ \A j \in i..n : t[j] \in {"user", "noise"}}

\* The events the host adapter normalises the first n records to.
Normalized(t, n, event) ==
    {i \in 1..n : t[i] # "noise"}
        \ (IF event = "UserPromptSubmit" THEN TrailingPrompts(t, n) ELSE {})

\* A prompt opens a turn, so two events are in one turn when no prompt comes
\* after the earlier one and not after the later one.
SameTurn(t, i, j) ==
    \A k \in DOMAIN t : (k \in (i + 1)..j \/ k \in (j + 1)..i) => t[k] # "user"

\* The events prepare_for_capture keeps: a turn that runs AgentDebugX itself
\* is left out as a whole, with what came before the run in that turn.
Kept(t, n, event) ==
    LET events == Normalized(t, n, event)
    IN  {i \in events : ~ \E j \in events : t[j] = "run" /\ SameTurn(t, i, j)}

\* The assistant responses among a set of events.
Responses(t, events) == {i \in events : t[i] = "assistant"}
=============================================================================
