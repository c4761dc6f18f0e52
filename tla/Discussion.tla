----------------------------- MODULE Discussion -----------------------------
(***************************************************************************)
(* One discussion of a diagnosis: the SQLite store with its optimistic     *)
(* versions, the routes of the local UI that send a message (append, ask a *)
(* model, append), delete and load, and the browser windows and other      *)
(* clients of the store that use them at once.                             *)
(***************************************************************************)
EXTENDS Naturals, FiniteSets

CONSTANTS
    Window,     \* browser windows showing the discussion
    Editor,     \* other clients of the store, which read it and change it
    Request,    \* POSTs of a message, each served by a thread of the server
    Limit,      \* messages returned by list_messages
    MaxVersion, \* bound on the versions editors make
    None

ASSUME DiscussionAssumption ==
    /\ Editor \cap Window = {}
    /\ Limit \in Nat /\ MaxVersion \in Nat
    /\ None \notin Nat /\ None \notin Request

VARIABLES
    exists,   \* the row of the session
    version,  \* its version
    messages, \* the rows of its messages
    removed,  \* history: the messages delete_message took away
    window,   \* what each client shows and is doing
    request   \* where the handler of each request is

Client == Window \cup Editor

dvars == <<exists, version, messages, removed, window, request>>

\* A message is known by the client id of its request and its role; text
\* is the version that wrote its content.
Message == [seq : Nat, by : Request, role : {"user", "assistant"}, text : Nat]

\* read: the version read by a load or a delete that is not done yet.
WindowState == [pc : {"idle", "loading", "deleting"}, read : Nat \cup {None},
                version : Nat \cup {None}, page : SUBSET Message]

\* id and expected come with the request, prior and updated are its reads.
RequestState ==
    [pc : {"unsent", "sent", "append", "read", "asked", "reply", "ok", "failed"},
     id : Request \cup {None}, expected : Nat, prior : SUBSET Message, updated : Nat]

DiscussionInit ==
    /\ exists = TRUE /\ version = 0 /\ messages = {} /\ removed = {}
    /\ window = [w \in Client |-> [pc |-> "idle", read |-> None, version |-> None, page |-> {}]]
    /\ request = [r \in Request |-> [pc |-> "unsent", id |-> None, expected |-> 0,
                                     prior |-> {}, updated |-> 0]]
-----------------------------------------------------------------------------
(* The store                                                               *)

\* The rows list_messages returns: those with the lowest sequences.
Page(rows) == {m \in rows : Cardinality({k \in rows : k.seq <= m.seq}) <= Limit}

Written(id, role) == \E m \in messages : m.by = id /\ m.role = role

NextSequence ==
    IF messages = {} THEN 1
    ELSE (CHOOSE n \in {m.seq : m \in messages} : \A m \in messages : m.seq <= n) + 1

\* What the handler read is gone when it ends.
HandlerEnds(r, pc) == [request EXCEPT ![r].pc = pc, ![r].prior = {}, ![r].updated = 0]

\* Mutant: a question is appended whatever the version is.
MutantAppendMessage(r, role, expected, next) ==
    LET id == request[r].id
        fits == version = expected \/ role = "user"
    IN  /\ request' = IF exists /\ (Written(id, role) \/ fits)
                      THEN [request EXCEPT ![r].pc = next, ![r].prior = {}]
                      ELSE HandlerEnds(r, "failed")
        /\ IF exists /\ ~Written(id, role) /\ fits
           THEN /\ messages' = messages \cup
                      {[seq |-> NextSequence, by |-> id, role |-> role, text |-> version + 1]}
                /\ version' = version + 1
           ELSE UNCHANGED <<messages, version>>
        /\ UNCHANGED <<exists, removed, window>>

\* append_message in its transaction: not found, the row there already, a
\* conflict, or a new row; then the request goes on at pc "next". What was read
\* before the question goes into the prompt and decides nothing any more.
AppendMessage(r, role, expected, next) ==
    LET id == request[r].id
        fits == version = expected
    IN  /\ request' = IF exists /\ (Written(id, role) \/ fits)
                      THEN [request EXCEPT ![r].pc = next, ![r].prior = {}]
                      ELSE HandlerEnds(r, "failed")
        /\ IF exists /\ ~Written(id, role) /\ fits
           THEN /\ messages' = messages \cup
                      {[seq |-> NextSequence, by |-> id, role |-> role, text |-> version + 1]}
                /\ version' = version + 1
           ELSE UNCHANGED <<messages, version>>
        /\ UNCHANGED <<exists, removed, window>>

\* A change of the store by a client that names the version it knows.
Checked(w) ==
    /\ window[w].pc = "idle" /\ version < MaxVersion
    /\ exists /\ window[w].version = version
    /\ version' = version + 1
    /\ UNCHANGED <<exists, window, request>>

UpdateSession(w) == Checked(w) /\ UNCHANGED <<messages, removed>>

UpdateMessage(w, s) ==
    /\ Checked(w)
    /\ \E m \in messages :
          /\ m.seq = s
          /\ messages' = (messages \ {m}) \cup {[m EXCEPT !.text = version + 1]}
    /\ UNCHANGED removed

\* Mutant: deleting a message leaves the version as it is.
MutantDeleteMessage(w, s) ==
    /\ window[w].pc = "idle" /\ exists /\ window[w].version = version
    /\ \E m \in messages :
          /\ m.seq = s
          /\ messages' = messages \ {m}
          /\ removed' = removed \cup {<<m.by, m.role>>}
    /\ UNCHANGED <<exists, version, window, request>>

DeleteMessage(w, s) ==
    /\ Checked(w)
    /\ \E m \in messages :
          /\ m.seq = s
          /\ messages' = messages \ {m}
          /\ removed' = removed \cup {<<m.by, m.role>>}
-----------------------------------------------------------------------------
(* The windows                                                             *)

\* get_trace_discussion: the session row first, the messages after it.
LoadSession(w) ==
    /\ window[w].pc = "idle"
    /\ window' = IF exists THEN [window EXCEPT ![w].pc = "loading", ![w].read = version]
                 ELSE [window EXCEPT ![w].version = None, ![w].page = {}]
    /\ UNCHANGED <<exists, version, messages, removed, request>>

LoadMessages(w) ==
    /\ window[w].pc = "loading"
    /\ window' = [window EXCEPT ![w] =
          [pc |-> "idle", read |-> None,
           version |-> IF exists THEN window[w].read ELSE None,
           page |-> IF exists THEN Page(messages) ELSE {}]]
    /\ UNCHANGED <<exists, version, messages, removed, request>>

\* delete_trace_discussion: the version it deletes is one it reads itself.
RequireDiscussion(w) ==
    /\ window[w].pc = "idle" /\ exists
    /\ window' = [window EXCEPT ![w].pc = "deleting", ![w].read = version]
    /\ UNCHANGED <<exists, version, messages, removed, request>>

DeleteSession(w) ==
    /\ window[w].pc = "deleting"
    /\ window' = [window EXCEPT ![w].pc = "idle", ![w].read = None]
    /\ IF exists /\ version = window[w].read
       THEN exists' = FALSE /\ messages' = {}
       ELSE UNCHANGED <<exists, messages>>
    /\ UNCHANGED <<version, removed, request>>

\* The form sends the version it shows and an id of its own.
SendQuestion(w, r) ==
    /\ window[w].pc = "idle" /\ window[w].version # None
    /\ request[r].pc = "unsent" /\ \A q \in Request : request[q].id # r
    /\ request' = [request EXCEPT ![r].pc = "sent", ![r].id = r, ![r].expected = window[w].version]
    /\ UNCHANGED <<exists, version, messages, removed, window>>

\* A client that has no answer yet, or lost it, sends the same again.
SendAgain(r, q) ==
    /\ request[r].pc = "unsent" /\ request[q].pc # "unsent"
    /\ request' = [request EXCEPT ![r].pc = "sent", ![r].id = request[q].id,
                                  ![r].expected = request[q].expected]
    /\ UNCHANGED <<exists, version, messages, removed, window>>
-----------------------------------------------------------------------------
(* send_trace_discussion_message                                           *)

\* Mutant: the question alone is taken for an answered request.
MutantReadPrior(r) ==
    /\ request[r].pc = "sent"
    /\ LET prior == Page(messages)
           answered == \E m \in prior : m.by = request[r].id
       IN  request' = IF ~exists THEN HandlerEnds(r, "failed")
                      ELSE [request EXCEPT ![r].pc = IF answered THEN "reply" ELSE "append",
                                           ![r].prior = prior]
    /\ UNCHANGED <<exists, version, messages, removed, window>>

ReadPrior(r) ==
    /\ request[r].pc = "sent"
    /\ LET prior == Page(messages)
           answered == \E m \in prior : m.by = request[r].id /\ m.role = "assistant"
       IN  request' = IF ~exists THEN HandlerEnds(r, "failed")
                      ELSE [request EXCEPT ![r].pc = IF answered THEN "reply" ELSE "append",
                                           ![r].prior = prior]
    /\ UNCHANGED <<exists, version, messages, removed, window>>

AppendQuestion(r) ==
    /\ request[r].pc = "append"
    /\ AppendMessage(r, "user", request[r].expected, "read")

\* The session is read again, then the model is asked.
ReadSession(r) ==
    /\ request[r].pc = "read"
    /\ request' = IF exists THEN [request EXCEPT ![r].pc = "asked", ![r].updated = version]
                  ELSE HandlerEnds(r, "failed")
    /\ UNCHANGED <<exists, version, messages, removed, window>>

AppendAnswer(r) ==
    /\ request[r].pc = "asked"
    /\ AppendMessage(r, "assistant", request[r].updated, "reply")

ReplyTo(r) ==
    /\ request[r].pc = "reply"
    /\ request' = HandlerEnds(r, IF exists THEN "ok" ELSE "failed")
    /\ UNCHANGED <<exists, version, messages, removed, window>>

\* The model fails, the database stays busy, or the server is killed.
HandlerFails(r) ==
    /\ request[r].pc \in {"sent", "append", "read", "asked", "reply"}
    /\ request' = HandlerEnds(r, "failed")
    /\ UNCHANGED <<exists, version, messages, removed, window>>
-----------------------------------------------------------------------------
Serve(r) == ReadPrior(r) \/ AppendQuestion(r) \/ ReadSession(r) \/ AppendAnswer(r) \/ ReplyTo(r)

Sequences == 1 .. (MaxVersion + 2 * Cardinality(Request))

DiscussionNext ==
    \/ \E w \in Client : LoadSession(w) \/ LoadMessages(w)
    \/ \E w \in Editor : UpdateSession(w)
    \/ \E w \in Editor, s \in Sequences : UpdateMessage(w, s) \/ DeleteMessage(w, s)
    \/ \E w \in Window : RequireDiscussion(w) \/ DeleteSession(w)
    \/ \E w \in Window, r \in Request : SendQuestion(w, r)
    \/ \E r, q \in Request : SendAgain(r, q)
    \/ \E r \in Request : Serve(r) \/ HandlerFails(r)

DiscussionSpec == DiscussionInit /\ [][DiscussionNext]_dvars
-----------------------------------------------------------------------------
(* Properties                                                              *)

\* Every variable has its type.
DiscussionTypeOK ==
    /\ exists \in BOOLEAN /\ version \in Nat
    /\ messages \subseteq Message
    /\ removed \subseteq Request \X {"user", "assistant"}
    /\ window \in [Client -> WindowState]
    /\ request \in [Request -> RequestState]

KeptMessage(id, role) == Written(id, role) \/ <<id, role>> \in removed

\* A message that was answered 200 is in the discussion with its answer after
\* it, whatever other windows, retries and failures did in between, until
\* somebody deletes one of them (send_trace_discussion_message).
AnsweredIsInDiscussion ==
    \A r \in Request : request[r].pc = "ok" /\ exists =>
        LET id == request[r].id
        IN  /\ KeptMessage(id, "user") /\ KeptMessage(id, "assistant")
            /\ \A q, a \in messages :
                  q.by = id /\ a.by = id /\ q.role = "user" /\ a.role = "assistant" => q.seq < a.seq

\* A client whose version is still the session's shows the messages as they
\* are, so that a change it makes under that version hits what it has seen,
\* although sequences are given out again and the session is read before the
\* messages (discussion_detail, _check_version).
SameVersionSameMessages ==
    \A w \in Client : exists /\ window[w].version = version => window[w].page = Page(messages)

\* The history given to the model was read before the question was appended;
\* a question is accepted only if no message came, went or changed since
\* (prior_messages and expected_version of send_trace_discussion_message).
AskedOnCurrentMessages ==
    [][\A r \in Request :
          request[r].pc = "append" /\ request'[r].pc = "read" /\ version' # version
              => request[r].prior = Page(messages)]_dvars
=============================================================================
