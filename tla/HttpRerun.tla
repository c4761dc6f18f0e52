------------------------------ MODULE HttpRerun ------------------------------
(* HttpLiveExecutor.run (rerun/executors/http_live.py) against the runner      *)
(* service: clients that submit, poll, fetch and cancel over a network that    *)
(* may lose a request or its answer. A client generates a submission id of its *)
(* own, so a key stands for one call of run().                                 *)
EXTENDS RunnerService

CONSTANT MaxRetries     \* max_retries of _request

ASSUME RetriesAssumption == MaxRetries \in Nat

VARIABLE client         \* submission id -> the call of run() it belongs to

allVars == <<vars, client>>

NewClient == [pc |-> "idle", run |-> None, call |-> None, tries |-> 0,
              expired |-> FALSE, told |-> FALSE]

ClientInit == Init /\ client = [k \in Key |-> NewClient]

\* The request a client makes at each place of run().
KindAt == [submit |-> "submit", poll |-> "status", fetch |-> "fetch", cancel |-> "cancel"]
Ended == {"done", "raised"}

Client(k, x) == client' = [client EXCEPT ![k] = x]
At(x, pc) == [x EXCEPT !.pc = pc, !.call = None, !.tries = 0]

\* What run() does when a request fails for good: before it has a run id it
\* raises; inside the try it cancels once and raises; cancel swallows the error.
Failed(x) == At(x, IF x.pc \in {"submit", "cancel"} THEN "raised" ELSE "cancel")

\* Mutant: the attempts are not counted.
LostForever(x) == IF x.pc # "cancel" THEN [x EXCEPT !.call = None] ELSE Failed(x)

\* _request: a timeout, a network error or a retryable status (429, 502-504).
Lost(x) ==
    IF x.pc # "cancel" /\ x.tries < MaxRetries
    THEN [x EXCEPT !.call = None, !.tries = @ + 1]
    ELSE Failed(x)

\* Mutant: every terminal status is taken for the result.
PolledAnyEnd(x, status) == At(x, IF status \in Terminal THEN "done" ELSE "poll")

\* The poll loop: a terminal status ends it, and only "succeeded" is fetched.
Polled(x, status) ==
    At(x, CASE status = "succeeded" -> "fetch"
            [] status \in {"failed", "cancelled"} -> "cancel"
            [] OTHER -> "poll")
------------------------------------------------------------------------------
\* capabilities() and the validation of the checkpoint policy.
Handshake(k) ==
    /\ client[k].pc = "idle"
    /\ \E pc \in {"submit", "raised"} : Client(k, At(client[k], pc))
    /\ UNCHANGED vars

\* The deadline is looked at only at the head of the loop, between requests.
AtDeadline(k) == client[k].pc = "poll" /\ client[k].tries = 0 /\ client[k].expired
Sending(k) == client[k].pc \in DOMAIN KindAt /\ client[k].call = None /\ ~AtDeadline(k)

Send(k, c) ==
    /\ Sending(k)
    /\ IF client[k].pc = "submit"
       THEN Arrive(c, "submit", k, None)
       ELSE Arrive(c, KindAt[client[k].pc], None, client[k].run)
    /\ Client(k, [client[k] EXCEPT !.call = c])

\* The request never reaches the service.
SendFails(k) ==
    /\ Sending(k)
    /\ Client(k, Lost(client[k]))
    /\ UNCHANGED vars

\* The client stops waiting; the service goes on with the call it received.
TimesOut(k) ==
    /\ client[k].call # None
    /\ Client(k, Lost(client[k]))
    /\ UNCHANGED vars

\* An answer that nobody waits for is dropped.
Dropped(c) ==
    /\ \A k \in Key : client[k].call # c
    /\ Reply(c)
    /\ UNCHANGED client

\* Mutant: the run id of the submission is not kept.
ReceiveWithoutRun(k) ==
    LET c == client[k].call
        x == client[k]
        a == calls[c].answer
    IN  /\ c # None
        /\ Reply(c)
        /\ Client(k, IF x.pc \in {"cancel", "fetch"} \/ a \in {"unknown", "refused"}
                     THEN Failed(x) ELSE Polled(x, a))

\* A response reaches the client that waits for it.
Receive(k) ==
    LET c == client[k].call
        x == client[k]
        a == calls[c].answer
    IN  /\ c # None
        /\ Reply(c)
        /\ \/ x.pc = "cancel" /\ Client(k, [At(x, "raised") EXCEPT !.told = a # "unknown"])
           \/ x.pc # "cancel" /\ a \in {"unknown", "refused"} /\ Client(k, Failed(x))
           \/ x.pc = "fetch" /\ a \notin {"unknown", "refused"} /\ Client(k, At(x, "done"))
           \/ /\ x.pc \in {"submit", "poll"} /\ a \notin {"unknown", "refused"}
              /\ Client(k, Polled([x EXCEPT !.run = calls[c].run], a))

\* Time passes self.timeout.
Expire(k) ==
    /\ client[k].pc = "poll"
    /\ ~client[k].expired
    /\ Client(k, [client[k] EXCEPT !.expired = TRUE])
    /\ UNCHANGED vars

TimeoutError(k) ==
    /\ AtDeadline(k)
    /\ client[k].call = None
    /\ Client(k, Failed(client[k]))
    /\ UNCHANGED vars

\* KeyboardInterrupt inside a request or a sleep of run().
Interrupt(k) ==
    /\ client[k].pc \in DOMAIN KindAt
    /\ Client(k, Failed(client[k]))
    /\ UNCHANGED vars

\* A restart closes every connection.
ServiceRestarts ==
    /\ Restart
    /\ client' = [k \in Key |-> IF client[k].call = None THEN client[k] ELSE Lost(client[k])]

Service ==
    /\ \/ \E c \in Call : Serve(c)
       \/ \E w \in Worker : Execute(w) \/ Callback(w)
    /\ UNCHANGED client

Move(k) ==
    \/ Handshake(k) \/ (\E c \in Call : Send(k, c)) \/ SendFails(k) \/ TimesOut(k)
    \/ Receive(k) \/ Expire(k) \/ TimeoutError(k)

ClientNext ==
    \/ \E k \in Key : Move(k) \/ Interrupt(k)
    \/ \E c \in Call : Dropped(c)
    \/ Service
    \/ ServiceRestarts

ClientSpec == ClientInit /\ [][ClientNext]_allVars

\* A client in run() keeps running and its clock keeps ticking; nothing is
\* assumed of the service or of the network.
ClientFairSpec ==
    /\ ClientSpec
    /\ \A k \in Key : WF_allVars(Move(k)) /\ WF_allVars(Expire(k))
------------------------------------------------------------------------------
ClientTypeOK ==
    /\ TypeOK
    /\ client \in [Key -> [pc : (DOMAIN KindAt) \cup Ended \cup {"idle"}, run : Run \cup {None},
                           call : Call \cup {None}, tries : 0..MaxRetries,
                           expired : BOOLEAN, told : BOOLEAN]]

\* A client that was told "succeeded" (http_live.py:139-143) is not refused the
\* result (409, http_service.py:253-265): the status is readable before the
\* result is stored, and only the lock of get_job keeps the fetch behind it.
SucceededIsFetchable ==
    \A k \in Key : LET c == client[k].call IN
        client[k].pc = "fetch" /\ c # None /\ calls[c].pc = "answered" =>
            calls[c].answer \in {"result", "unknown"}

\* run() returns only what a job of its own submission produced.
ReturnedIsOwnResult ==
    \A k \in Key : client[k].pc = "done" =>
        LET j == jobs[client[k].run]
        IN  j.key = k /\ j.result /\ j.status \in {"succeeded", "gone"}

\* A run() that raised after its cancel was answered left no job it knew of
\* running to its end (http_live.py:157-159): the job ended or is to be cancelled.
RaisedIsCancelled ==
    \A k \in Key : client[k].pc = "raised" /\ client[k].told =>
        LET j == jobs[client[k].run] IN j.status \in Terminal \cup {"gone"} \/ j.cancel

\* RUNNER_SPEC.md:108-110: "Submission carries the same unique `submission_id`
\* in the `Idempotency-Key` header and request body, so retrying a timed-out
\* POST cannot create a second rollout."
OneRolloutPerSubmission ==
    \A r1, r2 \in Run : Known(r1) /\ Known(r2) /\ jobs[r1].key = jobs[r2].key => r1 = r2

\* run() returns or raises, whatever the service and the network do.
EveryClientEnds == \A k \in Key : <>(client[k].pc \in Ended)

\* The clients ask nothing of the service that its specification does not cover.
ServiceSpec == Spec
==============================================================================
