---------------------------- MODULE RunnerService ----------------------------
(* The live runner service of rerun/http_service.py: the handlers of one       *)
(* FastAPI application, each call on a thread of its own, and the thread pool  *)
(* that runs the actor. Every step between two points where another thread may *)
(* interfere is an action; a critical section of the lock is one action unless *)
(* a handler that does not take the lock can see into it.                      *)
EXTENDS Naturals, Sequences

CONSTANTS
    Run,            \* run ids: http_run_<uuid4>, never handed out twice
    Key,            \* idempotency keys (submission ids)
    Call,           \* requests being served at once
    Worker,         \* the threads of the pool: max_concurrency
    None,           \* Python's None
    MaxRestarts     \* bound on the times the service is restarted

ASSUME RunnerAssumption ==
    /\ None \notin Run /\ None \notin Key /\ None \notin Worker /\ None \notin Call
    /\ MaxRestarts \in Nat

VARIABLES
    jobs,           \* run id -> _Job
    submissions,    \* idempotency key -> run id
    queue,          \* jobs handed to the pool, not yet taken
    worker,         \* what each thread of the pool is doing
    lock,           \* the thread holding the lock across two actions, or None
    calls,          \* the requests being served
    restarts

vars == <<jobs, submissions, queue, worker, lock, calls, restarts>>

Terminal == {"succeeded", "failed", "cancelled"}
JobStatus == {"none", "queued", "running"} \cup Terminal \cup {"gone"}
Kinds == {"submit", "status", "cancel", "fetch"}
Answers == JobStatus \cup {"unknown", "refused", "result"}

NoJob == [key |-> None, status |-> "none", cancel |-> FALSE, result |-> FALSE]
Idle == [pc |-> "idle", run |-> None]
Free == [pc |-> "free", kind |-> "status", key |-> None, run |-> None, answer |-> "none"]

Jobs == [key : Key \cup {None}, status : JobStatus, cancel : BOOLEAN, result : BOOLEAN]
Workers == [pc : {"idle", "starting", "running", "storing"}, run : Run \cup {None}]
CallPCs == {"free", "check", "register", "enqueue", "get", "read", "fetch", "result",
            "set", "settle", "answered"}
Calls == [pc : CallPCs, kind : Kinds, key : Key \cup {None}, run : Run \cup {None},
          answer : Answers]

Known(r) == r \in Run /\ jobs[r].status \notin {"none", "gone"}

Init ==
    /\ jobs = [r \in Run |-> NoJob]
    /\ submissions = [k \in Key |-> None]
    /\ queue = <<>>
    /\ worker = [w \in Worker |-> Idle]
    /\ lock = None
    /\ calls = [c \in Call |-> Free]
    /\ restarts = 0

Become(c, x) == calls' = [calls EXCEPT ![c] = x]
Go(c, pc) == Become(c, [calls[c] EXCEPT !.pc = pc])
Answer(c, a) == Become(c, [calls[c] EXCEPT !.pc = "answered", !.answer = a])
------------------------------------------------------------------------------
(* The handlers. *)

\* A request reaches the service: a submission names its key, the others a run.
Arrive(c, kind, k, r) ==
    /\ calls[c].pc = "free"
    /\ Become(c, [pc |-> IF kind = "submit" THEN "check" ELSE "get",
                  kind |-> kind, key |-> k, run |-> r, answer |-> "none"])
    /\ UNCHANGED <<jobs, submissions, queue, worker, lock, restarts>>

\* submit, first critical section: the job the key already has, if any.
SubmitCheck(c) ==
    /\ calls[c].pc = "check"
    /\ lock = None
    /\ LET r == submissions[calls[c].key]
       IN  \/ Known(r) /\ Become(c, [calls[c] EXCEPT !.pc = "read", !.run = r])
           \/ ~Known(r) /\ Go(c, "register")
    /\ UNCHANGED <<jobs, submissions, queue, worker, lock, restarts>>

\* submit: the payload is invalid or its checkpoint policy is not supported.
SubmitReject(c) ==
    /\ calls[c].pc = "register"
    /\ Answer(c, "refused")
    /\ UNCHANGED <<jobs, submissions, queue, worker, lock, restarts>>

\* submit, second critical section: a new job becomes the job of the key.
SubmitRegister(c) ==
    /\ calls[c].pc = "register"
    /\ lock = None
    /\ \E r \in Run :
         /\ jobs[r].status = "none"
         /\ jobs' = [jobs EXCEPT ![r] = [NoJob EXCEPT !.key = calls[c].key, !.status = "queued"]]
         /\ submissions' = [submissions EXCEPT ![calls[c].key] = r]
         /\ Become(c, [calls[c] EXCEPT !.pc = "enqueue", !.run = r])
    /\ UNCHANGED <<queue, worker, lock, restarts>>

\* Mutant: the pool drops what it cannot hold.
EnqueueOrDrop(c) ==
    /\ calls[c].pc = "enqueue"
    /\ queue' = IF queue = <<>> THEN <<calls[c].run>> ELSE queue
    /\ Go(c, "read")
    /\ UNCHANGED <<jobs, submissions, worker, lock, restarts>>

\* submit: pool.submit.
Enqueue(c) ==
    /\ calls[c].pc = "enqueue"
    /\ queue' = Append(queue, calls[c].run)
    /\ Go(c, "read")
    /\ UNCHANGED <<jobs, submissions, worker, lock, restarts>>

\* Mutant: the lookup does not take the lock.
GetUnlocked(c) ==
    /\ calls[c].pc = "get"
    /\ \/ ~Known(calls[c].run) /\ Answer(c, "unknown")
       \/ Known(calls[c].run) /\ calls[c].kind = "fetch" /\ Go(c, "fetch")
       \/ Known(calls[c].run) /\ calls[c].kind = "cancel" /\ Go(c, "set")
       \/ Known(calls[c].run) /\ calls[c].kind = "status" /\ Go(c, "read")
    /\ UNCHANGED <<jobs, submissions, queue, worker, lock, restarts>>

\* get_job: the lookup of a run id, under the lock.
Get(c) ==
    /\ calls[c].pc = "get"
    /\ lock = None
    /\ \/ /\ ~Known(calls[c].run)
          /\ Answer(c, "unknown")
       \/ /\ Known(calls[c].run)
          /\ \/ calls[c].kind = "fetch" /\ Go(c, "fetch")
             \/ calls[c].kind = "cancel" /\ Go(c, "set")
             \/ calls[c].kind = "status" /\ Go(c, "read")
    /\ UNCHANGED <<jobs, submissions, queue, worker, lock, restarts>>

\* status_payload: the status is read without the lock.
ReadStatus(c) ==
    /\ calls[c].pc = "read"
    /\ Answer(c, jobs[calls[c].run].status)
    /\ UNCHANGED <<jobs, submissions, queue, worker, lock, restarts>>

\* trajectory: two reads without the lock, the status and then the result.
FetchStatus(c) ==
    /\ calls[c].pc = "fetch"
    /\ \/ jobs[calls[c].run].status = "succeeded" /\ Go(c, "result")
       \/ jobs[calls[c].run].status # "succeeded" /\ Answer(c, "refused")
    /\ UNCHANGED <<jobs, submissions, queue, worker, lock, restarts>>

FetchResult(c) ==
    /\ calls[c].pc = "result"
    /\ Answer(c, IF jobs[calls[c].run].result THEN "result" ELSE "refused")
    /\ UNCHANGED <<jobs, submissions, queue, worker, lock, restarts>>

\* Mutant: a running job is not told.
SetCancelQueued(c) ==
    /\ calls[c].pc = "set"
    /\ jobs' = [jobs EXCEPT ![calls[c].run].cancel = @ \/ jobs[calls[c].run].status = "queued"]
    /\ Go(c, "settle")
    /\ UNCHANGED <<submissions, queue, worker, lock, restarts>>

\* cancel: the event is set before the lock is taken.
SetCancel(c) ==
    /\ calls[c].pc = "set"
    /\ jobs' = [jobs EXCEPT ![calls[c].run].cancel = TRUE]
    /\ Go(c, "settle")
    /\ UNCHANGED <<submissions, queue, worker, lock, restarts>>

\* Mutant: a queued job is left to the pool.
SettleNothing(c) ==
    /\ calls[c].pc = "settle"
    /\ lock = None
    /\ Go(c, "read")
    /\ UNCHANGED <<jobs, submissions, queue, worker, lock, restarts>>

\* cancel: a job still queued ends here; a running one is left to its callback.
SettleCancel(c) ==
    /\ calls[c].pc = "settle"
    /\ lock = None
    /\ jobs' = [jobs EXCEPT ![calls[c].run].status = IF @ = "queued" THEN "cancelled" ELSE @]
    /\ Go(c, "read")
    /\ UNCHANGED <<submissions, queue, worker, lock, restarts>>

\* The response leaves the service.
Reply(c) ==
    /\ calls[c].pc = "answered"
    /\ Become(c, Free)
    /\ UNCHANGED <<jobs, submissions, queue, worker, lock, restarts>>
------------------------------------------------------------------------------
(* The pool: execute(). *)

Take(w) ==
    /\ worker[w].pc = "idle"
    /\ queue # <<>>
    /\ worker' = [worker EXCEPT ![w] = [pc |-> "starting", run |-> Head(queue)]]
    /\ queue' = Tail(queue)
    /\ UNCHANGED <<jobs, submissions, lock, calls, restarts>>

Start(w) ==
    /\ worker[w].pc = "starting"
    /\ lock = None
    /\ LET r == worker[w].run
       IN  \/ /\ jobs[r].cancel
              /\ jobs' = [jobs EXCEPT ![r].status = "cancelled"]
              /\ worker' = [worker EXCEPT ![w] = Idle]
           \/ /\ ~jobs[r].cancel
              /\ jobs' = [jobs EXCEPT ![r].status = "running"]
              /\ worker' = [worker EXCEPT ![w].pc = "running"]
    /\ UNCHANGED <<submissions, queue, lock, calls, restarts>>

\* Mutant: the result is kept before the event is looked at.
SucceedAnyway(w) ==
    /\ worker[w].pc = "running"
    /\ lock = None
    /\ jobs' = [jobs EXCEPT ![worker[w].run].status = "succeeded"]
    /\ worker' = [worker EXCEPT ![w].pc = "storing"]
    /\ lock' = w
    /\ UNCHANGED <<submissions, queue, calls, restarts>>

\* The callback returned a valid result. Of the two fields the lock protects,
\* status is written first and the readers see it before the result.
Succeed(w) ==
    /\ worker[w].pc = "running"
    /\ lock = None
    /\ LET r == worker[w].run
       IN  \/ /\ jobs[r].cancel
              /\ jobs' = [jobs EXCEPT ![r] = [@ EXCEPT !.status = "cancelled", !.result = FALSE]]
              /\ worker' = [worker EXCEPT ![w] = Idle]
              /\ UNCHANGED lock
           \/ /\ ~jobs[r].cancel
              /\ jobs' = [jobs EXCEPT ![r].status = "succeeded"]
              /\ worker' = [worker EXCEPT ![w].pc = "storing"]
              /\ lock' = w
    /\ UNCHANGED <<submissions, queue, calls, restarts>>

StoreResult(w) ==
    /\ worker[w].pc = "storing"
    /\ jobs' = [jobs EXCEPT ![worker[w].run].result = TRUE]
    /\ worker' = [worker EXCEPT ![w] = Idle]
    /\ lock' = None
    /\ UNCHANGED <<submissions, queue, calls, restarts>>

\* Mutant: an exception is a failure, cancelled or not.
FailAlways(w) ==
    /\ worker[w].pc = "running"
    /\ lock = None
    /\ jobs' = [jobs EXCEPT ![worker[w].run].status = "failed"]
    /\ worker' = [worker EXCEPT ![w] = Idle]
    /\ UNCHANGED <<submissions, queue, lock, calls, restarts>>

\* Mutant: the exception ends the thread's work and nothing is written down.
FailSilently(w) ==
    /\ worker[w].pc = "running"
    /\ lock = None
    /\ worker' = [worker EXCEPT ![w] = Idle]
    /\ UNCHANGED <<jobs, submissions, queue, lock, calls, restarts>>

\* The callback raised an Exception, or what it returned is no live result.
\* (SystemExit and the like are no Exception: they end the future and leave the
\* job running, which here is a callback that has not returned.)
Fail(w) ==
    /\ worker[w].pc = "running"
    /\ lock = None
    /\ LET r == worker[w].run
       IN  jobs' = [jobs EXCEPT ![r].status = IF jobs[r].cancel THEN "cancelled" ELSE "failed"]
    /\ worker' = [worker EXCEPT ![w] = Idle]
    /\ UNCHANGED <<submissions, queue, lock, calls, restarts>>

\* The process ends, killed or shut down (the lifespan drops what is queued), and
\* another starts with no jobs.
Restart ==
    /\ restarts < MaxRestarts
    /\ jobs' = [r \in Run |-> IF jobs[r].status = "none" THEN NoJob
                              ELSE [jobs[r] EXCEPT !.status = "gone"]]
    /\ submissions' = [k \in Key |-> None]
    /\ queue' = <<>>
    /\ worker' = [w \in Worker |-> Idle]
    /\ lock' = None
    /\ calls' = [c \in Call |-> Free]
    /\ restarts' = restarts + 1
------------------------------------------------------------------------------
\* Any client may ask: for a key, or for a run the service has handed out.
Requests(c) ==
    \/ \E k \in Key : Arrive(c, "submit", k, None)
    \/ \E kind \in Kinds \ {"submit"}, r \in Run :
         jobs[r].status # "none" /\ Arrive(c, kind, None, r)

Serve(c) ==
    \/ SubmitCheck(c) \/ SubmitReject(c) \/ SubmitRegister(c) \/ Enqueue(c)
    \/ Get(c) \/ ReadStatus(c) \/ FetchStatus(c) \/ FetchResult(c)
    \/ SetCancel(c) \/ SettleCancel(c)

Execute(w) == Take(w) \/ Start(w) \/ StoreResult(w)
Callback(w) == Succeed(w) \/ Fail(w)

Next ==
    \/ \E c \in Call : Requests(c) \/ Serve(c) \/ Reply(c)
    \/ \E w \in Worker : Execute(w) \/ Callback(w)
    \/ Restart

Spec == Init /\ [][Next]_vars

\* Handlers and pool threads are scheduled by the operating system. Nothing makes
\* the callback of the application return.
FairSpec ==
    /\ Spec
    /\ \A c \in Call : WF_vars(Serve(c))
    /\ \A w \in Worker : WF_vars(Execute(w))
CallbackReturns == \A w \in Worker : WF_vars(Callback(w))
------------------------------------------------------------------------------
(* The safety of the service, as the inductive invariant of RunnerProofs. *)

Starting(r) == {w \in Worker : worker[w].pc = "starting" /\ worker[w].run = r}
Enqueuing(r) == {c \in Call : calls[c].pc = "enqueue" /\ calls[c].run = r}
Queued(r) == {i \in DOMAIN queue : queue[i] = r}

TypeOK ==
    /\ jobs \in [Run -> Jobs]
    /\ submissions \in [Key -> Run \cup {None}]
    /\ queue \in Seq(Run)
    /\ worker \in [Worker -> Workers]
    /\ lock \in Worker \cup {None}
    /\ calls \in [Call -> Calls]
    /\ restarts \in Nat

\* The lock is held across actions by the thread that stores a result, only.
LockIsStoring == \A w \in Worker : lock = w <=> worker[w].pc = "storing"

\* A thread works on a job of this process, in the state it put it in.
WorkersOwnJobs ==
    \A w \in Worker : LET r == worker[w].run IN
        /\ worker[w].pc = "idle" <=> r = None
        /\ worker[w].pc = "starting" => jobs[r].status \in {"queued", "cancelled"}
        /\ worker[w].pc = "running" => jobs[r].status = "running"
        /\ worker[w].pc = "storing" => jobs[r].status = "succeeded"

\* A job is handed on, never shared: it is with one call about to enqueue it,
\* once in the queue, or with one thread.
RunsOnce ==
    /\ \A w1, w2 \in Worker : worker[w1].run = worker[w2].run /\ worker[w1].run # None => w1 = w2
    /\ \A i, j \in DOMAIN queue : queue[i] = queue[j] => i = j
    /\ \A c1, c2 \in Call :
          calls[c1].pc = "enqueue" /\ calls[c2].pc = "enqueue" /\ calls[c1].run = calls[c2].run => c1 = c2
    /\ \A i \in DOMAIN queue :
          /\ jobs[queue[i]].status \in {"queued", "cancelled"}
          /\ \A w \in Worker : worker[w].run # queue[i]
    /\ \A c \in Call : calls[c].pc = "enqueue" =>
          /\ calls[c].run \in Run
          /\ jobs[calls[c].run].status \in {"queued", "cancelled"}
          /\ \A w \in Worker : worker[w].run # calls[c].run
          /\ \A i \in DOMAIN queue : queue[i] # calls[c].run

\* A result is there exactly when the job succeeded, outside the lock.
ResultOfSuccess ==
    \A r \in Run :
        /\ jobs[r].result => jobs[r].status \in {"succeeded", "gone"}
        /\ jobs[r].status = "succeeded" =>
              jobs[r].result \/ \E w \in Worker : worker[w].pc = "storing" /\ worker[w].run = r

\* Only a requested cancellation cancels a job; an unborn job has no request.
CancelledWasRequested ==
    \A r \in Run :
        /\ jobs[r].status = "cancelled" => jobs[r].cancel
        /\ jobs[r].status = "none" => jobs[r] = NoJob

\* The calls past get_job work on a job the service knows, each in its handler.
CallsOwnJobs ==
    \A c \in Call :
        /\ calls[c].pc \in {"check", "register", "enqueue"} => calls[c].kind = "submit"
        /\ calls[c].pc \in {"fetch", "result"} => calls[c].kind = "fetch"
        /\ calls[c].pc \in {"set", "settle"} => calls[c].kind = "cancel"
        /\ calls[c].pc \in {"read", "fetch", "result", "set", "settle"} => Known(calls[c].run)
        /\ calls[c].pc \in {"check", "register"} => calls[c].key \in Key
        /\ calls[c].pc = "result" => jobs[calls[c].run].status = "succeeded"
        /\ calls[c].pc = "settle" => jobs[calls[c].run].cancel

IInv ==
    /\ TypeOK /\ LockIsStoring /\ WorkersOwnJobs /\ RunsOnce
    /\ ResultOfSuccess /\ CancelledWasRequested /\ CallsOwnJobs

\* No job is stranded (http_service.py:223-228): one that is queued is on its
\* way to the pool, in it, or with one of its threads.
QueuedIsPending ==
    \A r \in Run : jobs[r].status = "queued" =>
        Enqueuing(r) # {} \/ Queued(r) # {} \/ Starting(r) # {}

\* A cancel that was answered holds (http_service.py:239-251): the job is not
\* queued any more, and if it was still running then it can only be cancelled.
CancelIsBinding ==
    \A c \in Call : calls[c].kind = "cancel" /\ calls[c].pc = "answered" /\ calls[c].answer # "unknown" =>
        /\ jobs[calls[c].run].cancel
        /\ jobs[calls[c].run].status # "queued"
        /\ calls[c].answer = "running" => jobs[calls[c].run].status \in {"running", "cancelled"}

\* The jobs of the service live the life RUNNER_SPEC.md promises, whatever the
\* order in which handlers and threads get at them.
Life == INSTANCE JobLifecycle WITH
    status <- [r \in Run |-> jobs[r].status],
    requested <- {r \in Run : jobs[r].cancel}
LifeSpec == Life!Spec

\* Every submitted job reaches a status a client stops polling at, when the
\* callback of the application returns or raises an Exception (execute,
\* http_service.py:162).
EveryJobEnds ==
    CallbackReturns => \A r \in Run : jobs[r].status = "queued" ~> jobs[r].status \in Terminal \cup {"gone"}

\* A queued job whose cancellation is requested ends although every thread of
\* the pool is stuck in a callback that never returns.
CancelledJobLeavesQueue ==
    \A r \in Run : jobs[r].status = "queued" /\ jobs[r].cancel ~> jobs[r].status # "queued"
==============================================================================
