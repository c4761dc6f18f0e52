----------------------------- MODULE RunnerProofs -----------------------------
(* Theorems about the runner service for every number of runs, keys, calls and *)
(* pool threads.                                                               *)
EXTENDS RunnerService, SequenceTheorems, TLAPS

\* What a step may do to the record of a call keeps it one.
LEMMA CallFields ==
    ASSUME NEW x \in Calls, NEW pc \in CallPCs
    PROVE  /\ [x EXCEPT !.pc = pc] \in Calls
           /\ \A a \in Answers : [x EXCEPT !.pc = pc, !.answer = a] \in Calls
           /\ \A r \in Run \cup {None} : [x EXCEPT !.pc = pc, !.run = r] \in Calls
  <1> DEFINE y == [x EXCEPT !.pc = pc]
  <1>1. y \in Calls
    BY DEF Calls
  <1>2. /\ \A a \in Answers : [y EXCEPT !.answer = a] \in Calls
        /\ \A r \in Run \cup {None} : [y EXCEPT !.run = r] \in Calls
    <2> HIDE DEF y
    <2> QED BY <1>1 DEF Calls
  <1> QED BY <1>1, <1>2

LEMMA BecomeType ==
    ASSUME TypeOK, NEW c \in Call, NEW x \in Calls, Become(c, x)
    PROVE  calls' \in [Call -> Calls]
  BY DEF TypeOK, Become

\* What a step may do to a job keeps it one.
LEMMA JobFields ==
    ASSUME NEW j \in Jobs
    PROVE  /\ \A s \in JobStatus : [j EXCEPT !.status = s] \in Jobs
           /\ [j EXCEPT !.cancel = TRUE] \in Jobs
           /\ [j EXCEPT !.result = TRUE] \in Jobs
           /\ \A s \in JobStatus : [j EXCEPT !.status = s, !.result = FALSE] \in Jobs
           /\ \A k \in Key, s \in JobStatus : [j EXCEPT !.key = k, !.status = s] \in Jobs
  BY DEF Jobs

LEMMA Constants == NoJob \in Jobs /\ Idle \in Workers /\ Free \in Calls
  BY DEF NoJob, Jobs, JobStatus, Idle, Workers, Free, Calls, CallPCs, Kinds, Answers

\* Every handler and every thread keeps the types of the state.
LEMMA TypeNext ==
    ASSUME TypeOK, WorkersOwnJobs, RunsOnce, CallsOwnJobs, [Next]_vars
    PROVE  TypeOK'
  <1>a. ASSUME NEW c \in Call, NEW x \in Calls, Become(c, x),
               UNCHANGED <<jobs, submissions, queue, worker, lock, restarts>>
        PROVE  TypeOK'
    BY <1>a, BecomeType DEF TypeOK
  <1>b. ASSUME NEW c \in Call PROVE calls[c] \in Calls
    BY DEF TypeOK
  <1>e. ASSUME NEW r \in Run, NEW j \in Jobs, jobs' = [jobs EXCEPT ![r] = j]
        PROVE  jobs' \in [Run -> Jobs]
    BY <1>e DEF TypeOK
  <1>f. ASSUME NEW r \in Run
        PROVE  /\ \A t \in JobStatus : [jobs[r] EXCEPT !.status = t] \in Jobs
               /\ [jobs[r] EXCEPT !.cancel = TRUE] \in Jobs
               /\ [jobs[r] EXCEPT !.result = TRUE] \in Jobs
               /\ [jobs[r] EXCEPT !.status = "cancelled", !.result = FALSE] \in Jobs
    <2>1. jobs[r] \in Jobs
      BY DEF TypeOK
    <2> QED BY <2>1, JobFields DEF JobStatus, Terminal
  <1>g. ASSUME NEW w \in Worker, worker[w].pc # "idle" PROVE worker[w].run \in Run
    BY <1>g DEF WorkersOwnJobs, TypeOK, Workers
  <1>h. \A r \in Run : jobs[r].status \in JobStatus
    BY DEF TypeOK, Jobs
  <1>1. ASSUME NEW c \in Call, Requests(c) PROVE TypeOK'
    <2>1. ASSUME NEW kind \in Kinds, NEW k \in Key \cup {None}, NEW r \in Run \cup {None},
                 Arrive(c, kind, k, r)
          PROVE  TypeOK'
      <3>1. [pc |-> IF kind = "submit" THEN "check" ELSE "get",
             kind |-> kind, key |-> k, run |-> r, answer |-> "none"] \in Calls
        BY DEF Calls, CallPCs, Answers, JobStatus
      <3> QED BY <2>1, <3>1, <1>a DEF Arrive
    <2> QED BY <1>1, <2>1 DEF Requests, Kinds
  <1>2. ASSUME NEW c \in Call, SubmitCheck(c) PROVE TypeOK'
    <2>1. \A r : Known(r) => [calls[c] EXCEPT !.pc = "read", !.run = r] \in Calls
      BY <1>b, CallFields DEF Known, CallPCs
    <2>2. [calls[c] EXCEPT !.pc = "register"] \in Calls
      BY <1>b, CallFields DEF CallPCs
    <2> QED BY <1>2, <1>a, <2>1, <2>2 DEF SubmitCheck, Go
  <1>c. ASSUME NEW c \in Call, NEW a \in Answers, Answer(c, a),
               UNCHANGED <<jobs, submissions, queue, worker, lock, restarts>>
        PROVE  TypeOK'
    BY <1>c, <1>b, <1>a, CallFields DEF Answer, CallPCs
  <1>d. ASSUME NEW c \in Call, NEW pc \in CallPCs, Go(c, pc)
        PROVE  calls' \in [Call -> Calls]
    BY <1>d, <1>b, BecomeType, CallFields DEF Go
  <1>3. ASSUME NEW c \in Call, Reply(c) \/ SubmitReject(c) PROVE TypeOK'
    BY <1>3, <1>a, <1>c, Constants DEF Reply, SubmitReject, Answers
  <1>4. ASSUME NEW c \in Call, SubmitRegister(c) PROVE TypeOK'
    <2>1. calls[c].key \in Key
      BY <1>4 DEF SubmitRegister, CallsOwnJobs
    <2>2. PICK r \in Run :
            /\ jobs' = [jobs EXCEPT ![r] = [NoJob EXCEPT !.key = calls[c].key, !.status = "queued"]]
            /\ submissions' = [submissions EXCEPT ![calls[c].key] = r]
            /\ Become(c, [calls[c] EXCEPT !.pc = "enqueue", !.run = r])
      BY <1>4 DEF SubmitRegister
    <2>3. calls' \in [Call -> Calls]
      BY <2>2, <1>b, CallFields, BecomeType DEF CallPCs
    <2>4. [NoJob EXCEPT !.key = calls[c].key, !.status = "queued"] \in Jobs
      BY <2>1, Constants, JobFields DEF JobStatus
    <2> QED BY <1>4, <2>1, <2>2, <2>3, <2>4 DEF SubmitRegister, TypeOK
  <1>5. ASSUME NEW c \in Call, Enqueue(c) PROVE TypeOK'
    <2>1. calls[c].run \in Run
      BY <1>5 DEF Enqueue, RunsOnce
    <2>2. queue' \in Seq(Run)
      BY <1>5, <2>1, AppendProperties DEF Enqueue, TypeOK
    <2> QED BY <1>5, <1>d, <2>2 DEF Enqueue, TypeOK, CallPCs
  <1>6. ASSUME NEW c \in Call, Get(c) PROVE TypeOK'
    BY <1>6, <1>c, <1>d DEF Get, Answers, CallPCs, TypeOK
  <1>7. ASSUME NEW c \in Call, ReadStatus(c) \/ FetchStatus(c) \/ FetchResult(c) PROVE TypeOK'
    <2>1. calls[c].pc = "read" => jobs[calls[c].run].status \in Answers
      BY DEF CallsOwnJobs, Known, TypeOK, Jobs, Answers
    <2> QED BY <1>7, <1>c, <1>d, <2>1 DEF ReadStatus, FetchStatus, FetchResult, Answers, CallPCs, TypeOK
  <1>8. ASSUME NEW c \in Call, SetCancel(c) \/ SettleCancel(c) PROVE TypeOK'
    <2>1. calls' \in [Call -> Calls]
      BY <1>8, <1>d DEF SetCancel, SettleCancel, CallPCs
    <2>2. jobs' \in [Run -> Jobs]
      <3>1. calls[c].run \in Run
        BY <1>8 DEF SetCancel, SettleCancel, CallsOwnJobs, Known
      <3> QED BY <1>8, <1>e, <1>f, <1>h, <3>1 DEF SetCancel, SettleCancel, JobStatus, Terminal
    <2> QED BY <1>8, <2>1, <2>2 DEF SetCancel, SettleCancel, TypeOK
  <1>9. ASSUME NEW w \in Worker, Take(w) PROVE TypeOK'
    <2>1. Head(queue) \in Run /\ queue' \in Seq(Run)
      BY <1>9, HeadTailProperties DEF Take, TypeOK
    <2> QED BY <1>9, <2>1 DEF Take, TypeOK, Workers
  <1>10. ASSUME NEW w \in Worker, Start(w) \/ StoreResult(w) PROVE TypeOK'
    <2>1. jobs' \in [Run -> Jobs]
      <3>1. worker[w].run \in Run
        BY <1>10, <1>g DEF Start, StoreResult
      <3> QED BY <1>10, <1>e, <1>f, <3>1 DEF Start, StoreResult, JobStatus, Terminal
    <2>2. worker' \in [Worker -> Workers]
      BY <1>10, Constants DEF Start, StoreResult, TypeOK, Workers
    <2> QED BY <1>10, <2>1, <2>2 DEF Start, StoreResult, TypeOK
  <1>11. ASSUME NEW w \in Worker, Callback(w) PROVE TypeOK'
    <2>1. jobs' \in [Run -> Jobs]
      <3>1. worker[w].run \in Run
        BY <1>11, <1>g DEF Callback, Succeed, Fail
      <3> QED BY <1>11, <1>e, <1>f, <3>1 DEF Callback, Succeed, Fail, JobStatus, Terminal
    <2>2. worker' \in [Worker -> Workers]
      BY <1>11, Constants DEF Callback, Succeed, Fail, TypeOK, Workers
    <2> QED BY <1>11, <2>1, <2>2 DEF Callback, Succeed, Fail, TypeOK
  <1>12. CASE Restart
    <2>1. jobs' \in [Run -> Jobs]
      BY <1>12, JobFields, Constants DEF Restart, TypeOK, JobStatus
    <2>2. queue' \in Seq(Run)
      BY <1>12 DEF Restart
    <2> QED BY <1>12, <2>1, <2>2, Constants DEF Restart, TypeOK
  <1>13. CASE UNCHANGED vars
    BY <1>13 DEF vars, TypeOK
  <1> QED BY <1>1, <1>2, <1>3, <1>4, <1>5, <1>6, <1>7, <1>8, <1>9, <1>10, <1>11, <1>12, <1>13
          DEF Next, Serve, Execute

Rest == LockIsStoring /\ WorkersOwnJobs /\ RunsOnce /\ ResultOfSuccess /\ CancelledWasRequested /\ CallsOwnJobs

\* One call moves and nothing else: its new place must suit the jobs.
LEMMA CallMoves ==
    ASSUME IInv, NEW c \in Call, NEW x \in Calls, Become(c, x),
           UNCHANGED <<jobs, submissions, queue, worker, lock, restarts>>,
           x.pc # "enqueue",
           x.pc \in {"read", "fetch", "result", "set", "settle"} => Known(x.run),
           x.pc \in {"check", "register"} => x.key \in Key /\ x.kind = "submit",
           x.pc \in {"fetch", "result"} => x.kind = "fetch",
           x.pc \in {"set", "settle"} => x.kind = "cancel",
           x.pc = "result" => jobs[x.run].status = "succeeded",
           x.pc = "settle" => jobs[x.run].cancel
    PROVE  Rest'
  <1>1. \A d \in Call : calls'[d] = IF d = c THEN x ELSE calls[d]
    BY DEF Become, IInv, TypeOK
  <1>2. LockIsStoring' /\ WorkersOwnJobs' /\ ResultOfSuccess' /\ CancelledWasRequested'
    BY DEF IInv, LockIsStoring, WorkersOwnJobs, ResultOfSuccess, CancelledWasRequested
  <1>3. RunsOnce'
    BY <1>1 DEF IInv, RunsOnce
  <1>4. CallsOwnJobs'
    BY <1>1 DEF IInv, CallsOwnJobs, Known
  <1> QED BY <1>2, <1>3, <1>4 DEF Rest

LEMMA CallFieldValues ==
    ASSUME NEW x \in Calls, NEW pc \in CallPCs
    PROVE  /\ [x EXCEPT !.pc = pc].pc = pc
           /\ [x EXCEPT !.pc = pc].run = x.run
           /\ [x EXCEPT !.pc = pc].key = x.key
           /\ [x EXCEPT !.pc = pc].kind = x.kind
           /\ \A a \in Answers : [x EXCEPT !.pc = pc, !.answer = a].pc = pc
           /\ \A r \in Run \cup {None} :
                /\ [x EXCEPT !.pc = pc, !.run = r].pc = pc
                /\ [x EXCEPT !.pc = pc, !.run = r].run = r
                /\ [x EXCEPT !.pc = pc, !.run = r].key = x.key
  BY DEF Calls

\* The handlers that change no job.
LEMMA ReadersKeepIInv ==
    ASSUME IInv, NEW c \in Call,
           \/ Requests(c) \/ Reply(c) \/ SubmitCheck(c) \/ SubmitReject(c) \/ Get(c)
           \/ ReadStatus(c) \/ FetchStatus(c) \/ FetchResult(c)
    PROVE  Rest'
  <1>1. calls[c] \in Calls
    BY DEF IInv, TypeOK
  <1>2. \A a \in Answers : Answer(c, a) /\ UNCHANGED <<jobs, submissions, queue, worker, lock, restarts>> => Rest'
    <2> TAKE a \in Answers
    <2>1. [calls[c] EXCEPT !.pc = "answered", !.answer = a] \in Calls
      BY <1>1, CallFields DEF CallPCs
    <2>2. [calls[c] EXCEPT !.pc = "answered", !.answer = a].pc = "answered"
      BY <1>1, CallFieldValues DEF CallPCs
    <2> QED BY <2>1, <2>2, CallMoves DEF Answer
  <1>3. ASSUME NEW pc \in CallPCs, Go(c, pc), UNCHANGED <<jobs, submissions, queue, worker, lock, restarts>>,
               pc # "enqueue", pc # "settle",
               pc \in {"read", "fetch", "result", "set"} => Known(calls[c].run),
               pc \in {"check", "register"} => calls[c].key \in Key /\ calls[c].kind = "submit",
               pc \in {"fetch", "result"} => calls[c].kind = "fetch",
               pc = "set" => calls[c].kind = "cancel",
               pc = "result" => jobs[calls[c].run].status = "succeeded"
        PROVE  Rest'
    <2>1. /\ [calls[c] EXCEPT !.pc = pc] \in Calls
          /\ [calls[c] EXCEPT !.pc = pc].pc = pc
          /\ [calls[c] EXCEPT !.pc = pc].run = calls[c].run
          /\ [calls[c] EXCEPT !.pc = pc].key = calls[c].key
          /\ [calls[c] EXCEPT !.pc = pc].kind = calls[c].kind
      BY <1>1, CallFields, CallFieldValues
    <2> QED BY <2>1, <1>3, CallMoves DEF Go
  <1>4. CASE Requests(c)
    <2>1. ASSUME NEW kind \in Kinds, NEW k \in Key \cup {None}, NEW r \in Run \cup {None},
                 kind = "submit" => k \in Key, Arrive(c, kind, k, r)
          PROVE  Rest'
      <3> DEFINE x == [pc |-> IF kind = "submit" THEN "check" ELSE "get",
                       kind |-> kind, key |-> k, run |-> r, answer |-> "none"]
      <3>1. x \in Calls /\ x.pc \in {"check", "get"} /\ (x.pc = "check" => x.key \in Key /\ x.kind = "submit")
        BY <2>1 DEF Calls, CallPCs, Answers, JobStatus
      <3>2. Become(c, x) /\ UNCHANGED <<jobs, submissions, queue, worker, lock, restarts>>
        BY <2>1 DEF Arrive
      <3> HIDE DEF x
      <3> QED BY <3>1, <3>2, CallMoves
    <2> QED BY <1>4, <2>1 DEF Requests, Kinds
  <1>5. CASE Reply(c)
    BY <1>5, Constants, CallMoves DEF Reply, Free
  <1>6. CASE SubmitCheck(c)
    <2> DEFINE r == submissions[calls[c].key]
    <2>1. CASE Known(r)
      <3>1. r \in Run
        BY <2>1 DEF Known
      <3>2. [calls[c] EXCEPT !.pc = "read", !.run = r] \in Calls
        BY <1>1, <3>1, CallFields DEF CallPCs
      <3>3. /\ [calls[c] EXCEPT !.pc = "read", !.run = r].pc = "read"
            /\ [calls[c] EXCEPT !.pc = "read", !.run = r].run = r
        BY <1>1, <3>1, CallFieldValues DEF CallPCs
      <3> QED BY <1>6, <2>1, <3>2, <3>3, CallMoves DEF SubmitCheck
    <2>2. CASE ~Known(r)
      <3>1. calls[c].key \in Key /\ calls[c].kind = "submit"
        BY <1>6 DEF SubmitCheck, IInv, CallsOwnJobs
      <3> QED BY <1>6, <2>2, <3>1, <1>3 DEF SubmitCheck, CallPCs
    <2> QED BY <2>1, <2>2
  <1>7. CASE SubmitReject(c)
    BY <1>7, <1>2 DEF SubmitReject, Answers
  <1>8. CASE Get(c)
    BY <1>8, <1>2, <1>3 DEF Get, Answers, CallPCs
  <1>9. CASE ReadStatus(c)
    <2>1. jobs[calls[c].run].status \in Answers
      BY <1>9 DEF ReadStatus, IInv, CallsOwnJobs, Known, TypeOK, Jobs, Answers
    <2> QED BY <1>9, <2>1, <1>2 DEF ReadStatus
  <1>10. CASE FetchStatus(c)
    <2>1. Known(calls[c].run) /\ calls[c].kind = "fetch"
      BY <1>10 DEF FetchStatus, IInv, CallsOwnJobs
    <2> QED BY <1>10, <2>1, <1>2, <1>3 DEF FetchStatus, Answers, CallPCs
  <1>11. CASE FetchResult(c)
    BY <1>11, <1>2 DEF FetchResult, Answers
  <1> QED BY <1>4, <1>5, <1>6, <1>7, <1>8, <1>9, <1>10, <1>11

\* submit hands a new job on: no other call, thread or queue entry has it.
LEMMA SubmitKeepsIInv ==
    ASSUME IInv, NEW c \in Call, SubmitRegister(c) \/ Enqueue(c)
    PROVE  Rest'
  <1> USE DEF IInv
  <1>1. CASE SubmitRegister(c)
    <2>1. PICK r \in Run :
            /\ jobs[r].status = "none"
            /\ jobs' = [jobs EXCEPT ![r] = [NoJob EXCEPT !.key = calls[c].key, !.status = "queued"]]
            /\ Become(c, [calls[c] EXCEPT !.pc = "enqueue", !.run = r])
      BY <1>1 DEF SubmitRegister
    <2>2. /\ jobs'[r].status = "queued"
          /\ \A q \in Run : q # r => jobs'[q] = jobs[q]
          /\ jobs'[r].result = FALSE
      BY <2>1 DEF TypeOK, NoJob
    <2>3. /\ calls'[c].pc = "enqueue" /\ calls'[c].run = r /\ calls'[c].kind = calls[c].kind
          /\ \A d \in Call : d # c => calls'[d] = calls[d]
      BY <2>1 DEF TypeOK, Become, Calls
    <2>4. UNCHANGED <<queue, worker, lock>>
      BY <1>1 DEF SubmitRegister
    <2>5. LockIsStoring'
      BY <2>4 DEF LockIsStoring
    <2>6. WorkersOwnJobs'
      BY <2>1, <2>2, <2>4 DEF WorkersOwnJobs, TypeOK, Workers
    <2>7. RunsOnce'
      <3>1. \A w \in Worker : worker[w].run # r
        BY <2>1, RunnerAssumption DEF WorkersOwnJobs, TypeOK, Workers
      <3>2. \A i \in DOMAIN queue : queue[i] # r
        BY <2>1 DEF RunsOnce
      <3>3. \A d \in Call : calls[d].pc = "enqueue" => calls[d].run # r
        BY <2>1 DEF RunsOnce
      <3>4. \A i \in DOMAIN queue : queue[i] \in Run
        BY DEF TypeOK
      <3> QED BY <2>1, <2>2, <2>3, <2>4, <3>1, <3>2, <3>3, <3>4 DEF RunsOnce
    <2>8. ResultOfSuccess'
      BY <2>2, <2>4 DEF ResultOfSuccess
    <2>9. CancelledWasRequested'
      BY <2>2 DEF CancelledWasRequested
    <2>10. CallsOwnJobs'
      <3>1. calls[c].kind = "submit"
        BY <1>1 DEF SubmitRegister, CallsOwnJobs
      <3> QED BY <2>1, <2>2, <2>3, <3>1 DEF CallsOwnJobs, Known
    <2> QED BY <2>5, <2>6, <2>7, <2>8, <2>9, <2>10 DEF Rest
  <1>2. CASE Enqueue(c)
    <2> DEFINE r == calls[c].run
    <2>1. /\ calls[c].pc = "enqueue" /\ r \in Run
          /\ jobs[r].status \in {"queued", "cancelled"}
          /\ \A w \in Worker : worker[w].run # r
          /\ \A i \in DOMAIN queue : queue[i] # r
      BY <1>2 DEF Enqueue, RunsOnce
    <2>2. /\ calls'[c].pc = "read" /\ calls'[c].run = r
          /\ \A d \in Call : d # c => calls'[d] = calls[d]
      BY <1>2 DEF TypeOK, Enqueue, Go, Become, Calls
    <2>3. UNCHANGED <<jobs, submissions, worker, lock>>
      BY <1>2 DEF Enqueue
    <2>4. /\ DOMAIN queue = 1..Len(queue) /\ DOMAIN queue' = 1..(Len(queue) + 1) /\ Len(queue) \in Nat
          /\ queue'[Len(queue) + 1] = r
          /\ \A i \in 1..Len(queue) : queue'[i] = queue[i]
      BY <1>2, <2>1, AppendProperties, LenProperties DEF Enqueue, TypeOK
    <2>5. LockIsStoring' /\ WorkersOwnJobs' /\ ResultOfSuccess' /\ CancelledWasRequested'
      BY <2>3 DEF LockIsStoring, WorkersOwnJobs, ResultOfSuccess, CancelledWasRequested
    <2>6. RunsOnce'
      <3>1. \A d \in Call : d # c /\ calls[d].pc = "enqueue" => calls[d].run # r
        BY <2>1 DEF RunsOnce
      <3>2. \A i \in DOMAIN queue' : \/ i \in DOMAIN queue /\ queue'[i] = queue[i]
                                     \/ i = Len(queue) + 1 /\ queue'[i] = r
        <4>1. \A i \in 1..(Len(queue) + 1) : i \in 1..Len(queue) \/ i = Len(queue) + 1
          BY <2>4
        <4> TAKE i \in DOMAIN queue'
        <4>2. i \in 1..(Len(queue) + 1)
          BY <2>4
        <4>3. CASE i \in 1..Len(queue)
          BY <2>4, <4>3
        <4>4. CASE i = Len(queue) + 1
          BY <2>4, <4>4
        <4> QED BY <4>1, <4>2, <4>3, <4>4
      <3>3. \A i, j \in DOMAIN queue' : queue'[i] = queue'[j] => i = j
        BY <3>2, <2>1 DEF RunsOnce
      <3>4. \A i \in DOMAIN queue' : /\ jobs[queue'[i]].status \in {"queued", "cancelled"}
                                     /\ \A w \in Worker : worker[w].run # queue'[i]
        BY <3>2, <2>1 DEF RunsOnce
      <3>5. \A d \in Call : calls'[d].pc = "enqueue" => d # c /\ calls'[d] = calls[d]
        BY <2>2
      <3>6. \A d \in Call : calls'[d].pc = "enqueue" => \A i \in DOMAIN queue' : queue'[i] # calls'[d].run
        BY <3>1, <3>2, <3>5 DEF RunsOnce
      <3> QED BY <2>3, <3>3, <3>4, <3>5, <3>6 DEF RunsOnce
    <2>7. CallsOwnJobs'
      BY <2>1, <2>2, <2>3 DEF CallsOwnJobs, Known
    <2> QED BY <2>5, <2>6, <2>7 DEF Rest
  <1> QED BY <1>1, <1>2

\* cancel touches the event of a job, and the status of one still queued.
LEMMA CancelKeepsIInv ==
    ASSUME IInv, NEW c \in Call, SetCancel(c) \/ SettleCancel(c)
    PROVE  Rest'
  <1> USE DEF IInv
  <1> DEFINE r == calls[c].run
  <1>1. r \in Run /\ Known(r)
    BY DEF SetCancel, SettleCancel, CallsOwnJobs, Known
  <1>2. UNCHANGED <<queue, worker, lock>>
    BY DEF SetCancel, SettleCancel
  <1>3. \A d \in Call : /\ calls'[d].run = calls[d].run /\ calls'[d].key = calls[d].key
                        /\ calls'[d].kind = calls[d].kind
                        /\ d # c => calls'[d].pc = calls[d].pc
    BY DEF SetCancel, SettleCancel, Go, Become, TypeOK, Calls
  <1>4. /\ \/ calls[c].pc = "set" /\ calls'[c].pc = "settle"
           \/ calls[c].pc = "settle" /\ calls'[c].pc = "read"
        /\ calls'[c].pc # "enqueue"
    <2>1. CASE SetCancel(c)
      BY <2>1 DEF SetCancel, Go, Become, TypeOK, Calls
    <2>2. CASE SettleCancel(c)
      BY <2>2 DEF SettleCancel, Go, Become, TypeOK, Calls
    <2> QED BY <2>1, <2>2
  <1>5. \A q \in Run : /\ jobs'[q].result = jobs[q].result
                       /\ q # r => jobs'[q] = jobs[q]
                       /\ jobs[q].cancel => jobs'[q].cancel
    <2>1. CASE SetCancel(c)
      BY <1>1, <2>1 DEF SetCancel, TypeOK, Jobs
    <2>2. CASE SettleCancel(c)
      BY <1>1, <2>2 DEF SettleCancel, TypeOK, Jobs
    <2> QED BY <2>1, <2>2
  <1>6. \/ jobs'[r].status = jobs[r].status
        \/ jobs[r].status = "queued" /\ jobs'[r].status = "cancelled"
    BY <1>1 DEF SetCancel, SettleCancel, TypeOK, Jobs
  <1>7. calls'[c].pc = "settle" => jobs'[r].cancel
    BY <1>1, <1>4 DEF SetCancel, SettleCancel, TypeOK, Jobs
  <1>8. calls[c].pc = "settle" => jobs[r].cancel /\ jobs'[r].cancel
    BY <1>1, <1>5 DEF CallsOwnJobs
  <1>9. calls[c].pc = "set" => jobs'[r].status = jobs[r].status
    BY <1>1 DEF SetCancel, SettleCancel, TypeOK, Jobs
  <1>10. \A q \in Run : /\ jobs[q].status \in {"queued", "cancelled"} => jobs'[q].status \in {"queued", "cancelled"}
                        /\ jobs[q].status \notin {"queued", "cancelled"} => jobs'[q].status = jobs[q].status
                        /\ Known(q) => jobs'[q].status \notin {"none", "gone"}
    BY <1>5, <1>6 DEF Known
  <1>11. LockIsStoring'
    BY <1>2 DEF LockIsStoring
  <1>12. WorkersOwnJobs'
    BY <1>2, <1>10, RunnerAssumption DEF WorkersOwnJobs, TypeOK, Workers
  <1>13. RunsOnce'
    <2>1. \A i \in DOMAIN queue : queue[i] \in Run
      BY DEF TypeOK
    <2>2. \A d \in Call : calls'[d].pc = "enqueue" => calls[d].pc = "enqueue"
      BY <1>3, <1>4
    <2> QED BY <1>2, <1>3, <1>10, <2>1, <2>2 DEF RunsOnce
  <1>14. ResultOfSuccess'
    BY <1>2, <1>5, <1>10 DEF ResultOfSuccess
  <1>15. CancelledWasRequested'
    BY <1>1, <1>4, <1>5, <1>6, <1>8, <1>9 DEF CancelledWasRequested, Known
  <1>16. CallsOwnJobs'
    BY <1>3, <1>4, <1>5, <1>7, <1>10 DEF CallsOwnJobs, Known
  <1> QED BY <1>11, <1>12, <1>13, <1>14, <1>15, <1>16 DEF Rest

\* A thread takes the job at the head of the queue.
LEMMA TakeKeepsIInv ==
    ASSUME IInv, NEW w \in Worker, Take(w)
    PROVE  Rest'
  <1> USE DEF IInv
  <1> DEFINE r == Head(queue)
  <1>1. UNCHANGED <<jobs, submissions, lock, calls>>
    BY DEF Take
  <1>2. /\ worker[w].pc = "idle" /\ worker'[w].pc = "starting" /\ worker'[w].run = r
        /\ \A v \in Worker : v # w => worker'[v] = worker[v]
    BY DEF Take, TypeOK
  <1>3. /\ 1 \in DOMAIN queue /\ queue[1] = r /\ r \in Run
        /\ \A i \in DOMAIN queue' : i \in Nat /\ i + 1 \in DOMAIN queue /\ i + 1 # 1 /\ queue'[i] = queue[i + 1]
    BY HeadTailProperties DEF Take, TypeOK
  <1>4. /\ jobs[r].status \in {"queued", "cancelled"}
        /\ \A v \in Worker : worker[v].run # r
    BY <1>3 DEF RunsOnce
  <1>5. \A i \in DOMAIN queue' : queue'[i] # r
    BY <1>3 DEF RunsOnce
  <1>6. LockIsStoring'
    BY <1>1, <1>2 DEF LockIsStoring
  <1>7. WorkersOwnJobs'
    BY <1>1, <1>2, <1>3, <1>4, RunnerAssumption DEF WorkersOwnJobs
  <1>8. RunsOnce'
    <2>1. \A i, j \in DOMAIN queue' : queue'[i] = queue'[j] => i = j
      BY <1>3 DEF RunsOnce
    <2>2. \A i \in DOMAIN queue' : /\ jobs'[queue'[i]].status \in {"queued", "cancelled"}
                                   /\ \A v \in Worker : worker'[v].run # queue'[i]
      BY <1>1, <1>2, <1>3, <1>5 DEF RunsOnce
    <2>3. \A w1, w2 \in Worker : worker'[w1].run = worker'[w2].run /\ worker'[w1].run # None => w1 = w2
      BY <1>2, <1>4 DEF RunsOnce
    <2>4. \A c \in Call : calls[c].pc = "enqueue" =>
             /\ calls[c].run # r
             /\ \A v \in Worker : worker'[v].run # calls[c].run
             /\ \A i \in DOMAIN queue' : queue'[i] # calls[c].run
      BY <1>2, <1>3 DEF RunsOnce
    <2> QED BY <1>1, <2>1, <2>2, <2>3, <2>4 DEF RunsOnce
  <1>9. ResultOfSuccess'
    BY <1>1, <1>2 DEF ResultOfSuccess
  <1>10. CancelledWasRequested' /\ CallsOwnJobs'
    BY <1>1 DEF CancelledWasRequested, CallsOwnJobs, Known
  <1> QED BY <1>6, <1>7, <1>8, <1>9, <1>10 DEF Rest

\* A thread moves its own job: nobody else has it.
LEMMA WorkerMoves ==
    ASSUME IInv, NEW w \in Worker, NEW r \in Run, worker[w].run = r,
           UNCHANGED <<queue, calls>>,
           \A q \in Run : q # r => jobs'[q] = jobs[q],
           jobs'[r].status \notin {"none", "gone"}, jobs'[r].cancel = jobs[r].cancel,
           jobs[r].status = "succeeded" => jobs'[r].status = "succeeded",
           \A v \in Worker : v # w => worker'[v] = worker[v],
           \/ worker'[w] = Idle
           \/ /\ worker'[w].run = r
              /\ \/ worker'[w].pc = "running" /\ jobs'[r].status = "running"
                 \/ worker'[w].pc = "storing" /\ jobs'[r].status = "succeeded"
    PROVE  WorkersOwnJobs' /\ RunsOnce' /\ CallsOwnJobs'
  <1> USE DEF IInv
  <1>1. /\ \A v \in Worker : v # w => worker[v].run # r
        /\ \A i \in DOMAIN queue : queue[i] # r /\ queue[i] \in Run
        /\ \A c \in Call : calls[c].pc = "enqueue" => calls[c].run # r
    BY RunnerAssumption DEF RunsOnce, TypeOK
  <1>2. worker'[w].run \in {r, None} /\ r # None
    BY RunnerAssumption DEF Idle
  <1>3. \A v \in Worker : worker[v].run \in Run \cup {None}
    BY DEF TypeOK, Workers
  <1>4. WorkersOwnJobs'
    <2>1. ASSUME NEW v \in Worker, v # w PROVE worker[v].pc # "idle" => jobs'[worker[v].run] = jobs[worker[v].run]
      BY <2>1, <1>1, <1>3 DEF WorkersOwnJobs
    <2> QED BY <1>2, <2>1 DEF WorkersOwnJobs, Idle
  <1>5. RunsOnce'
    <2>1. \A w1, w2 \in Worker : worker'[w1].run = worker'[w2].run /\ worker'[w1].run # None => w1 = w2
      BY <1>1, <1>2 DEF RunsOnce
    <2>2. \A i \in DOMAIN queue : /\ jobs'[queue[i]].status \in {"queued", "cancelled"}
                                  /\ \A v \in Worker : worker'[v].run # queue[i]
      BY <1>1, <1>2, RunnerAssumption DEF RunsOnce
    <2>3. \A c \in Call : calls[c].pc = "enqueue" =>
             /\ jobs'[calls[c].run].status \in {"queued", "cancelled"}
             /\ \A v \in Worker : worker'[v].run # calls[c].run
      BY <1>1, <1>2, RunnerAssumption DEF RunsOnce
    <2> QED BY <2>1, <2>2, <2>3 DEF RunsOnce
  <1>6. CallsOwnJobs'
    BY DEF CallsOwnJobs, Known
  <1> QED BY <1>4, <1>5, <1>6

LEMMA CancelledJob ==
    ASSUME NEW j \in Jobs
    PROVE  LET x == [j EXCEPT !.status = "cancelled", !.result = FALSE]
           IN  x.status = "cancelled" /\ x.result = FALSE /\ x.cancel = j.cancel /\ x.key = j.key
  BY DEF Jobs

\* What the end of a callback does to its job.
LEMMA SucceedEffect ==
    ASSUME IInv, NEW w \in Worker, Succeed(w)
    PROVE  LET r == worker[w].run IN
           /\ r \in Run /\ jobs'[r].cancel = jobs[r].cancel /\ jobs'[r].key = jobs[r].key
           /\ jobs[r].status = "running" /\ worker[w].pc = "running" /\ lock = None
           /\ \/ /\ jobs[r].cancel /\ jobs'[r].status = "cancelled" /\ jobs'[r].result = FALSE
                 /\ worker'[w] = Idle /\ lock' = lock
              \/ /\ ~jobs[r].cancel /\ jobs'[r].status = "succeeded" /\ lock' = w
                 /\ worker'[w].pc = "storing" /\ worker'[w].run = r
  <1> DEFINE r == worker[w].run
  <1>1. r \in Run /\ jobs[r] \in Jobs /\ worker[w].pc = "running" /\ lock = None /\ jobs[r].status = "running"
    BY DEF IInv, Succeed, WorkersOwnJobs, TypeOK, Workers
  <1>2. CASE jobs[r].cancel
    <2>1. jobs'[r] = [jobs[r] EXCEPT !.status = "cancelled", !.result = FALSE]
      BY <1>1, <1>2 DEF Succeed, IInv, TypeOK
    <2>2. worker'[w] = Idle /\ lock' = lock
      BY <1>2 DEF Succeed, IInv, TypeOK
    <2>3. /\ jobs'[r].status = "cancelled" /\ jobs'[r].result = FALSE
          /\ jobs'[r].cancel = jobs[r].cancel /\ jobs'[r].key = jobs[r].key
      BY <1>1, <2>1, CancelledJob
    <2> QED BY <1>1, <1>2, <2>2, <2>3
  <1>3. CASE ~jobs[r].cancel
    <2>1. jobs'[r] = [jobs[r] EXCEPT !.status = "succeeded"] /\ lock' = w
      BY <1>1, <1>3 DEF Succeed, IInv, TypeOK
    <2>2. worker'[w] = [worker[w] EXCEPT !.pc = "storing"]
      BY <1>3 DEF Succeed, IInv, TypeOK
    <2>3. worker'[w].pc = "storing" /\ worker'[w].run = r
      BY <2>2 DEF IInv, TypeOK, Workers
    <2>4. jobs'[r].status = "succeeded" /\ jobs'[r].cancel = jobs[r].cancel /\ jobs'[r].key = jobs[r].key
      BY <1>1, <2>1 DEF Jobs
    <2> QED BY <1>1, <1>3, <2>1, <2>3, <2>4
  <1> QED BY <1>2, <1>3

\* The steps of execute() keep the invariant.
LEMMA ExecuteKeepsIInv ==
    ASSUME IInv, NEW w \in Worker, Start(w) \/ StoreResult(w) \/ Succeed(w) \/ Fail(w)
    PROVE  Rest'
  <1> USE DEF IInv
  <1> DEFINE r == worker[w].run
  <1>1. r \in Run
    BY DEF Start, StoreResult, Succeed, Fail, WorkersOwnJobs, TypeOK, Workers
  <1>2. UNCHANGED <<queue, calls>>
    BY DEF Start, StoreResult, Succeed, Fail
  <1>3. \A q \in Run : q # r => jobs'[q] = jobs[q]
    BY DEF Start, StoreResult, Succeed, Fail, TypeOK
  <1>4. \A v \in Worker : v # w => worker'[v] = worker[v]
    BY DEF Start, StoreResult, Succeed, Fail, TypeOK
  <1>5. jobs[r] \in Jobs /\ jobs'[r].cancel = jobs[r].cancel
    <2>1. jobs[r] \in Jobs
      BY <1>1 DEF TypeOK
    <2>2. CASE Start(w)
      BY <1>1, <2>1, <2>2 DEF Start, TypeOK, Jobs
    <2>3. CASE StoreResult(w)
      BY <1>1, <2>1, <2>3 DEF StoreResult, TypeOK, Jobs
    <2>4. CASE Succeed(w)
      BY <2>1, <2>4, SucceedEffect
    <2>5. CASE Fail(w)
      BY <1>1, <2>1, <2>5 DEF Fail, TypeOK, Jobs
    <2> QED BY <2>1, <2>2, <2>3, <2>4, <2>5
  <1>6. CASE Start(w)
    <2>1. /\ jobs[r].status \in {"queued", "cancelled"} /\ jobs'[r].result = jobs[r].result
          /\ lock' = lock /\ worker[w].pc = "starting"
          /\ \/ jobs[r].cancel /\ jobs'[r].status = "cancelled" /\ worker'[w] = Idle
             \/ jobs'[r].status = "running" /\ worker'[w].pc = "running" /\ worker'[w].run = r
      BY <1>1, <1>5, <1>6 DEF Start, WorkersOwnJobs, TypeOK, Jobs, Workers
    <2>2. WorkersOwnJobs' /\ RunsOnce' /\ CallsOwnJobs'
      BY <1>1, <1>2, <1>3, <1>4, <1>5, <2>1, WorkerMoves
    <2>3. LockIsStoring'
      BY <1>4, <2>1 DEF LockIsStoring, Idle
    <2>4. ResultOfSuccess'
      BY <1>1, <1>3, <1>4, <2>1 DEF ResultOfSuccess
    <2>5. CancelledWasRequested'
      BY <1>1, <1>3, <1>5, <2>1 DEF CancelledWasRequested
    <2> QED BY <2>2, <2>3, <2>4, <2>5 DEF Rest
  <1>7. CASE Succeed(w)
    <2>1. /\ jobs[r].status = "running" /\ worker[w].pc = "running" /\ lock = None
          /\ \/ /\ jobs[r].cancel /\ jobs'[r].status = "cancelled" /\ jobs'[r].result = FALSE
                /\ worker'[w] = Idle /\ lock' = lock
             \/ /\ jobs'[r].status = "succeeded" /\ lock' = w
                /\ worker'[w].pc = "storing" /\ worker'[w].run = r
      BY <1>7, SucceedEffect
    <2>2. WorkersOwnJobs' /\ RunsOnce' /\ CallsOwnJobs'
      BY <1>1, <1>2, <1>3, <1>4, <1>5, <2>1, WorkerMoves
    <2>3. LockIsStoring'
      BY <1>4, <2>1, RunnerAssumption DEF LockIsStoring, Idle
    <2>4. ResultOfSuccess'
      BY <1>1, <1>3, <1>4, <2>1 DEF ResultOfSuccess
    <2>5. CancelledWasRequested'
      BY <1>1, <1>3, <1>5, <2>1 DEF CancelledWasRequested
    <2> QED BY <2>2, <2>3, <2>4, <2>5 DEF Rest
  <1>8. CASE StoreResult(w)
    <2>1. /\ jobs[r].status = "succeeded" /\ worker[w].pc = "storing" /\ lock = w
          /\ jobs'[r].status = "succeeded" /\ jobs'[r].result = TRUE
          /\ worker'[w] = Idle /\ lock' = None
      BY <1>1, <1>5, <1>8 DEF StoreResult, WorkersOwnJobs, LockIsStoring, TypeOK, Jobs
    <2>2. WorkersOwnJobs' /\ RunsOnce' /\ CallsOwnJobs'
      BY <1>1, <1>2, <1>3, <1>4, <1>5, <2>1, WorkerMoves
    <2>3. LockIsStoring'
      BY <1>4, <2>1, RunnerAssumption DEF LockIsStoring, Idle
    <2>4. ResultOfSuccess'
      BY <1>1, <1>3, <1>4, <2>1 DEF ResultOfSuccess
    <2>5. CancelledWasRequested'
      BY <1>1, <1>3, <1>5, <2>1 DEF CancelledWasRequested
    <2> QED BY <2>2, <2>3, <2>4, <2>5 DEF Rest
  <1>9. CASE Fail(w)
    <2>1. /\ jobs[r].status = "running" /\ worker[w].pc = "running" /\ lock' = lock
          /\ jobs'[r].result = jobs[r].result /\ worker'[w] = Idle
          /\ \/ jobs[r].cancel /\ jobs'[r].status = "cancelled"
             \/ jobs'[r].status = "failed"
      BY <1>1, <1>5, <1>9 DEF Fail, WorkersOwnJobs, TypeOK, Jobs
    <2>2. WorkersOwnJobs' /\ RunsOnce' /\ CallsOwnJobs'
      BY <1>1, <1>2, <1>3, <1>4, <1>5, <2>1, WorkerMoves
    <2>3. LockIsStoring'
      BY <1>4, <2>1 DEF LockIsStoring, Idle
    <2>4. ResultOfSuccess'
      BY <1>1, <1>3, <1>4, <2>1 DEF ResultOfSuccess
    <2>5. CancelledWasRequested'
      BY <1>1, <1>3, <1>5, <2>1 DEF CancelledWasRequested
    <2> QED BY <2>2, <2>3, <2>4, <2>5 DEF Rest
  <1> QED BY <1>6, <1>7, <1>8, <1>9

LEMMA RestartKeepsIInv ==
    ASSUME IInv, Restart
    PROVE  Rest'
  <1> USE DEF IInv
  <1>1. \A r \in Run : /\ jobs'[r].status \in {"none", "gone"}
                       /\ jobs'[r].status = "none" => jobs'[r] = NoJob
                       /\ jobs'[r].result => jobs'[r].status = "gone"
    BY DEF Restart, NoJob, TypeOK, Jobs
  <1>2. /\ \A w \in Worker : worker'[w] = Idle
        /\ \A c \in Call : calls'[c] = Free
        /\ queue' = <<>> /\ lock' = None
    BY DEF Restart
  <1>3. LockIsStoring' /\ WorkersOwnJobs'
    BY <1>2, RunnerAssumption DEF LockIsStoring, WorkersOwnJobs, Idle
  <1>4. RunsOnce'
    BY <1>2 DEF RunsOnce, Idle, Free
  <1>5. ResultOfSuccess' /\ CancelledWasRequested'
    BY <1>1 DEF ResultOfSuccess, CancelledWasRequested
  <1>6. CallsOwnJobs'
    BY <1>2 DEF CallsOwnJobs, Free
  <1> QED BY <1>3, <1>4, <1>5, <1>6 DEF Rest

LEMMA InitIInv == Init => IInv
  <1> SUFFICES ASSUME Init PROVE IInv
    OBVIOUS
  <1>1. TypeOK
    BY Constants, RunnerAssumption DEF Init, TypeOK
  <1>2. Rest
    BY RunnerAssumption DEF Init, Rest, LockIsStoring, WorkersOwnJobs, RunsOnce, ResultOfSuccess,
                            CancelledWasRequested, CallsOwnJobs, NoJob, Idle, Free
  <1> QED BY <1>1, <1>2 DEF IInv, Rest

LEMMA NextIInv == IInv /\ [Next]_vars => IInv'
  <1> SUFFICES ASSUME IInv, [Next]_vars PROVE IInv'
    OBVIOUS
  <1>1. TypeOK'
    BY TypeNext DEF IInv
  <1>2. ASSUME NEW c \in Call, Requests(c) \/ Serve(c) \/ Reply(c) PROVE Rest'
    BY <1>2, ReadersKeepIInv, SubmitKeepsIInv, CancelKeepsIInv DEF Serve
  <1>3. ASSUME NEW w \in Worker, Execute(w) \/ Callback(w) PROVE Rest'
    BY <1>3, TakeKeepsIInv, ExecuteKeepsIInv DEF Execute, Callback
  <1>4. ASSUME UNCHANGED vars PROVE Rest'
    <2>1. LockIsStoring' /\ WorkersOwnJobs' /\ ResultOfSuccess' /\ CancelledWasRequested'
      BY <1>4 DEF vars, IInv, LockIsStoring, WorkersOwnJobs, ResultOfSuccess, CancelledWasRequested
    <2>2. RunsOnce' /\ CallsOwnJobs'
      BY <1>4 DEF vars, IInv, RunsOnce, CallsOwnJobs, Known
    <2> QED BY <2>1, <2>2 DEF Rest
  <1>5. ASSUME Restart PROVE Rest'
    BY <1>5, RestartKeepsIInv
  <1>6. Rest'
    BY <1>2, <1>3, <1>4, <1>5 DEF Next
  <1> QED BY <1>1, <1>6 DEF IInv, Rest

\* IInv is an invariant of the service: one owner per job, results only of
\* jobs that succeeded, cancellations only of jobs that were asked for.
THEOREM Invariance == Spec => []IInv
  BY InitIInv, NextIInv, PTL DEF Spec
------------------------------------------------------------------------------
(* The service implements JobLifecycle. *)

LifeStatus == [r \in Run |-> jobs[r].status]
LifeRequested == {r \in Run : jobs[r].cancel}

LEMMA SameLife ==
    ASSUME \A r \in Run : jobs'[r].status = jobs[r].status /\ jobs'[r].cancel = jobs[r].cancel
    PROVE  UNCHANGED Life!vars
  BY DEF Life!vars

\* One job takes a new status.
LEMMA StatusMoves ==
    ASSUME TypeOK, NEW r \in Run, NEW s, jobs'[r].status = s, jobs'[r].cancel = jobs[r].cancel,
           \A q \in Run : q # r => jobs'[q] = jobs[q]
    PROVE  /\ LifeStatus' = [LifeStatus EXCEPT ![r] = s]
           /\ LifeRequested' = LifeRequested
           /\ LifeStatus[r] = jobs[r].status
  BY DEF LifeStatus, LifeRequested

\* Every step of a handler or a thread is a step of the life of a job, or none.
LEMMA LifeNext == IInv /\ [Next]_vars => [Life!Next]_(Life!vars)
  <1> SUFFICES ASSUME IInv, [Next]_vars PROVE Life!Next \/ UNCHANGED Life!vars
    OBVIOUS
  <1> USE DEF IInv
  <1>1. CASE UNCHANGED jobs
    BY <1>1, SameLife
  <1>2. ASSUME NEW c \in Call, SubmitRegister(c) PROVE Life!Next
    <2>1. PICK r \in Run :
            /\ jobs[r].status = "none"
            /\ jobs' = [jobs EXCEPT ![r] = [NoJob EXCEPT !.key = calls[c].key, !.status = "queued"]]
      BY <1>2 DEF SubmitRegister
    <2>2. jobs[r].cancel = FALSE
      BY <2>1 DEF CancelledWasRequested, NoJob
    <2>3. /\ jobs'[r].status = "queued" /\ jobs'[r].cancel = jobs[r].cancel
          /\ \A q \in Run : q # r => jobs'[q] = jobs[q]
      BY <2>1, <2>2 DEF TypeOK, NoJob
    <2>4. Life!Submit(r)
      BY <2>1, <2>3, StatusMoves DEF Life!Submit, LifeStatus, LifeRequested
    <2> QED BY <2>4 DEF Life!Next
  <1>3. ASSUME NEW c \in Call, SetCancel(c) PROVE Life!Next
    <2>1. PICK r \in Run : r = calls[c].run /\ jobs[r].status \notin {"none", "gone"}
      BY <1>3 DEF SetCancel, CallsOwnJobs, Known
    <2>2. \A q \in Run : /\ jobs'[q].status = jobs[q].status
                         /\ jobs'[q].cancel = IF q = r THEN TRUE ELSE jobs[q].cancel
      BY <1>3, <2>1 DEF SetCancel, TypeOK, Jobs
    <2>3. LifeStatus' = LifeStatus /\ LifeRequested' = LifeRequested \cup {r}
      BY <2>1, <2>2 DEF LifeStatus, LifeRequested
    <2>4. Life!Request(r)
      BY <2>1, <2>3 DEF Life!Request, LifeStatus, LifeRequested
    <2> QED BY <2>1, <2>4 DEF Life!Next
  <1>4. ASSUME NEW r \in Run, jobs[r].status \in {"queued", "running"}, jobs[r].cancel,
               jobs'[r].status = "cancelled", jobs'[r].cancel = jobs[r].cancel,
               \A q \in Run : q # r => jobs'[q] = jobs[q]
        PROVE  Life!Next
    <2>1. Life!Cancel(r)
      BY <1>4, StatusMoves DEF Life!Cancel, LifeStatus, LifeRequested
    <2> QED BY <2>1 DEF Life!Next
  <1>5. ASSUME NEW c \in Call, SettleCancel(c) PROVE Life!Next \/ UNCHANGED Life!vars
    <2> DEFINE r == calls[c].run
    <2>1. r \in Run /\ jobs[r].cancel
      BY <1>5 DEF SettleCancel, CallsOwnJobs, Known
    <2>2. /\ jobs'[r].cancel = jobs[r].cancel /\ \A q \in Run : q # r => jobs'[q] = jobs[q]
          /\ jobs'[r].status = IF jobs[r].status = "queued" THEN "cancelled" ELSE jobs[r].status
      BY <1>5, <2>1 DEF SettleCancel, TypeOK, Jobs
    <2>3. CASE jobs[r].status = "queued"
      BY <2>1, <2>2, <2>3, <1>4
    <2>4. CASE jobs[r].status # "queued"
      BY <2>1, <2>2, <2>4, SameLife
    <2> QED BY <2>3, <2>4
  <1>6. ASSUME NEW w \in Worker, Start(w) PROVE Life!Next \/ UNCHANGED Life!vars
    <2>1. PICK r \in Run : r = worker[w].run /\ jobs[r].status \in {"queued", "cancelled"}
      BY <1>6 DEF Start, WorkersOwnJobs, TypeOK, Workers
    <2>2. /\ jobs'[r].cancel = jobs[r].cancel /\ \A q \in Run : q # r => jobs'[q] = jobs[q]
          /\ jobs'[r].status = IF jobs[r].cancel THEN "cancelled" ELSE "running"
      BY <1>6, <2>1 DEF Start, TypeOK, Jobs
    <2>3. CASE jobs[r].status = "cancelled"
      <3>1. jobs[r].cancel
        BY <2>1, <2>3 DEF CancelledWasRequested
      <3> QED BY <2>1, <2>2, <2>3, <3>1, SameLife
    <2>4. CASE jobs[r].status = "queued" /\ jobs[r].cancel
      BY <2>1, <2>2, <2>4, <1>4
    <2>5. CASE jobs[r].status = "queued" /\ ~jobs[r].cancel
      <3>1. Life!Start(r)
        BY <2>1, <2>2, <2>5, StatusMoves DEF Life!Start, LifeStatus, LifeRequested
      <3> QED BY <2>1, <3>1 DEF Life!Next
    <2> QED BY <2>1, <2>3, <2>4, <2>5
  <1>7. ASSUME NEW w \in Worker, Callback(w) PROVE Life!Next
    <2>1. PICK r \in Run : r = worker[w].run /\ jobs[r].status = "running"
      BY <1>7 DEF Callback, Succeed, Fail, WorkersOwnJobs, TypeOK, Workers
    <2>2. /\ jobs'[r].cancel = jobs[r].cancel /\ \A q \in Run : q # r => jobs'[q] = jobs[q]
          /\ \/ jobs[r].cancel /\ jobs'[r].status = "cancelled"
             \/ ~jobs[r].cancel /\ jobs'[r].status \in {"succeeded", "failed"}
      <3>1. CASE Succeed(w)
        <4>1. \A q \in Run : q # r => jobs'[q] = jobs[q]
          BY <2>1, <3>1 DEF Succeed, TypeOK
        <4> QED BY <2>1, <3>1, <4>1, SucceedEffect
      <3>2. CASE Fail(w)
        BY <2>1, <3>2 DEF Fail, TypeOK, Jobs
      <3> QED BY <1>7, <3>1, <3>2 DEF Callback
    <2>3. CASE jobs[r].cancel
      BY <2>1, <2>2, <2>3, <1>4
    <2>4. CASE ~jobs[r].cancel
      <3>1. Life!End(r)
        BY <2>1, <2>2, <2>4, StatusMoves DEF Life!End, LifeStatus, LifeRequested
      <3> QED BY <2>1, <3>1 DEF Life!Next
    <2> QED BY <2>3, <2>4
  <1>8. ASSUME NEW w \in Worker, StoreResult(w) PROVE UNCHANGED Life!vars
    BY <1>8, SameLife DEF StoreResult, TypeOK, Jobs
  <1>9. ASSUME Restart PROVE Life!Next
    <2>1. \A r \in Run : /\ jobs'[r].cancel = jobs[r].cancel
                         /\ jobs'[r].status = IF jobs[r].status = "none" THEN "none" ELSE "gone"
      BY <1>9, ZenonT(30) DEF Restart, CancelledWasRequested, NoJob, TypeOK, Jobs
    <2>2. Life!Forget
      BY <2>1 DEF Life!Forget
    <2> QED BY <2>2 DEF Life!Next
  <1>10. ASSUME NEW c \in Call,
                \/ Requests(c) \/ Reply(c) \/ SubmitCheck(c) \/ SubmitReject(c) \/ Enqueue(c)
                \/ Get(c) \/ ReadStatus(c) \/ FetchStatus(c) \/ FetchResult(c)
         PROVE  UNCHANGED jobs
    BY <1>10 DEF Requests, Arrive, Reply, SubmitCheck, SubmitReject, Enqueue, Get, ReadStatus,
                 FetchStatus, FetchResult
  <1>11. ASSUME NEW w \in Worker, Take(w) PROVE UNCHANGED jobs
    BY <1>11 DEF Take
  <1>12. ASSUME UNCHANGED vars PROVE UNCHANGED jobs
    BY <1>12 DEF vars
  <1> QED BY <1>1, <1>2, <1>3, <1>5, <1>6, <1>7, <1>8, <1>9, <1>10, <1>11, <1>12
          DEF Next, Serve, Execute

\* The jobs of the service live the life of JobLifecycle: no job ends twice,
\* none starts after its cancellation was requested, and a request made before
\* the end of a job decides that end.
THEOREM Refinement == Spec => LifeSpec
  <1>1. Init => Life!Init
    BY DEF Init, Life!Init, NoJob
  <1> QED BY <1>1, LifeNext, Invariance, PTL DEF Spec, LifeSpec, Life!Spec
------------------------------------------------------------------------------
(* What a call was told stays true. *)

\* A job that is not queued never is again, and a requested cancellation stays.
LEMMA JobsMoveOn ==
    ASSUME IInv, [Next]_vars, NEW r \in Run
    PROVE  /\ jobs[r].cancel => jobs'[r].cancel
           /\ jobs[r].status \notin {"none", "queued"} => jobs'[r].status \notin {"none", "queued"}
           /\ jobs[r].status = "running" /\ jobs[r].cancel => jobs'[r].status \in {"running", "cancelled", "gone"}
           /\ jobs[r].status = "cancelled" => jobs'[r].status \in {"cancelled", "gone"}
           /\ jobs'[r].status = "gone" => jobs[r].status = "gone" \/ Restart
  <1>1. [Life!Next]_(Life!vars)
    BY LifeNext
  <1>2. /\ LifeStatus[r] = jobs[r].status /\ LifeStatus'[r] = jobs'[r].status
        /\ (r \in LifeRequested <=> jobs[r].cancel) /\ (r \in LifeRequested' <=> jobs'[r].cancel)
    BY DEF LifeStatus, LifeRequested
  <1>3. /\ jobs[r].cancel => jobs'[r].cancel
        /\ jobs[r].status \notin {"none", "queued"} => jobs'[r].status \notin {"none", "queued"}
        /\ jobs[r].status = "running" /\ jobs[r].cancel => jobs'[r].status \in {"running", "cancelled", "gone"}
        /\ jobs[r].status = "cancelled" => jobs'[r].status \in {"cancelled", "gone"}
    <2>1. CASE UNCHANGED Life!vars
      BY <2>1, <1>2 DEF Life!vars, LifeStatus, LifeRequested
    <2>2. ASSUME NEW q \in Run, Life!Submit(q) \/ Life!Start(q) \/ Life!Cancel(q) \/ Life!End(q)
          PROVE  /\ LifeRequested' = LifeRequested
                 /\ q # r => LifeStatus'[r] = LifeStatus[r]
                 /\ q = r => \/ LifeStatus[r] = "none" /\ LifeStatus'[r] = "queued"
                             \/ LifeStatus[r] = "queued" /\ LifeStatus'[r] \in {"running", "cancelled"}
                             \/ LifeStatus[r] = "running" /\ r \in LifeRequested /\ LifeStatus'[r] = "cancelled"
                             \/ LifeStatus[r] = "running" /\ r \notin LifeRequested /\ LifeStatus'[r] \in {"succeeded", "failed"}
      BY <2>2 DEF Life!Submit, Life!Start, Life!Cancel, Life!End, LifeStatus, LifeRequested
    <2>3. ASSUME NEW q \in Run, Life!Request(q)
          PROVE  LifeStatus' = LifeStatus /\ LifeRequested \subseteq LifeRequested'
      BY <2>3 DEF Life!Request, LifeStatus, LifeRequested
    <2>4. ASSUME Life!Forget
          PROVE  /\ LifeRequested' = LifeRequested
                 /\ LifeStatus'[r] = IF LifeStatus[r] = "none" THEN "none" ELSE "gone"
      BY <2>4 DEF Life!Forget, LifeStatus, LifeRequested
    <2>5. CASE Life!Forget
      BY <2>4, <2>5, <1>2
    <2>6. ASSUME NEW q \in Run, Life!Request(q)
          PROVE  LifeStatus'[r] = LifeStatus[r] /\ (r \in LifeRequested => r \in LifeRequested')
      BY <2>3, <2>6
    <2> QED BY <1>1, <1>2, <2>1, <2>2, <2>5, <2>6 DEF Life!Next
  <1>4. jobs'[r].status = "gone" => jobs[r].status = "gone" \/ Restart
    <2>1. ASSUME NEW c \in Call, Requests(c) \/ Serve(c) \/ Reply(c)
          PROVE  jobs'[r].status \in {jobs[r].status, "queued", "cancelled"}
      <3>1. CASE UNCHANGED jobs
        BY <3>1
      <3>2. CASE SubmitRegister(c)
        BY <3>2 DEF SubmitRegister, IInv, TypeOK, NoJob
      <3>3. CASE SetCancel(c) \/ SettleCancel(c)
        BY <3>3 DEF SetCancel, SettleCancel, IInv, TypeOK, Jobs
      <3> QED BY <2>1, <3>1, <3>2, <3>3
              DEF Requests, Arrive, Reply, Serve, SubmitCheck, SubmitReject, Enqueue, Get, ReadStatus,
                  FetchStatus, FetchResult
    <2>2. ASSUME NEW w \in Worker, Execute(w) \/ Fail(w)
          PROVE  jobs'[r].status \in {jobs[r].status, "cancelled", "running", "failed"}
      BY <2>2 DEF Execute, Take, Start, StoreResult, Fail, IInv, TypeOK, Jobs
    <2>3. ASSUME NEW w \in Worker, Succeed(w)
          PROVE  jobs'[r].status \in {jobs[r].status, "cancelled", "succeeded"}
      <3>1. r # worker[w].run => jobs'[r] = jobs[r]
        BY <2>3 DEF Succeed, IInv, TypeOK
      <3> QED BY <2>3, <3>1, SucceedEffect
    <2>4. CASE UNCHANGED vars
      BY <2>4 DEF vars
    <2> QED BY <2>1, <2>2, <2>3, <2>4 DEF Next, Callback
  <1> QED BY <1>3, <1>4


\* CancelIsBinding with the calls that are past the lock but not answered yet.
Settled(c) ==
    /\ jobs[calls[c].run].cancel
    /\ jobs[calls[c].run].status # "queued"

CancelInv ==
    \A c \in Call : calls[c].kind = "cancel" =>
        /\ calls[c].pc = "read" => Settled(c)
        /\ calls[c].pc = "answered" /\ calls[c].answer # "unknown" =>
              /\ calls[c].run \in Run /\ jobs[calls[c].run].status # "none"
              /\ Settled(c)
              /\ calls[c].answer = "running" => jobs[calls[c].run].status \in {"running", "cancelled"}

\* Where a call of the kind "cancel" may have been moved to by a step.
LEMMA CancelCallsMoveOn ==
    ASSUME IInv, [Next]_vars, NEW c \in Call, calls'[c].kind = "cancel",
           calls'[c].pc \in {"read", "answered"}, calls'[c] # calls[c]
    PROVE  \/ SettleCancel(c) /\ calls'[c].pc = "read"
           \/ calls'[c].pc = "answered" /\ calls'[c].answer = "unknown"
           \/ ReadStatus(c) /\ calls[c].kind = "cancel"
  <1> USE DEF IInv
  <1>1. ASSUME NEW d \in Call, NEW x, Become(d, x)
        PROVE  calls'[c] = IF c = d THEN x ELSE calls[c]
    BY <1>1 DEF Become, TypeOK
  <1>2. calls[c] \in Calls
    BY DEF TypeOK
  <1>3. ASSUME NEW pc, Go(c, pc) PROVE calls'[c].kind = calls[c].kind /\ calls'[c].pc = pc
    BY <1>1, <1>2, <1>3 DEF Go, Calls
  <1>4. ASSUME NEW a, Answer(c, a)
        PROVE  calls'[c].kind = calls[c].kind /\ calls'[c].pc = "answered" /\ calls'[c].answer = a
    <2>1. calls'[c] = [calls[c] EXCEPT !.pc = "answered", !.answer = a]
      BY <1>1, <1>4 DEF Answer
    <2> QED BY <1>2, <2>1 DEF Calls
  <1>5. ASSUME NEW d \in Call, Requests(d) \/ Reply(d) PROVE FALSE
    <2>1. ASSUME Reply(d) PROVE FALSE
      BY <2>1, <1>1 DEF Reply, Free
    <2>2. ASSUME NEW kind, NEW k, NEW r, Arrive(d, kind, k, r) PROVE FALSE
      BY <2>2, <1>1 DEF Arrive
    <2> QED BY <1>5, <2>1, <2>2 DEF Requests
  <1>6. ASSUME NEW d \in Call, d # c, Serve(d) PROVE FALSE
    BY <1>1, <1>6 DEF Serve, SubmitCheck, SubmitReject, SubmitRegister, Enqueue, Get, ReadStatus,
                      FetchStatus, FetchResult, SetCancel, SettleCancel, Go, Answer
  <1>7. ASSUME \/ SubmitReject(c) \/ SubmitRegister(c) \/ Enqueue(c)
               \/ FetchStatus(c) \/ FetchResult(c) \/ SetCancel(c)
        PROVE  FALSE
    <2>1. ASSUME SubmitRegister(c) PROVE FALSE
      <3>1. PICK r \in Run : Become(c, [calls[c] EXCEPT !.pc = "enqueue", !.run = r])
        BY <2>1 DEF SubmitRegister
      <3>2. calls'[c] = [calls[c] EXCEPT !.pc = "enqueue", !.run = r]
        BY <1>1, <3>1
      <3> QED BY <1>2, <3>2 DEF Calls
    <2>2. ASSUME SetCancel(c) PROVE FALSE
      BY <2>2, <1>3 DEF SetCancel
    <2>3. ASSUME SubmitReject(c) \/ FetchStatus(c) \/ FetchResult(c) PROVE FALSE
      BY <2>3, <1>3, <1>4 DEF SubmitReject, FetchStatus, FetchResult, CallsOwnJobs
    <2>4. ASSUME Enqueue(c) PROVE FALSE
      BY <2>4, <1>3 DEF Enqueue, CallsOwnJobs
    <2> QED BY <1>7, <2>1, <2>2, <2>3, <2>4
  <1>8. ASSUME SubmitCheck(c) PROVE FALSE
    <2>1. calls[c].kind = "submit"
      BY <1>8 DEF SubmitCheck, CallsOwnJobs
    <2>2. ASSUME NEW r, Become(c, [calls[c] EXCEPT !.pc = "read", !.run = r]) PROVE calls'[c].kind = calls[c].kind
      <3>1. calls'[c] = [calls[c] EXCEPT !.pc = "read", !.run = r]
        BY <1>1, <2>2
      <3> QED BY <1>2, <3>1 DEF Calls
    <2> QED BY <1>8, <1>3, <2>1, <2>2 DEF SubmitCheck
  <1>9. ASSUME Get(c) PROVE calls'[c].pc = "answered" /\ calls'[c].answer = "unknown"
    BY <1>9, <1>3, <1>4 DEF Get
  <1>10. ASSUME SettleCancel(c) PROVE calls'[c].pc = "read"
    BY <1>10, <1>3 DEF SettleCancel
  <1>11. ASSUME ReadStatus(c) PROVE calls[c].kind = "cancel"
    BY <1>11, <1>4 DEF ReadStatus
  <1>12. ASSUME NEW w \in Worker, Execute(w) \/ Callback(w) PROVE FALSE
    BY <1>12 DEF Execute, Take, Start, StoreResult, Callback, Succeed, Fail
  <1>13. ASSUME Restart PROVE FALSE
    BY <1>13 DEF Restart, Free
  <1>14. ASSUME UNCHANGED vars PROVE FALSE
    BY <1>14 DEF vars
  <1> QED BY <1>5, <1>6, <1>7, <1>8, <1>9, <1>10, <1>11, <1>12, <1>13, <1>14 DEF Next, Serve

LEMMA CancelNext == IInv /\ CancelInv /\ [Next]_vars => CancelInv'
  <1> SUFFICES ASSUME IInv, CancelInv, [Next]_vars, NEW c \in Call, calls'[c].kind = "cancel",
                      \/ calls'[c].pc = "read"
                      \/ calls'[c].pc = "answered" /\ calls'[c].answer # "unknown"
               PROVE  /\ Settled(c)'
                      /\ calls'[c].pc = "answered" =>
                            /\ calls'[c].run \in Run /\ jobs'[calls'[c].run].status # "none"
                            /\ calls'[c].answer = "running" => jobs'[calls'[c].run].status \in {"running", "cancelled"}
    BY DEF CancelInv
  <1> DEFINE r == calls[c].run
  <1>1. CASE calls'[c] = calls[c]
    <2>1. /\ r \in Run /\ jobs[r].status # "none" /\ Settled(c)
          /\ calls[c].pc = "answered" /\ calls[c].answer = "running" => jobs[r].status \in {"running", "cancelled"}
      BY <1>1 DEF CancelInv, IInv, CallsOwnJobs, Known
    <2>2. ~Restart
      BY <1>1 DEF Restart, Free
    <2>3. /\ jobs'[r].cancel /\ jobs'[r].status \notin {"none", "queued"}
          /\ jobs[r].status \in {"running", "cancelled"} => jobs'[r].status \in {"running", "cancelled"}
      BY <2>1, <2>2, JobsMoveOn DEF Settled
    <2> QED BY <1>1, <2>1, <2>3 DEF Settled
  <1>2. CASE SettleCancel(c) /\ calls'[c].pc = "read"
    <2>1. r \in Run /\ jobs[r].cancel
      BY <1>2 DEF SettleCancel, IInv, CallsOwnJobs, Known
    <2>2. calls'[c].run = r
      BY <1>2 DEF SettleCancel, Go, Become, IInv, TypeOK, Calls
    <2>3. jobs'[r].cancel /\ jobs'[r].status # "queued"
      BY <1>2, <2>1 DEF SettleCancel, IInv, TypeOK, Jobs
    <2> QED BY <1>2, <2>2, <2>3 DEF Settled
  <1>3. CASE ReadStatus(c) /\ calls[c].kind = "cancel"
    <2>1. r \in Run /\ jobs[r].status # "none" /\ Settled(c)
      BY <1>3 DEF ReadStatus, IInv, CallsOwnJobs, Known, CancelInv
    <2>2. calls'[c] = [calls[c] EXCEPT !.pc = "answered", !.answer = jobs[r].status] /\ jobs' = jobs
      BY <1>3 DEF ReadStatus, Answer, Become, IInv, TypeOK
    <2>3. calls'[c].run = r /\ calls'[c].answer = jobs[r].status
      BY <2>2 DEF IInv, TypeOK, Calls
    <2> QED BY <2>1, <2>2, <2>3 DEF Settled
  <1> QED BY <1>1, <1>2, <1>3, CancelCallsMoveOn

\* A cancel that was answered holds, whatever happens after the answer.
THEOREM CancelHolds == Spec => []CancelIsBinding
  <1>1. Init => CancelInv
    BY DEF Init, CancelInv, Free
  <1>2. CancelInv => CancelIsBinding
    BY DEF CancelInv, CancelIsBinding, Settled
  <1> QED BY <1>1, <1>2, CancelNext, Invariance, PTL DEF Spec
------------------------------------------------------------------------------
(* No job is stranded. *)

Pending(r) ==
    \/ \E c \in Call : calls[c].pc = "enqueue" /\ calls[c].run = r
    \/ \E i \in DOMAIN queue : queue[i] = r
    \/ \E w \in Worker : worker[w].pc = "starting" /\ worker[w].run = r

LEMMA PendingNext ==
    ASSUME IInv, [Next]_vars, NEW r \in Run,
           jobs[r].status = "queued" => Pending(r), jobs'[r].status = "queued"
    PROVE  Pending(r)'
  <1> USE DEF IInv
  <1>1. ASSUME NEW c \in Call, SubmitRegister(c), jobs[r].status # "queued" PROVE Pending(r)'
    <2>1. PICK q \in Run :
            /\ jobs' = [jobs EXCEPT ![q] = [NoJob EXCEPT !.key = calls[c].key, !.status = "queued"]]
            /\ Become(c, [calls[c] EXCEPT !.pc = "enqueue", !.run = q])
      BY <1>1 DEF SubmitRegister
    <2>2. r = q
      BY <1>1, <2>1 DEF TypeOK
    <2>3. calls'[c].pc = "enqueue" /\ calls'[c].run = r
      BY <2>1, <2>2 DEF Become, TypeOK, Calls
    <2> QED BY <2>3 DEF Pending
  <1>2. ASSUME ~\E c \in Call : SubmitRegister(c) PROVE jobs[r].status = "queued"
    <2>2. CASE UNCHANGED jobs
      BY <2>2
    <2>3. ASSUME NEW c \in Call, SetCancel(c) \/ SettleCancel(c) PROVE jobs[r].status = "queued"
      BY <2>3 DEF SetCancel, SettleCancel, TypeOK, Jobs
    <2>4. ASSUME NEW w \in Worker, Start(w) \/ StoreResult(w) \/ Fail(w) PROVE jobs[r].status = "queued"
      BY <2>4, SMTT(20) DEF Start, StoreResult, Fail, TypeOK, Jobs
    <2>5. ASSUME NEW w \in Worker, Succeed(w) PROVE jobs[r].status = "queued"
      <3>1. r # worker[w].run => jobs'[r] = jobs[r]
        BY <2>5 DEF Succeed, TypeOK
      <3> QED BY <2>5, <3>1, SucceedEffect
    <2>6. ASSUME Restart PROVE FALSE
      BY <2>6 DEF Restart, NoJob, TypeOK, Jobs
    <2> QED BY <1>2, <2>2, <2>3, <2>4, <2>5, <2>6
            DEF Next, Serve, Execute, Callback, Take, Requests, Arrive, Reply, SubmitCheck, SubmitReject,
                Enqueue, Get, ReadStatus, FetchStatus, FetchResult, vars
  <1>3. ASSUME NEW c \in Call, calls[c].pc = "enqueue", calls[c].run = r
        PROVE  Pending(r)'
    <2>1. CASE calls'[c] = calls[c]
      BY <1>3, <2>1 DEF Pending
    <2>2. CASE Enqueue(c)
      <3>1. queue' = Append(queue, r) /\ Len(queue) + 1 \in DOMAIN queue' /\ queue'[Len(queue) + 1] = r
        BY <1>3, <2>2, AppendProperties, LenProperties DEF Enqueue, TypeOK
      <3> QED BY <3>1 DEF Pending
    <2>3. ASSUME NEW d \in Call, d # c, Requests(d) \/ Serve(d) \/ Reply(d) PROVE calls'[c] = calls[c]
      <3>1. ASSUME NEW x, Become(d, x) PROVE calls'[c] = calls[c]
        BY <2>3, <3>1 DEF Become, TypeOK
      <3>2. CASE Requests(d)
        BY <3>1, <3>2 DEF Requests, Arrive
      <3>3. CASE Serve(d) \/ Reply(d)
        BY <3>1, <3>3 DEF Serve, SubmitCheck, SubmitReject, SubmitRegister, Enqueue, Get, ReadStatus,
                         FetchStatus, FetchResult, SetCancel, SettleCancel, Go, Answer, Reply
      <3> QED BY <2>3, <3>2, <3>3
    <2>4. ASSUME Requests(c) \/ Serve(c) \/ Reply(c) PROVE Enqueue(c)
      BY <1>3, <2>4 DEF Requests, Arrive, Serve, SubmitCheck, SubmitReject, SubmitRegister, Get, ReadStatus,
                   FetchStatus, FetchResult, SetCancel, SettleCancel, Reply
    <2>5. ASSUME NEW w \in Worker, Execute(w) \/ Callback(w) PROVE calls'[c] = calls[c]
      BY <2>5 DEF Execute, Callback, Take, Start, StoreResult, Succeed, Fail
    <2>6. ASSUME Restart PROVE FALSE
      BY <2>6 DEF Restart, NoJob, TypeOK, Jobs
    <2>7. UNCHANGED vars => calls'[c] = calls[c]
      BY DEF vars
    <2> QED BY <2>1, <2>2, <2>3, <2>4, <2>5, <2>6, <2>7 DEF Next
  <1>4. ASSUME NEW i \in DOMAIN queue, queue[i] = r
        PROVE  Pending(r)'
    <2>1. CASE UNCHANGED queue
      BY <1>4, <2>1 DEF Pending
    <2>2. ASSUME NEW c \in Call, Enqueue(c) PROVE Pending(r)'
      <3>1. i \in DOMAIN queue' /\ queue'[i] = r
        <4>1. calls[c].run \in Run
          BY <2>2 DEF Enqueue, RunsOnce
        <4> QED BY <1>4, <2>2, <4>1, AppendProperties, LenProperties DEF Enqueue, TypeOK
      <3> QED BY <3>1 DEF Pending
    <2>3. ASSUME NEW w \in Worker, Take(w) PROVE Pending(r)'
      <3>1. CASE i = 1
        <4>1. worker'[w].pc = "starting" /\ worker'[w].run = r
          BY <1>4, <2>3, <3>1, HeadTailProperties DEF Take, TypeOK
        <4> QED BY <4>1 DEF Pending
      <3>2. CASE i # 1
        <4>1. i - 1 \in DOMAIN queue' /\ queue'[i - 1] = r
          BY <1>4, <2>3, <3>2, HeadTailProperties, LenProperties DEF Take, TypeOK
        <4> QED BY <4>1 DEF Pending
      <3> QED BY <3>1, <3>2
    <2>4. ASSUME Restart PROVE FALSE
      BY <2>4 DEF Restart, NoJob, TypeOK, Jobs
    <2> QED BY <2>1, <2>2, <2>3, <2>4
            DEF Next, Serve, Execute, Callback, Start, StoreResult, Succeed, Fail, Requests, Arrive, Reply,
                SubmitCheck, SubmitReject, SubmitRegister, Get, ReadStatus, FetchStatus, FetchResult,
                SetCancel, SettleCancel, vars
  <1>5. ASSUME NEW w \in Worker, worker[w].pc = "starting", worker[w].run = r, jobs[r].status = "queued"
        PROVE  Pending(r)'
    <2>1. CASE worker'[w] = worker[w]
      BY <1>5, <2>1 DEF Pending
    <2>2. ASSUME Start(w) PROVE FALSE
      BY <1>5, <2>2 DEF Start, TypeOK, Jobs
    <2>3. ASSUME NEW v \in Worker, v # w, Execute(v) \/ Callback(v) PROVE worker'[w] = worker[w]
      BY <2>3 DEF Execute, Callback, Take, Start, StoreResult, Succeed, Fail, TypeOK
    <2>4. ASSUME Execute(w) \/ Callback(w) PROVE Start(w)
      BY <1>5, <2>4 DEF Execute, Callback, Take, StoreResult, Succeed, Fail
    <2>5. ASSUME Restart PROVE FALSE
      BY <2>5 DEF Restart, NoJob, TypeOK, Jobs
    <2>6. ASSUME NEW c \in Call, Requests(c) \/ Serve(c) \/ Reply(c) PROVE worker' = worker
      BY <2>6 DEF Serve, Requests, Arrive, Reply, SubmitCheck, SubmitReject, SubmitRegister, Enqueue, Get,
                  ReadStatus, FetchStatus, FetchResult, SetCancel, SettleCancel
    <2>7. UNCHANGED vars => worker'[w] = worker[w]
      BY DEF vars
    <2> QED BY <2>1, <2>2, <2>3, <2>4, <2>5, <2>6, <2>7 DEF Next
  <1>6. CASE jobs[r].status = "queued"
    <2>1. Pending(r)
      BY <1>6
    <2> QED BY <1>3, <1>4, <1>5, <1>6, <2>1 DEF Pending
  <1> QED BY <1>1, <1>2, <1>6

\* Every queued job is on its way to a thread of the pool.
THEOREM NoJobIsStranded == Spec => []QueuedIsPending
  <1> DEFINE P == \A r \in Run : jobs[r].status = "queued" => Pending(r)
  <1>1. Init => P
    BY DEF Init, NoJob
  <1>2. IInv /\ P /\ [Next]_vars => P'
    BY PendingNext
  <1>3. P => QueuedIsPending
    BY DEF QueuedIsPending, Pending, Enqueuing, Queued, Starting
  <1> QED
    <2> HIDE DEF P
    <2> QED BY <1>1, <1>2, <1>3, Invariance, PTL DEF Spec
===============================================================================
