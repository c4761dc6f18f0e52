--------------------------- MODULE HttpRerunProofs ---------------------------
(***************************************************************************)
(* Proofs about clients and the runner service, for any number of clients, *)
(* calls, jobs, threads, retries and restarts: the clients use the service *)
(* as specified, so what RunnerProofs says holds in the composition, and   *)
(* with it what the clients were told, return and leave behind.            *)
(***************************************************************************)
EXTENDS HttpRerun, RunnerProofs

ClientState == [pc : (DOMAIN KindAt) \cup Ended \cup {"idle"}, run : Run \cup {None},
                call : Call \cup {None}, tries : 0..MaxRetries,
                expired : BOOLEAN, told : BOOLEAN]

Done(r) == jobs[r].status \in {"succeeded", "gone"}
Born(r) == r \in Run /\ jobs[r].status # "none"

\* What a call was answered is true of its job.
CallOK(c) ==
    LET x == calls[c] IN
    /\ x.run # None => Born(x.run)
    /\ x.kind = "submit" /\ x.run # None => jobs[x.run].key = x.key
    /\ x.pc = "answered" /\ x.answer \notin {"unknown", "refused"} => x.run # None
    /\ x.pc = "answered" /\ x.answer = "succeeded" => Done(x.run)
    /\ x.pc = "answered" /\ x.answer = "result" => Done(x.run) /\ jobs[x.run].result
    /\ x.pc = "read" => x.kind # "fetch"
    /\ x.pc = "answered" /\ x.kind = "fetch" => x.answer \in {"unknown", "refused", "result"}

CallInv ==
    /\ \A k \in Key : submissions[k] # None =>
          Born(submissions[k]) /\ jobs[submissions[k]].key = k
    /\ \A c \in Call : CallOK(c)

\* The job of a client is its own and as far as the client believes.
Owns(k, x) ==
    /\ x.pc \in {"poll", "fetch", "cancel", "done"} => Born(x.run) /\ jobs[x.run].key = k
    /\ x.pc \in {"fetch", "done"} => Done(x.run)
    /\ x.pc = "done" => jobs[x.run].result
    /\ x.told => x.pc = "raised" /\ Born(x.run) /\ jobs[x.run].cancel

\* The call a client waits for is the one it made.
Linked(k, x) ==
    x.call # None =>
        /\ x.pc \in DOMAIN KindAt
        /\ calls[x.call].pc # "free" /\ calls[x.call].kind = KindAt[x.pc]
        /\ IF x.pc = "submit" THEN calls[x.call].key = k ELSE calls[x.call].run = x.run

\* A fetch that got past the lock finds the result.
Fetches(x) ==
    x.pc = "fetch" /\ x.call # None =>
        /\ calls[x.call].pc \in {"fetch", "result"} => jobs[x.run].result
        /\ calls[x.call].pc = "answered" => calls[x.call].answer \in {"result", "unknown"}

ClientInv ==
    /\ client \in [Key -> ClientState]
    /\ \A k \in Key : Owns(k, client[k]) /\ Linked(k, client[k]) /\ Fetches(client[k])
    /\ \A k, j \in Key : client[k].call = client[j].call /\ client[k].call # None => k = j

HInv == IInv /\ CancelInv /\ CallInv /\ ClientInv
------------------------------------------------------------------------------
(* The service                                                              *)

LEMMA PlacesOfRun == DOMAIN KindAt = {"submit", "poll", "fetch", "cancel"}
  BY DEF KindAt

\* A job that was created keeps its key and its result, a cancellation stays
\* requested and a success is undone by a restart only.
LEMMA JobsGrow ==
    ASSUME IInv, [Next]_vars, NEW r \in Run, jobs[r].status # "none"
    PROVE  /\ jobs'[r].status # "none" /\ jobs'[r].key = jobs[r].key
           /\ jobs[r].cancel => jobs'[r].cancel
           /\ jobs[r].result => jobs'[r].result
           /\ jobs[r].status \in {"succeeded", "gone"} => jobs'[r].status \in {"succeeded", "gone"}
  <1> USE DEF IInv
  <1>1. CASE UNCHANGED jobs
    BY <1>1
  <1>2. ASSUME NEW c \in Call, SubmitRegister(c) PROVE jobs'[r] = jobs[r]
    BY <1>2 DEF SubmitRegister, TypeOK
  <1>3. ASSUME NEW c \in Call, SetCancel(c) \/ SettleCancel(c)
        PROVE  \/ jobs'[r] = jobs[r] \/ jobs'[r] = [jobs[r] EXCEPT !.cancel = TRUE]
               \/ jobs[r].status = "queued" /\ jobs'[r] = [jobs[r] EXCEPT !.status = "cancelled"]
    <2>1. calls[c].run \in Run /\ jobs[r] = [jobs[r] EXCEPT !.status = @]
      BY <1>3 DEF SetCancel, SettleCancel, CallsOwnJobs, Known, TypeOK, Jobs
    <2>2. CASE r # calls[c].run
      BY <1>3, <2>1, <2>2 DEF SetCancel, SettleCancel, TypeOK
    <2>3. CASE r = calls[c].run
      BY <1>3, <2>1, <2>3 DEF SetCancel, SettleCancel, TypeOK
    <2> QED BY <2>2, <2>3
  <1>4. jobs[r] \in Jobs
    BY DEF TypeOK
  <1>5. ASSUME NEW c \in Call, SetCancel(c) \/ SettleCancel(c)
        PROVE  /\ jobs'[r].status # "none" /\ jobs'[r].key = jobs[r].key
               /\ jobs[r].cancel => jobs'[r].cancel
               /\ jobs[r].result => jobs'[r].result
               /\ jobs[r].status \in {"succeeded", "gone"} => jobs'[r].status \in {"succeeded", "gone"}
    BY <1>3, <1>4, <1>5 DEF Jobs
  <1>6. CASE \E w \in Worker : Start(w) \/ StoreResult(w) \/ Fail(w)
    BY <1>6 DEF Start, StoreResult, Fail, TypeOK, Jobs, WorkersOwnJobs
  <1>7. ASSUME NEW w \in Worker, Succeed(w)
        PROVE  \/ jobs'[r] = jobs[r]
               \/ /\ jobs[r].status = "running" /\ ~jobs[r].result
                  /\ jobs'[r].key = jobs[r].key /\ jobs'[r].cancel = jobs[r].cancel
                  /\ jobs'[r].status # "none"
    <2>1. r # worker[w].run => jobs'[r] = jobs[r]
      BY <1>7 DEF Succeed, TypeOK
    <2>2. jobs[r].result => jobs[r].status \in {"succeeded", "gone"}
      BY DEF ResultOfSuccess
    <2> QED BY <1>7, <2>1, <2>2, SucceedEffect DEF TypeOK, Jobs
  <1>8. CASE Restart
    BY <1>8 DEF Restart, TypeOK, Jobs
  <1> QED BY <1>1, <1>2, <1>5, <1>6, <1>7, <1>8
          DEF Next, Serve, Execute, Callback, Take, Requests, Arrive, Reply, SubmitCheck, SubmitReject,
              Enqueue, Get, ReadStatus, FetchStatus, FetchResult, vars

\* A handler takes a request further and leaves it the request it was.
SameRequest(c) ==
    /\ calls'[c].pc # "free" /\ calls'[c].kind = calls[c].kind
    /\ calls'[c].key = calls[c].key
    /\ calls[c].kind # "submit" => calls'[c].run = calls[c].run

\* What a handler makes of its own call.
LEMMA HandlerMoves ==
    ASSUME IInv, NEW c \in Call, NEW x, Become(c, x)
    PROVE  calls'[c] = x /\ \A d \in Call : d # c => calls'[d] = calls[d]
  BY DEF Become, IInv, TypeOK

LEMMA ServeKeepsRequest ==
    ASSUME IInv, NEW c \in Call, Serve(c)
    PROVE  /\ SameRequest(c)
           /\ \A d \in Call : d # c => calls'[d] = calls[d]
  <1> DEFINE x == calls[c]
  <1>1. x \in Calls
    BY DEF IInv, TypeOK
  <1>2. ASSUME NEW pc \in CallPCs \ {"free"}, Go(c, pc) PROVE SameRequest(c)
    <2>1. calls'[c] = [x EXCEPT !.pc = pc]
      BY <1>2, HandlerMoves DEF Go
    <2> QED BY <1>1, <2>1 DEF SameRequest, Calls
  <1>3. ASSUME NEW a \in Answers, Answer(c, a) PROVE SameRequest(c)
    <2>1. calls'[c] = [x EXCEPT !.pc = "answered", !.answer = a]
      BY <1>3, HandlerMoves DEF Answer
    <2> QED BY <1>1, <2>1 DEF SameRequest, Calls
  <1>4. ASSUME NEW pc \in CallPCs \ {"free"}, NEW r, Become(c, [x EXCEPT !.pc = pc, !.run = r]),
               x.kind = "submit"
        PROVE  SameRequest(c)
    <2>1. calls'[c] = [x EXCEPT !.pc = pc, !.run = r]
      BY <1>4, HandlerMoves
    <2> QED BY <1>1, <1>4, <2>1 DEF SameRequest, Calls
  <1>5. \A d \in Call : d # c => calls'[d] = calls[d]
    BY HandlerMoves DEF Serve, SubmitCheck, SubmitReject, SubmitRegister, Enqueue, Get, ReadStatus,
                        FetchStatus, FetchResult, SetCancel, SettleCancel, Go, Answer
  <1>6. SameRequest(c)
    <2>1. {"check", "register", "enqueue", "read", "fetch", "result", "set", "settle", "answered"}
              \subseteq CallPCs \ {"free"}
      BY DEF CallPCs
    <2>2. CASE SubmitCheck(c) \/ SubmitRegister(c)
      BY <1>2, <1>4, <2>1, <2>2 DEF SubmitCheck, SubmitRegister, IInv, CallsOwnJobs
    <2>3. CASE SubmitReject(c) \/ FetchStatus(c) \/ FetchResult(c) \/ Get(c)
      BY <1>2, <1>3, <2>1, <2>3 DEF SubmitReject, FetchStatus, FetchResult, Get, Answers
    <2>4. CASE Enqueue(c) \/ SetCancel(c) \/ SettleCancel(c)
      BY <1>2, <2>1, <2>4 DEF Enqueue, SetCancel, SettleCancel
    <2>5. CASE ReadStatus(c)
      <3>1. jobs[x.run].status \in Answers
        BY <2>5 DEF ReadStatus, IInv, TypeOK, CallsOwnJobs, Known, Jobs, Answers
      <3> QED BY <1>3, <2>5, <3>1 DEF ReadStatus
    <2> QED BY <2>2, <2>3, <2>4, <2>5 DEF Serve
  <1> QED BY <1>5, <1>6

LEMMA AnswerFields ==
    ASSUME NEW x \in Calls, NEW a \in Answers
    PROVE  LET y == [x EXCEPT !.pc = "answered", !.answer = a]
           IN  y.pc = "answered" /\ y.answer = a /\ y.run = x.run /\ y.key = x.key /\ y.kind = x.kind
  BY DEF Calls

\* A call that was not touched was answered truly, and still is.
LEMMA CallStays ==
    ASSUME IInv, [Next]_vars, NEW c \in Call, CallOK(c), calls'[c] = calls[c]
    PROVE  CallOK(c)'
  <1> DEFINE x == calls[c]
  <1>1. x.run # None => x.run \in Run /\ jobs[x.run].status # "none"
    BY DEF CallOK, Born
  <1>2. x.run # None =>
          /\ jobs'[x.run].status # "none" /\ jobs'[x.run].key = jobs[x.run].key
          /\ jobs[x.run].result => jobs'[x.run].result
          /\ jobs[x.run].status \in {"succeeded", "gone"} => jobs'[x.run].status \in {"succeeded", "gone"}
    BY <1>1, JobsGrow
  <1> QED BY <1>1, <1>2 DEF CallOK, Born, Done

\* A handler that leaves its job alone answers the truth.
LEMMA HandlerTruth ==
    ASSUME IInv, CallInv, NEW c \in Call, Serve(c), ~SubmitRegister(c), [Next]_vars
    PROVE  CallOK(c)'
  <1> DEFINE x == calls[c]
  <1>1. x \in Calls
    BY DEF IInv, TypeOK
  <1>2. CallOK(c)
    BY DEF CallInv
  <1>3. x.run # None =>
          /\ x.run \in Run /\ jobs'[x.run].status # "none" /\ jobs'[x.run].key = jobs[x.run].key
          /\ jobs[x.run].result => jobs'[x.run].result
          /\ jobs[x.run].status \in {"succeeded", "gone"} => jobs'[x.run].status \in {"succeeded", "gone"}
    BY <1>2, JobsGrow DEF CallOK, Born
  <1>4. ASSUME NEW pc \in CallPCs \ {"free", "answered"}, Go(c, pc), pc = "read" => x.kind # "fetch"
        PROVE  CallOK(c)'
    <2>1. calls'[c] = [x EXCEPT !.pc = pc]
      BY <1>4, HandlerMoves DEF Go
    <2>2. /\ calls'[c].pc = pc /\ calls'[c].run = x.run /\ calls'[c].key = x.key
          /\ calls'[c].kind = x.kind
      BY <1>1, <2>1, CallFieldValues
    <2> QED BY <1>2, <1>3, <1>4, <2>2 DEF CallOK, Born
  <1>5. ASSUME NEW a \in Answers, Answer(c, a),
               a \notin {"unknown", "refused"} => x.run # None,
               a = "succeeded" => Done(x.run),
               a = "result" => Done(x.run) /\ jobs[x.run].result,
               x.kind = "fetch" => a \in {"unknown", "refused", "result"}
        PROVE  CallOK(c)'
    <2>1. calls'[c] = [x EXCEPT !.pc = "answered", !.answer = a]
      BY <1>5, HandlerMoves DEF Answer
    <2>2. /\ calls'[c].pc = "answered" /\ calls'[c].run = x.run /\ calls'[c].key = x.key
          /\ calls'[c].kind = x.kind /\ calls'[c].answer = a
      BY <1>1, <2>1, AnswerFields
    <2> QED BY <1>2, <1>3, <1>5, <2>2 DEF CallOK, Born, Done
  <1>6. {"check", "register", "enqueue", "read", "fetch", "result", "set", "settle"}
            \subseteq CallPCs \ {"free", "answered"}
    BY DEF CallPCs
  <1>7. CASE SubmitCheck(c)
    <2>1. CASE Go(c, "register")
      BY <1>4, <1>6, <2>1
    <2>2. CASE ~Go(c, "register")
      <3> DEFINE r == submissions[x.key]
      <3>1. x.key \in Key /\ x.kind = "submit"
        BY <1>7 DEF SubmitCheck, IInv, CallsOwnJobs
      <3>2. Known(r) /\ Become(c, [x EXCEPT !.pc = "read", !.run = r]) /\ UNCHANGED jobs
        BY <1>7, <2>2 DEF SubmitCheck
      <3>3. r \in Run /\ r # None /\ jobs[r].status # "none" /\ jobs[r].key = x.key
        BY <3>1, <3>2, RunnerAssumption DEF Known, CallInv, Born
      <3>4. calls'[c] = [x EXCEPT !.pc = "read", !.run = r]
        BY <3>2, HandlerMoves
      <3>5. calls'[c].pc = "read" /\ calls'[c].run = r /\ calls'[c].key = x.key /\ calls'[c].kind = x.kind
        BY <1>1, <3>4 DEF Calls
      <3> QED BY <3>1, <3>2, <3>3, <3>5 DEF CallOK, Born
    <2> QED BY <2>1, <2>2
  <1>8. CASE SubmitReject(c)
    <2>1. Answer(c, "refused") /\ "refused" \in Answers
      BY <1>8 DEF SubmitReject, Answers
    <2> QED BY <1>5, <2>1
  <1>9. CASE Enqueue(c) \/ SettleCancel(c) \/ SetCancel(c)
    <2>1. x.kind # "fetch"
      BY <1>9 DEF Enqueue, SettleCancel, SetCancel, IInv, CallsOwnJobs
    <2> QED BY <1>4, <1>6, <1>9, <2>1 DEF Enqueue, SettleCancel, SetCancel
  <1>10. CASE Get(c)
    <2>1. CASE Answer(c, "unknown")
      <3>1. "unknown" \in Answers
        BY DEF Answers
      <3> QED BY <1>5, <2>1, <3>1
    <2>2. CASE ~Answer(c, "unknown")
      BY <1>4, <1>6, <1>10, <2>2 DEF Get
    <2> QED BY <2>1, <2>2
  <1>11. CASE ReadStatus(c)
    <2> DEFINE s == jobs[x.run].status
    <2>1. Answer(c, s) /\ x.kind # "fetch" /\ Known(x.run)
      BY <1>2, <1>11 DEF ReadStatus, CallOK, IInv, CallsOwnJobs
    <2>2. x.run \in Run /\ x.run # None /\ s \in JobStatus
      BY <2>1, RunnerAssumption DEF Known, IInv, TypeOK, Jobs
    <2>3. s \in Answers /\ s # "result"
      BY <2>2 DEF Answers, JobStatus, Terminal
    <2>4. s = "succeeded" => Done(x.run)
      BY DEF Done
    <2> QED BY <1>5, <2>1, <2>2, <2>3, <2>4
  <1>12. CASE FetchStatus(c)
    <2>1. CASE Answer(c, "refused")
      <3>1. "refused" \in Answers
        BY DEF Answers
      <3> QED BY <1>5, <2>1, <3>1
    <2>2. CASE ~Answer(c, "refused")
      BY <1>4, <1>6, <1>12, <2>2 DEF FetchStatus
    <2> QED BY <2>1, <2>2
  <1>13. CASE FetchResult(c)
    <2> DEFINE a == IF jobs[x.run].result THEN "result" ELSE "refused"
    <2>1. Answer(c, a) /\ a \in Answers
      BY <1>13 DEF FetchResult, Answers
    <2>2. x.run \in Run /\ x.run # None /\ jobs[x.run].status = "succeeded"
      BY <1>13, RunnerAssumption DEF FetchResult, IInv, CallsOwnJobs, Known
    <2>3. a # "succeeded" /\ a \in {"result", "refused"} /\ (a = "result" => Done(x.run) /\ jobs[x.run].result)
      BY <2>2 DEF Done
    <2> QED BY <1>5, <2>1, <2>2, <2>3
  <1> QED BY <1>7, <1>8, <1>9, <1>10, <1>11, <1>12, <1>13 DEF Serve

LEMMA CallNext == IInv /\ CallInv /\ [Next]_vars => CallInv'
  <1> SUFFICES ASSUME IInv, CallInv, [Next]_vars PROVE CallInv'
    OBVIOUS
  <1>1. CASE Restart
    BY <1>1 DEF Restart, CallInv, CallOK, Free
  <1>2. ASSUME ~Restart, ~(\E c \in Call : SubmitRegister(c))
        PROVE  \A k \in Key : submissions'[k] # None =>
                  Born(submissions[k])' /\ jobs'[submissions'[k]].key = k
    <2>1. submissions' = submissions
      BY <1>2 DEF Next, Serve, Execute, Callback, Take, Start, StoreResult, Succeed, Fail, Requests, Arrive,
                  Reply, SubmitCheck, SubmitReject, Enqueue, Get, ReadStatus, FetchStatus, FetchResult,
                  SetCancel, SettleCancel, vars
    <2> QED BY <2>1, JobsGrow DEF CallInv, Born
  <1>3. ASSUME NEW c \in Call, SubmitRegister(c) PROVE CallInv'
    <2> DEFINE x == calls[c]
    <2>1. PICK r \in Run :
            /\ jobs[r].status = "none"
            /\ jobs' = [jobs EXCEPT ![r] = [NoJob EXCEPT !.key = x.key, !.status = "queued"]]
            /\ submissions' = [submissions EXCEPT ![x.key] = r]
            /\ Become(c, [x EXCEPT !.pc = "enqueue", !.run = r])
      BY <1>3 DEF SubmitRegister
    <2>2. jobs'[r].status = "queued" /\ jobs'[r].key = x.key
      BY <2>1 DEF IInv, TypeOK, NoJob
    <2>3. x.key \in Key /\ x \in Calls
      BY <1>3 DEF SubmitRegister, IInv, CallsOwnJobs, TypeOK
    <2>4. submissions'[x.key] = r /\ \A k \in Key \ {x.key} : submissions'[k] = submissions[k]
      BY <2>1, <2>3 DEF IInv, TypeOK
    <2>5. \A k \in Key : submissions'[k] # None => Born(submissions[k])' /\ jobs'[submissions'[k]].key = k
      BY <2>2, <2>4, JobsGrow DEF CallInv, Born
    <2>6. calls'[c].pc = "enqueue" /\ calls'[c].run = r /\ calls'[c].key = x.key
      <3>1. calls'[c] = [x EXCEPT !.pc = "enqueue", !.run = r]
        BY <2>1, HandlerMoves
      <3> QED BY <2>3, <3>1 DEF Calls
    <2>7. CallOK(c)'
      BY <2>2, <2>6 DEF CallOK, Born
    <2>8. \A d \in Call : d # c => CallOK(d)'
      BY <2>1, HandlerMoves, CallStays DEF CallInv
    <2> QED BY <2>5, <2>7, <2>8 DEF CallInv
  <1>4. ASSUME NEW c \in Call, Serve(c), ~SubmitRegister(c) PROVE \A d \in Call : CallOK(d)'
    BY <1>4, HandlerTruth, ServeKeepsRequest, CallStays DEF CallInv
  <1>5. ASSUME NEW c \in Call, Requests(c) \/ Reply(c) PROVE \A d \in Call : CallOK(d)'
    <2>1. UNCHANGED jobs
      BY <1>5 DEF Requests, Arrive, Reply
    <2>2. \A d \in Call : d # c => calls'[d] = calls[d]
      BY <1>5, HandlerMoves DEF Requests, Arrive, Reply
    <2>3. CASE Reply(c)
      <3>1. calls'[c] = Free
        BY <2>3, HandlerMoves DEF Reply
      <3> QED BY <2>2, <3>1, CallStays DEF CallInv, CallOK, Free
    <2>4. ASSUME NEW k \in Key, Arrive(c, "submit", k, None) PROVE CallOK(c)'
      <3>1. calls'[c] = [pc |-> "check", kind |-> "submit", key |-> k, run |-> None, answer |-> "none"]
        BY <2>4, HandlerMoves DEF Arrive
      <3> QED BY <3>1 DEF CallOK
    <2>5. ASSUME NEW kind \in Kinds \ {"submit"}, NEW r \in Run, jobs[r].status # "none",
                 Arrive(c, kind, None, r)
          PROVE  CallOK(c)'
      <3>1. calls'[c] = [pc |-> "get", kind |-> kind, key |-> None, run |-> r, answer |-> "none"]
        BY <2>5, HandlerMoves DEF Arrive
      <3> QED BY <2>1, <2>5, <3>1 DEF CallOK, Born
    <2> QED BY <1>5, <2>2, <2>3, <2>4, <2>5, CallStays DEF CallInv, Requests
  <1>6. ASSUME UNCHANGED calls PROVE \A d \in Call : CallOK(d)'
    BY <1>6, CallStays DEF CallInv
  <1>7. ~Restart => UNCHANGED calls \/ \E c \in Call : Requests(c) \/ Serve(c) \/ Reply(c)
    BY DEF Next, Execute, Callback, Take, Start, StoreResult, Succeed, Fail, vars
  <1> QED BY <1>1, <1>2, <1>3, <1>4, <1>5, <1>6, <1>7 DEF CallInv
------------------------------------------------------------------------------
(* The clients                                                              *)

\* What a job is to its client it stays, whatever the service does.
LEMMA OwnsKept ==
    ASSUME IInv, [Next]_vars, NEW k \in Key, NEW x, Owns(k, x)
    PROVE  Owns(k, x)'
  <1>1. Born(x.run) =>
          /\ x.run \in Run /\ jobs'[x.run].status # "none" /\ jobs'[x.run].key = jobs[x.run].key
          /\ jobs[x.run].cancel => jobs'[x.run].cancel
          /\ jobs[x.run].result => jobs'[x.run].result
          /\ jobs[x.run].status \in {"succeeded", "gone"} => jobs'[x.run].status \in {"succeeded", "gone"}
    BY JobsGrow DEF Born
  <1> QED BY <1>1 DEF Owns, Born, Done

\* A request that stays where it is, or that the service takes one step
\* further, is still the client's; the lock keeps a fetch behind the result.
LEMMA WaitsOn ==
    ASSUME IInv, CallInv, [Next]_vars, NEW k \in Key, NEW x, x.call \in Call,
           Owns(k, x), Linked(k, x), Fetches(x),
           calls'[x.call] = calls[x.call] \/ Serve(x.call)
    PROVE  Linked(k, x)' /\ Fetches(x)'
  <1> DEFINE c == x.call
  <1>1. c # None
    BY RunnerAssumption
  <1>2. calls'[c].pc # "free" /\ calls'[c].kind = calls[c].kind
        /\ calls'[c].key = calls[c].key /\ (calls[c].kind # "submit" => calls'[c].run = calls[c].run)
    BY <1>1, ServeKeepsRequest DEF Linked, SameRequest
  <1>3. x.pc # "submit" => calls[c].kind # "submit"
    BY <1>1, PlacesOfRun DEF Linked, KindAt
  <1>4. Linked(k, x)'
    BY <1>1, <1>2, <1>3 DEF Linked
  <1>5. ASSUME x.pc = "fetch" PROVE Fetches(x)'
    <2>1. calls[c].kind = "fetch" /\ calls[c].run = x.run /\ calls[c].pc # "free"
      BY <1>1, <1>5 DEF Linked, KindAt
    <2>2. x.run \in Run /\ jobs[x.run].status \in {"succeeded", "gone"} /\ calls[c] \in Calls
      BY <1>5 DEF Owns, Born, Done, IInv, TypeOK
    <2>3. jobs[x.run].result => jobs'[x.run].result
      BY <1>5, JobsGrow DEF Owns, Born
    <2>4. CASE calls'[c] = calls[c]
      BY <1>1, <1>5, <2>3, <2>4 DEF Fetches
    <2>5. CASE Get(c)
      <3>1. CASE Answer(c, "unknown")
        <4>1. calls'[c] = [calls[c] EXCEPT !.pc = "answered", !.answer = "unknown"]
          BY <3>1, HandlerMoves DEF Answer
        <4> QED BY <2>2, <4>1 DEF Fetches, Calls
      <3>2. CASE ~Answer(c, "unknown")
        <4>1. lock = None /\ jobs[x.run].status = "succeeded" /\ Go(c, "fetch")
          BY <2>1, <2>2, <2>5, <3>2 DEF Get, Known
        <4>2. jobs[x.run].result
          BY <2>2, <4>1, RunnerAssumption DEF IInv, ResultOfSuccess, LockIsStoring
        <4>3. calls'[c].pc = "fetch"
          BY <2>2, <4>1, HandlerMoves DEF Go, Calls
        <4> QED BY <2>3, <4>2, <4>3 DEF Fetches
      <3> QED BY <3>1, <3>2
    <2>6. CASE FetchStatus(c)
      <3>1. jobs[x.run].status = "succeeded" /\ jobs[x.run].result
        BY <1>1, <1>5, <2>1, <2>2, <2>6 DEF FetchStatus, IInv, CallsOwnJobs, Known, Fetches
      <3>2. calls'[c] = [calls[c] EXCEPT !.pc = "result"]
        BY <2>1, <2>6, <3>1, HandlerMoves DEF FetchStatus, Go
      <3>3. calls'[c].pc = "result"
        BY <2>2, <3>2 DEF Calls
      <3> QED BY <2>3, <3>1, <3>3 DEF Fetches
    <2>7. CASE FetchResult(c)
      <3>1. jobs[x.run].result
        BY <1>1, <1>5, <2>7 DEF FetchResult, Fetches
      <3>2. calls'[c] = [calls[c] EXCEPT !.pc = "answered", !.answer = "result"]
        BY <2>1, <2>7, <3>1, HandlerMoves DEF FetchResult, Answer
      <3> QED BY <2>2, <3>2 DEF Fetches, Calls
    <2>8. CASE ReadStatus(c) \/ SubmitCheck(c) \/ SubmitReject(c) \/ SubmitRegister(c) \/ Enqueue(c)
               \/ SetCancel(c) \/ SettleCancel(c)
      <3>1. ReadStatus(c)
        BY <2>1, <2>8 DEF SubmitCheck, SubmitReject, SubmitRegister, Enqueue, SetCancel, SettleCancel,
                          IInv, CallsOwnJobs
      <3> QED BY <2>1, <3>1 DEF ReadStatus, CallInv, CallOK
    <2> QED BY <2>4, <2>5, <2>6, <2>7, <2>8 DEF Serve
  <1> QED BY <1>4, <1>5 DEF Fetches

\* A client that moves on waits for nothing.
LEMMA MovesOn ==
    ASSUME NEW x \in ClientState, NEW pc \in (DOMAIN KindAt) \cup Ended
    PROVE  /\ At(x, pc) \in ClientState
           /\ At(x, pc).pc = pc /\ At(x, pc).call = None /\ At(x, pc).run = x.run /\ At(x, pc).told = x.told
  <1>1. At(x, pc) = [pc |-> pc, run |-> x.run, call |-> None, tries |-> 0,
                     expired |-> x.expired, told |-> x.told]
    <2>1. [x EXCEPT !.pc = pc] = [pc |-> pc, run |-> x.run, call |-> x.call, tries |-> x.tries,
                                  expired |-> x.expired, told |-> x.told]
      BY DEF ClientState
    <2>2. At(x, pc) = [[x EXCEPT !.pc = pc] EXCEPT !.call = None, !.tries = 0]
      BY DEF At
    <2> QED BY <2>1, <2>2
  <1>2. 0 \in 0..MaxRetries
    BY RetriesAssumption
  <1>3. x.run \in Run \cup {None} /\ x.expired \in BOOLEAN /\ x.told \in BOOLEAN
    BY DEF ClientState
  <1>4. At(x, pc) \in ClientState
    BY <1>1, <1>2, <1>3 DEF ClientState
  <1> QED BY <1>1, <1>4

\* A request that fails is tried again, or the call of run() cancels or raises.
LEMMA GivesUp ==
    ASSUME NEW k \in Key, NEW x \in ClientState, Owns(k, x), x.pc \in DOMAIN KindAt,
           NEW y, y = Lost(x) \/ y = Failed(x)
    PROVE  y \in ClientState /\ y.call = None /\ Owns(k, y)
  <1>1. Failed(x) \in ClientState /\ Failed(x).call = None /\ Failed(x).run = x.run
        /\ Failed(x).told = x.told
        /\ Failed(x).pc \in {"raised", "cancel"}
        /\ (Failed(x).pc = "cancel" => x.pc \in {"poll", "fetch"})
    <2>1. "raised" \in Ended /\ "cancel" \in DOMAIN KindAt
      BY PlacesOfRun DEF Ended
    <2> QED BY <2>1, MovesOn, PlacesOfRun DEF Failed
  <1>2. CASE y = Failed(x)
    BY <1>1, <1>2, PlacesOfRun DEF Owns
  <1>3. CASE y # Failed(x)
    <2>1. y = [x EXCEPT !.call = None, !.tries = @ + 1] /\ x.tries < MaxRetries
      BY <1>3 DEF Lost
    <2>2. y = [pc |-> x.pc, run |-> x.run, call |-> None, tries |-> x.tries + 1,
               expired |-> x.expired, told |-> x.told]
      BY <2>1 DEF ClientState
    <2>3. x.tries + 1 \in 0..MaxRetries
      BY <2>1, RetriesAssumption DEF ClientState
    <2> QED BY <2>2, <2>3 DEF ClientState, Owns
  <1> QED BY <1>2, <1>3

\* What a client may become in a step: it owns what it says, and the request
\* it waits for is the one it waited for.
Follows(k, y) ==
    LET x == client[k] IN
    /\ y \in ClientState /\ Owns(k, y)
    /\ y.call # None =>
          /\ y.call = x.call /\ y.pc = x.pc /\ y.run = x.run
          /\ calls'[x.call] = calls[x.call] \/ Serve(x.call)

LEMMA ClientsFollow ==
    ASSUME HInv, [Next]_vars, client' \in [Key -> ClientState],
           \A k \in Key : Follows(k, client'[k])
    PROVE  ClientInv'
  <1>1. \A k, j \in Key : client'[k].call = client'[j].call /\ client'[k].call # None => k = j
    BY DEF HInv, ClientInv, Follows
  <1>2. ASSUME NEW k \in Key PROVE (Owns(k, client[k]) /\ Linked(k, client[k]) /\ Fetches(client[k]))'
    <2> DEFINE x == client[k]
               y == client'[k]
    <2>1. Follows(k, y) /\ x \in ClientState /\ Linked(k, x) /\ Fetches(x) /\ Owns(k, x) /\ IInv /\ CallInv
      BY DEF HInv, ClientInv
    <2>2. Owns(k, client[k])'
      BY <2>1, OwnsKept DEF Follows, Owns, Born, Done
    <2>3. CASE y.call = None
      BY <2>2, <2>3 DEF Linked, Fetches
    <2>4. CASE y.call # None
      <3>1. y.call = x.call /\ y.pc = x.pc /\ y.run = x.run /\ x.call \in Call
            /\ (calls'[x.call] = calls[x.call] \/ Serve(x.call))
        BY <2>1, <2>4 DEF Follows, ClientState
      <3>2. Linked(k, client[k])' /\ Fetches(client[k])'
        BY <2>1, <3>1, WaitsOn DEF Linked, Fetches
      <3> QED BY <2>2, <3>2
    <2> QED BY <2>3, <2>4, <2>2
  <1> QED BY <1>1, <1>2 DEF ClientInv

\* One client takes a new state and the others wait on.
LEMMA OneFollows ==
    ASSUME HInv, [Next]_vars, NEW k \in Key, NEW y, Client(k, y), Follows(k, y),
           \A j \in Key : j # k /\ client[j].call # None =>
              calls'[client[j].call] = calls[client[j].call] \/ Serve(client[j].call)
    PROVE  ClientInv'
  <1>1. client \in [Key -> ClientState] /\ y \in ClientState
    BY DEF HInv, ClientInv, Follows
  <1>2. client'[k] = y /\ (\A j \in Key : j # k => client'[j] = client[j])
        /\ client' \in [Key -> ClientState]
    BY <1>1 DEF Client
  <1>3. ASSUME NEW j \in Key, j # k PROVE Follows(j, client'[j])
    BY <1>1, <1>2, <1>3 DEF HInv, ClientInv, Follows
  <1> QED BY <1>2, <1>3, ClientsFollow

\* The clients ask of the service only what its specification lets a client ask.
LEMMA UsesService ==
    ASSUME HInv, [ClientNext]_allVars
    PROVE  [Next]_vars
  <1>1. ASSUME NEW k \in Key, NEW c \in Call, Send(k, c) PROVE Requests(c)
    <2> DEFINE x == client[k]
    <2>1. CASE x.pc = "submit"
      BY <1>1, <2>1 DEF Send, Requests
    <2>2. CASE x.pc # "submit"
      <3>1. x.pc \in {"poll", "fetch", "cancel"} /\ Arrive(c, KindAt[x.pc], None, x.run)
        BY <1>1, <2>2, PlacesOfRun DEF Send, Sending
      <3>2. x.run \in Run /\ jobs[x.run].status # "none"
        BY <3>1 DEF HInv, ClientInv, Owns, Born
      <3>3. KindAt[x.pc] \in Kinds \ {"submit"}
        BY <3>1 DEF KindAt, Kinds
      <3> QED BY <3>1, <3>2, <3>3 DEF Requests
    <2> QED BY <2>1, <2>2
  <1>2. ASSUME NEW k \in Key, Receive(k) PROVE client[k].call \in Call /\ Reply(client[k].call)
    BY <1>2 DEF Receive, HInv, ClientInv, ClientState
  <1>3. ASSUME NEW k \in Key, Handshake(k) \/ SendFails(k) \/ TimesOut(k) \/ Expire(k)
                              \/ TimeoutError(k) \/ Interrupt(k)
        PROVE  UNCHANGED vars
    BY <1>3 DEF Handshake, SendFails, TimesOut, Expire, TimeoutError, Interrupt
  <1>4. ASSUME NEW c \in Call, Dropped(c) PROVE Reply(c)
    BY <1>4 DEF Dropped
  <1>5. UNCHANGED allVars => UNCHANGED vars
    BY DEF allVars
  <1> QED BY <1>1, <1>2, <1>3, <1>4, <1>5 DEF ClientNext, Move, Service, ServiceRestarts, Next

\* A client that moves on by itself.
LEMMA MovesAlone ==
    ASSUME HInv, NEW k \in Key, NEW y \in ClientState, Client(k, y), UNCHANGED vars, Owns(k, y),
           y.call = None \/ (y.call = client[k].call /\ y.pc = client[k].pc /\ y.run = client[k].run)
    PROVE  ClientInv'
  <1>1. Follows(k, y) /\ calls' = calls
    BY DEF Follows, vars
  <1> QED BY <1>1, OneFollows

\* A client whose request failed.
LEMMA FailsAlone ==
    ASSUME HInv, NEW k \in Key, client[k].pc \in DOMAIN KindAt, UNCHANGED vars,
           Client(k, Lost(client[k])) \/ Client(k, Failed(client[k]))
    PROVE  ClientInv'
  <1>1. client[k] \in ClientState /\ Owns(k, client[k])
    BY DEF HInv, ClientInv
  <1>2. PICK y \in {Lost(client[k]), Failed(client[k])} : Client(k, y)
    BY DEF Client
  <1>3. y \in ClientState /\ y.call = None /\ Owns(k, y)
    BY <1>1, <1>2, GivesUp
  <1> QED BY <1>2, <1>3, MovesAlone

\* The client's own steps.
LEMMA ClientMoves ==
    ASSUME HInv, NEW k \in Key,
           Handshake(k) \/ SendFails(k) \/ TimesOut(k) \/ Expire(k) \/ TimeoutError(k) \/ Interrupt(k)
    PROVE  ClientInv'
  <1> DEFINE x == client[k]
  <1>1. x \in ClientState /\ Owns(k, x) /\ Linked(k, x) /\ UNCHANGED vars
    BY DEF HInv, ClientInv, Handshake, SendFails, TimesOut, Expire, TimeoutError, Interrupt
  <1>2. CASE Handshake(k)
    <2>1. PICK pc \in {"submit", "raised"} : Client(k, At(x, pc)) /\ x.pc = "idle"
      BY <1>2 DEF Handshake
    <2>2. pc \in (DOMAIN KindAt) \cup Ended
      BY PlacesOfRun DEF Ended
    <2>3. /\ At(x, pc) \in ClientState /\ At(x, pc).call = None /\ At(x, pc).pc = pc
          /\ At(x, pc).run = x.run /\ At(x, pc).told = x.told
      BY <1>1, <2>2, MovesOn
    <2>4. Owns(k, At(x, pc))
      BY <1>1, <2>1, <2>3 DEF Owns
    <2> QED BY <1>1, <2>1, <2>3, <2>4, MovesAlone
  <1>3. CASE SendFails(k)
    BY <1>3, FailsAlone DEF SendFails, Sending
  <1>4. CASE TimesOut(k)
    BY <1>1, <1>4, FailsAlone DEF TimesOut, Linked
  <1>5. CASE TimeoutError(k)
    BY <1>5, FailsAlone, PlacesOfRun DEF TimeoutError, AtDeadline
  <1>6. CASE Interrupt(k)
    BY <1>6, FailsAlone DEF Interrupt
  <1>7. CASE Expire(k)
    <2> DEFINE y == [x EXCEPT !.expired = TRUE]
    <2>1. y \in ClientState /\ y.call = x.call /\ y.pc = x.pc /\ y.run = x.run /\ y.told = x.told
      BY <1>1 DEF ClientState
    <2>2. Owns(k, y)
      BY <1>1, <2>1 DEF Owns
    <2> QED BY <1>1, <1>7, <2>1, <2>2, MovesAlone DEF Expire
  <1> QED BY <1>2, <1>3, <1>4, <1>5, <1>6, <1>7

\* A request goes out in a call that nobody waits for.
LEMMA SendsOwnRequest ==
    ASSUME HInv, [Next]_vars, NEW k \in Key, NEW c \in Call, Send(k, c)
    PROVE  ClientInv'
  <1> DEFINE x == client[k]
             y == [x EXCEPT !.call = c]
  <1>1. x \in ClientState /\ Owns(k, x) /\ x.pc \in DOMAIN KindAt /\ c # None /\ IInv
    BY RunnerAssumption DEF HInv, ClientInv, Send, Sending
  <1>2. y \in ClientState /\ y.call = c /\ y.pc = x.pc /\ y.run = x.run /\ y.told = x.told
    BY <1>1 DEF ClientState
  <1>3. client'[k] = y /\ (\A j \in Key : j # k => client'[j] = client[j])
        /\ client' \in [Key -> ClientState]
    BY <1>2 DEF HInv, ClientInv, Send, Client
  <1>4. calls[c].pc = "free" /\ \A d \in Call : d # c => calls'[d] = calls[d]
    BY <1>1, HandlerMoves DEF Send, Arrive
  <1>5. ASSUME NEW j \in Key, client[j].call # None
        PROVE  client[j].call # c /\ client[j].call \in Call /\ calls'[client[j].call] = calls[client[j].call]
    BY <1>4, <1>5 DEF HInv, ClientInv, Linked, ClientState
  <1>6. ASSUME NEW j \in Key, j # k
        PROVE  (Owns(j, client[j]) /\ Linked(j, client[j]) /\ Fetches(client[j]))'
    <2>1. Follows(j, client[j]) /\ client'[j] = client[j] /\ IInv /\ CallInv
          /\ Linked(j, client[j]) /\ Fetches(client[j]) /\ Owns(j, client[j])
      BY <1>3, <1>5, <1>6 DEF HInv, ClientInv, Follows
    <2>2. Owns(j, client[j])'
      BY <2>1, OwnsKept DEF Owns, Born, Done
    <2>3. Linked(j, client[j])' /\ Fetches(client[j])'
      BY <1>5, <2>1, WaitsOn DEF Linked, Fetches
    <2> QED BY <2>2, <2>3
  <1>7. Owns(k, client[k])'
    <2>1. Owns(k, y)
      BY <1>1, <1>2 DEF Owns
    <2> QED BY <1>1, <1>3, <2>1, OwnsKept DEF Owns, Born, Done
  <1>8. Linked(k, client[k])' /\ Fetches(client[k])'
    <2>1. CASE x.pc = "submit"
      <3>1. calls'[c] = [pc |-> "check", kind |-> "submit", key |-> k, run |-> None, answer |-> "none"]
        BY <1>1, <2>1, HandlerMoves DEF Send, Arrive
      <3> QED BY <1>1, <1>2, <1>3, <2>1, <3>1 DEF Linked, Fetches, KindAt
    <2>2. CASE x.pc # "submit"
      <3>1. KindAt[x.pc] # "submit"
        BY <1>1, <2>2, PlacesOfRun DEF KindAt
      <3>2. calls'[c] = [pc |-> "get", kind |-> KindAt[x.pc], key |-> None, run |-> x.run, answer |-> "none"]
        BY <1>1, <2>2, <3>1, HandlerMoves DEF Send, Arrive
      <3> QED BY <1>1, <1>2, <1>3, <2>2, <3>2 DEF Linked, Fetches
    <2> QED BY <2>1, <2>2
  <1>9. ASSUME NEW i \in Key, NEW j \in Key, client'[i].call = client'[j].call, client'[i].call # None
        PROVE  i = j
    <2>1. \A n \in Key : n # k => client'[n].call # c \/ client'[n].call = None
      BY <1>3, <1>5
    <2>2. client'[k].call = c
      BY <1>2, <1>3
    <2>3. i # k /\ j # k => i = j
      BY <1>3, <1>9 DEF HInv, ClientInv
    <2> QED BY <1>1, <1>9, <2>1, <2>2, <2>3
  <1> QED BY <1>3, <1>6, <1>7, <1>8, <1>9 DEF ClientInv

\* An answer is taken for what it says: what CallInv and CancelInv know of the
\* job of the call, the client then knows of its own.
LEMMA Receives ==
    ASSUME HInv, [Next]_vars, NEW k \in Key, Receive(k)
    PROVE  ClientInv'
  <1> DEFINE x == client[k]
             c == x.call
             a == calls[c].answer
             z == [x EXCEPT !.run = calls[c].run]
  <1>1. /\ x \in ClientState /\ Owns(k, x) /\ Linked(k, x) /\ Fetches(x)
        /\ c \in Call /\ c # None /\ calls[c].pc = "answered" /\ Reply(c)
    BY DEF HInv, ClientInv, ClientState, Receive, Reply
  <1>2. CallOK(c) /\ CancelInv /\ IInv
    BY <1>1 DEF HInv, CallInv
  <1>3. /\ x.pc \in {"submit", "poll", "fetch", "cancel"} /\ calls[c].kind = KindAt[x.pc]
        /\ IF x.pc = "submit" THEN calls[c].key = k ELSE calls[c].run = x.run
    BY <1>1, PlacesOfRun DEF Linked
  <1>4. ASSUME NEW y, Client(k, y), y \in ClientState, y.call = None, Owns(k, y) PROVE ClientInv'
    <2>1. Follows(k, y)
      BY <1>4 DEF Follows
    <2>2. \A j \in Key : j # k /\ client[j].call # None => calls'[client[j].call] = calls[client[j].call]
      BY <1>1, <1>2, HandlerMoves DEF Reply, HInv, ClientInv, ClientState
    <2> QED BY <1>4, <2>1, <2>2, OneFollows
  <1>5. CASE x.pc = "cancel"
    <2> DEFINE y == [At(x, "raised") EXCEPT !.told = a # "unknown"]
    <2>1. Client(k, y)
      BY <1>5 DEF Receive
    <2>2. "raised" \in (DOMAIN KindAt) \cup Ended
      BY DEF Ended
    <2>3. /\ At(x, "raised") \in ClientState /\ At(x, "raised").pc = "raised"
          /\ At(x, "raised").call = None /\ At(x, "raised").run = x.run
      BY <1>1, <2>2, MovesOn
    <2>4. y \in ClientState /\ y.pc = "raised" /\ y.call = None /\ y.run = x.run /\ y.told = (a # "unknown")
      <3>1. (a # "unknown") \in BOOLEAN
        OBVIOUS
      <3> QED BY <2>3, <3>1 DEF ClientState
    <2>5. a # "unknown" => Born(x.run) /\ jobs[x.run].cancel
      BY <1>1, <1>2, <1>3, <1>5 DEF CancelInv, Settled, Born, KindAt
    <2>6. Owns(k, y)
      BY <2>4, <2>5 DEF Owns
    <2> QED BY <1>4, <2>1, <2>4, <2>6
  <1>6. CASE x.pc # "cancel" /\ a \in {"unknown", "refused"}
    <2>1. Client(k, Failed(x))
      BY <1>6 DEF Receive
    <2>2. Failed(x) \in ClientState /\ Failed(x).call = None /\ Owns(k, Failed(x))
      BY <1>1, <1>3, GivesUp, PlacesOfRun
    <2> QED BY <1>4, <2>1, <2>2
  <1>7. CASE x.pc = "fetch" /\ a \notin {"unknown", "refused"}
    <2>1. Client(k, At(x, "done"))
      BY <1>7 DEF Receive
    <2>2. "done" \in (DOMAIN KindAt) \cup Ended
      BY DEF Ended
    <2>3. /\ At(x, "done") \in ClientState /\ At(x, "done").pc = "done" /\ At(x, "done").call = None
          /\ At(x, "done").run = x.run /\ At(x, "done").told = x.told
      BY <1>1, <2>2, MovesOn
    <2>4. jobs[x.run].result
      <3>1. calls[c].run = x.run
        BY <1>3, <1>7
      <3>2. a \in {"result", "unknown"}
        BY <1>1, <1>7 DEF Fetches
      <3>3. a = "result"
        BY <1>7, <3>2
      <3> QED BY <1>1, <1>2, <3>1, <3>3 DEF CallOK
    <2>5. Owns(k, At(x, "done"))
      BY <1>1, <1>7, <2>3, <2>4 DEF Owns
    <2> QED BY <1>4, <2>1, <2>3, <2>5
  <1>8. CASE x.pc \in {"submit", "poll"} /\ a \notin {"unknown", "refused"}
    <2>1. Client(k, Polled(z, a))
      BY <1>8 DEF Receive
    <2>2. Born(calls[c].run) /\ jobs[calls[c].run].key = k /\ (a = "succeeded" => Done(calls[c].run))
      BY <1>1, <1>2, <1>3, <1>8 DEF CallOK, Owns, KindAt
    <2>3. z \in ClientState /\ z.run = calls[c].run /\ z.told = x.told
      BY <1>1, <2>2 DEF ClientState, Born
    <2>4. PICK pc \in {"fetch", "cancel", "poll"} :
            Polled(z, a) = At(z, pc) /\ (pc = "fetch" => a = "succeeded")
      BY DEF Polled
    <2>5. pc \in (DOMAIN KindAt) \cup Ended
      BY PlacesOfRun
    <2>6. /\ At(z, pc) \in ClientState /\ At(z, pc).pc = pc /\ At(z, pc).call = None
          /\ At(z, pc).run = calls[c].run /\ At(z, pc).told = x.told
      BY <2>3, <2>5, MovesOn
    <2>7. ~x.told
      BY <1>1, <1>8 DEF Owns
    <2>8. Owns(k, At(z, pc))
      BY <2>2, <2>4, <2>6, <2>7 DEF Owns
    <2> QED BY <1>4, <2>1, <2>4, <2>6, <2>8
  <1> QED BY <1>3, <1>5, <1>6, <1>7, <1>8

LEMMA ClientNextInv ==
    ASSUME HInv, [ClientNext]_allVars
    PROVE  ClientInv'
  <1>1. [Next]_vars /\ IInv
    BY UsesService DEF HInv
  <1>2. \A k \in Key : client[k] \in ClientState /\ Owns(k, client[k]) /\ Linked(k, client[k])
    BY DEF HInv, ClientInv
  <1>3. ASSUME UNCHANGED client,
               \A k \in Key : client[k].call # None =>
                  calls'[client[k].call] = calls[client[k].call] \/ Serve(client[k].call)
        PROVE  ClientInv'
    <2>1. client' \in [Key -> ClientState] /\ \A k \in Key : Follows(k, client'[k])
      BY <1>2, <1>3 DEF Follows, HInv, ClientInv
    <2> QED BY <1>1, <2>1, ClientsFollow
  <1>4. ASSUME NEW k \in Key, Move(k) \/ Interrupt(k) PROVE ClientInv'
    BY <1>1, <1>4, ClientMoves, SendsOwnRequest, Receives DEF Move
  <1>5. ASSUME NEW c \in Call, Dropped(c) PROVE ClientInv'
    <2>1. \A k \in Key : client[k].call # None => calls'[client[k].call] = calls[client[k].call]
      BY <1>1, <1>2, <1>5, HandlerMoves DEF Dropped, Reply, ClientState
    <2> QED BY <1>3, <1>5, <2>1 DEF Dropped
  <1>6. CASE Service
    <2>1. ASSUME NEW c \in Call, Serve(c), NEW k \in Key, client[k].call # None
          PROVE  calls'[client[k].call] = calls[client[k].call] \/ Serve(client[k].call)
      BY <1>1, <1>2, <2>1, ServeKeepsRequest DEF ClientState
    <2>2. ASSUME NEW w \in Worker, Execute(w) \/ Callback(w) PROVE calls' = calls
      BY <2>2 DEF Execute, Callback, Take, Start, StoreResult, Succeed, Fail
    <2> QED BY <1>3, <1>6, <2>1, <2>2 DEF Service
  <1>7. CASE ServiceRestarts
    <2>1. ASSUME NEW k \in Key PROVE Follows(k, client'[k]) /\ client'[k] \in ClientState
      <3>1. CASE client[k].call = None
        BY <1>2, <1>7, <3>1 DEF ServiceRestarts, Follows
      <3>2. CASE client[k].call # None
        <4>1. client'[k] = Lost(client[k])
          BY <1>7, <3>2 DEF ServiceRestarts
        <4>2. client[k].pc \in DOMAIN KindAt
          BY <1>2, <3>2 DEF Linked
        <4>3. /\ Lost(client[k]) \in ClientState /\ Lost(client[k]).call = None
              /\ Owns(k, Lost(client[k]))
          BY <1>2, <4>2, GivesUp
        <4> QED BY <4>1, <4>3 DEF Follows, Owns
      <3> QED BY <3>1, <3>2
    <2>2. client' \in [Key -> ClientState]
      BY <1>7, <2>1 DEF ServiceRestarts
    <2> QED BY <1>1, <2>1, <2>2, ClientsFollow
  <1>8. CASE UNCHANGED allVars
    BY <1>3, <1>8 DEF allVars, vars
  <1> QED BY <1>4, <1>5, <1>6, <1>7, <1>8 DEF ClientNext

LEMMA InitHInv == ClientInit => HInv
  <1> SUFFICES ASSUME ClientInit PROVE HInv
    OBVIOUS
  <1>1. IInv
    BY InitIInv DEF ClientInit
  <1>2. CancelInv /\ CallInv
    BY DEF ClientInit, Init, CancelInv, CallInv, CallOK, Free
  <1>3. NewClient \in ClientState
    BY RetriesAssumption DEF NewClient, ClientState
  <1>4. ClientInv
    BY <1>3 DEF ClientInit, ClientInv, Owns, Linked, Fetches, NewClient
  <1> QED BY <1>1, <1>2, <1>4 DEF HInv

LEMMA NextHInv == HInv /\ [ClientNext]_allVars => HInv'
  <1> SUFFICES ASSUME HInv, [ClientNext]_allVars PROVE HInv'
    OBVIOUS
  <1>1. [Next]_vars
    BY UsesService
  <1> QED BY <1>1, NextIInv, CancelNext, CallNext, ClientNextInv DEF HInv

\* Everything above holds in every state of the clients and the service.
THEOREM ClientInvariance == ClientSpec => []HInv
  BY InitHInv, NextHInv, PTL DEF ClientSpec

\* The variables keep their types.
THEOREM ClientTypes == ClientSpec => []ClientTypeOK
  <1>1. HInv => ClientTypeOK
    BY DEF HInv, IInv, ClientInv, ClientState, ClientTypeOK
  <1> QED BY <1>1, ClientInvariance, PTL

\* The clients of http_live.py drive the service only as RunnerService lets
\* clients drive it, through lost requests, retries and restarts: whatever is
\* proved of the service alone holds of the service they use.
THEOREM ServiceUsedAsSpecified == ClientSpec => ServiceSpec
  <1>1. ClientInit => Init
    BY DEF ClientInit
  <1>2. HInv /\ [ClientNext]_allVars => [Next]_vars
    BY UsesService
  <1> QED BY <1>1, <1>2, ClientInvariance, PTL DEF ClientSpec, ServiceSpec, Spec

\* A client that was told "succeeded" is never refused the result (409).
THEOREM FetchFindsResult == ClientSpec => []SucceededIsFetchable
  <1>1. HInv => SucceededIsFetchable
    BY DEF HInv, ClientInv, Fetches, SucceededIsFetchable
  <1> QED BY <1>1, ClientInvariance, PTL

\* run() returns only what a job of its own submission produced.
THEOREM OwnResultReturned == ClientSpec => []ReturnedIsOwnResult
  <1>1. HInv => ReturnedIsOwnResult
    BY DEF HInv, ClientInv, Owns, Done, ReturnedIsOwnResult
  <1> QED BY <1>1, ClientInvariance, PTL

\* A run() that raised after its cancel was answered left its job cancelled,
\* ended or gone.
THEOREM NothingRunsOn == ClientSpec => []RaisedIsCancelled
  <1>1. HInv => RaisedIsCancelled
    BY DEF HInv, ClientInv, Owns, RaisedIsCancelled
  <1> QED BY <1>1, ClientInvariance, PTL
==============================================================================
