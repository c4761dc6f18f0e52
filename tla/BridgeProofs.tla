----------------------------- MODULE BridgeProofs -----------------------------
(***************************************************************************)
(* Proofs about the plugin of the DeepSeek Harness and its bridge, for any *)
(* requests, any number of processes and of model calls.                   *)
(***************************************************************************)
EXTENDS DshBridge, SequenceTheorems, TLAPS

HostMessage == [type : {"request"}, id : HostRequest] \cup [type : {"reply"}, id : Nat]
BridgeMessage ==
    [type : {"call"}, id : Nat, token : HostRequest]
        \cup [type : {"response"}, id : HostRequest, ok : BOOLEAN]
Diagnosis == [req : HostRequest, wait : Nat, left : Nat]

BridgeTypeOK ==
    /\ asked \subseteq HostRequest /\ via \in [HostRequest -> 0..MaxChildren]
    /\ routes \subseteq HostRequest
    /\ modelCalls \subseteq [by : Child, id : Nat, token : HostRequest]
    /\ current \in 0..MaxChildren /\ turn \in 0..MaxChildren /\ spawned \in 0..MaxChildren
    /\ alive \subseteq Child /\ unseen \subseteq Child /\ closed \in BOOLEAN
    /\ stdin \in [Child -> Seq(HostMessage)] /\ stdout \in [Child -> Seq(BridgeMessage)]
    /\ stack \in [Child -> Seq(Diagnosis)] /\ calls \in [Child -> Nat]

\* What the host takes for its process runs, or its exit is still to be seen.
CurrentIsKnown == current # 0 => current \in alive \cup unseen

\* Between turns a route is lent to nobody whose promise is settled.
LentIsPending == turn = 0 => routes \subseteq Pending

\* Where the work on a request is, in a process.
Queued(r, g) == \E i \in 1..Len(stdin[g]) : stdin[g][i] = Asked(r)
Answered(r, g) ==
    \E i \in 1..Len(stdout[g]) : stdout[g][i].type = "response" /\ stdout[g][i].id = r
Diagnosed(r, g) == r \in Deep /\ \E i \in 1..Len(stack[g]) : stack[g][i].req = r
Work(r, g) == Queued(r, g) \/ Answered(r, g) \/ Diagnosed(r, g) \/ g \in unseen

PendingIsWorkedFor == \A r \in HostRequest, g \in Child : via[r] = g => Work(r, g)

BridgeInv == BridgeTypeOK /\ CurrentIsKnown /\ LentIsPending /\ PendingIsWorkedFor
-----------------------------------------------------------------------------
(* Operators of the model. *)

LEMMA MessageTypes ==
    /\ \A r \in HostRequest : Asked(r) \in HostMessage
    /\ \A n \in Nat : HostReply(n) \in HostMessage
    /\ \A n \in Nat, r \in HostRequest : HostCall(n, r) \in BridgeMessage
    /\ \A r \in HostRequest, ok \in BOOLEAN : Answer(r, ok) \in BridgeMessage
    /\ \A r \in HostRequest, wait, left \in Nat : Run(r, wait, left) \in Diagnosis
    /\ \A r \in HostRequest : \A n : Asked(r) # HostReply(n)
BY DEF Asked, HostReply, HostCall, Answer, Run, HostMessage, BridgeMessage, Diagnosis

\* Pipes to which something was appended, or nothing.
Extends(q, p) == \A g \in Child : \A i \in 1..Len(p[g]) : i \in 1..Len(q[g]) /\ q[g][i] = p[g][i]

\* Appending to one sequence of a family keeps the others, and what it held.
LEMMA AppendedTo ==
    ASSUME NEW S, NEW p \in [Child -> Seq(S)], NEW g \in Child, NEW m \in S,
           NEW q, q = [p EXCEPT ![g] = Append(@, m)]
    PROVE  /\ q \in [Child -> Seq(S)] /\ Extends(q, p)
           /\ Len(p[g]) + 1 \in 1..Len(q[g]) /\ q[g][Len(p[g]) + 1] = m
<1>1. q \in [Child -> Seq(S)] /\ q[g] = Append(p[g], m) /\ \A h \in Child \ {g} : q[h] = p[h]
  OBVIOUS
<1>2. /\ Len(p[g]) \in Nat /\ Len(Append(p[g], m)) = Len(p[g]) + 1
      /\ \A i \in 1..Len(p[g]) : Append(p[g], m)[i] = p[g][i]
      /\ Append(p[g], m)[Len(p[g]) + 1] = m
  OBVIOUS
<1>3. ASSUME NEW h \in Child, NEW i \in 1..Len(p[h])
      PROVE  i \in 1..Len(q[h]) /\ q[h][i] = p[h][i]
  <2>1. CASE h = g
    BY <1>1, <1>2, <2>1
  <2>2. CASE h # g
    BY <1>1, <2>2
  <2> QED BY <2>1, <2>2
<1>4. Extends(q, p)
  BY <1>3 DEF Extends
<1>5. Len(p[g]) + 1 \in 1..Len(q[g]) /\ q[g][Len(p[g]) + 1] = m
  BY <1>1, <1>2
<1> QED BY <1>1, <1>4, <1>5

\* Removing the first message of one pipe leaves the others and all the rest.
LEMMA HeadRemoved ==
    ASSUME NEW S, NEW p \in [Child -> Seq(S)], NEW g \in Child, p[g] # <<>>,
           NEW q, q = [p EXCEPT ![g] = Tail(@)]
    PROVE  /\ q \in [Child -> Seq(S)] /\ Head(p[g]) \in S
           /\ \A h \in Child \ {g} : q[h] = p[h]
           /\ \A i \in 1..Len(p[g]) :
                 \/ i = 1 /\ p[g][i] = Head(p[g])
                 \/ i - 1 \in 1..Len(q[g]) /\ q[g][i - 1] = p[g][i]
<1>1. Head(p[g]) \in S /\ Tail(p[g]) \in Seq(S) /\ Head(p[g]) = p[g][1]
  OBVIOUS
<1>2. /\ Len(p[g]) \in Nat /\ Len(Tail(p[g])) = Len(p[g]) - 1
      /\ \A i \in 1..(Len(p[g]) - 1) : Tail(p[g])[i] = p[g][i + 1]
  OBVIOUS
<1>3. q \in [Child -> Seq(S)] /\ q[g] = Tail(p[g]) /\ \A h \in Child \ {g} : q[h] = p[h]
  BY <1>1
<1>4. ASSUME NEW i \in 1..Len(p[g]), i # 1
      PROVE  i - 1 \in 1..Len(q[g]) /\ q[g][i - 1] = p[g][i]
  <2>1. i - 1 \in 1..(Len(p[g]) - 1) /\ (i - 1) + 1 = i
    BY <1>2, <1>4
  <2>2. Tail(p[g])[i - 1] = p[g][i]
    BY <1>2, <2>1
  <2> QED BY <1>2, <1>3, <2>1, <2>2
<1> QED BY <1>1, <1>3, <1>4

\* The innermost diagnosis goes on as another record of the same request.
LEMMA TopReplaced ==
    ASSUME stack \in [Child -> Seq(Diagnosis)], NEW g \in Child, NEW frame \in Diagnosis,
           Len(stack[g]) \in 1..Len(stack[g]), frame.req = Innermost(g).req, Top(g, frame)
    PROVE  /\ stack' \in [Child -> Seq(Diagnosis)]
           /\ \A c \in Child : \A i \in 1..Len(stack[c]) :
                 i \in 1..Len(stack'[c]) /\ stack'[c][i].req = stack[c][i].req
<1> DEFINE n == Len(stack[g])
<1>1. stack' = [stack EXCEPT ![g] = [stack[g] EXCEPT ![n] = frame]]
  BY DEF Top
<1>2. /\ [stack[g] EXCEPT ![n] = frame] \in Seq(Diagnosis)
      /\ Len([stack[g] EXCEPT ![n] = frame]) = n
      /\ \A i \in 1..n : [stack[g] EXCEPT ![n] = frame][i] = IF i = n THEN frame ELSE stack[g][i]
  OBVIOUS
<1>3. /\ stack' \in [Child -> Seq(Diagnosis)] /\ stack'[g] = [stack[g] EXCEPT ![n] = frame]
      /\ \A c \in Child \ {g} : stack'[c] = stack[c]
  BY <1>1, <1>2
<1> QED BY <1>2, <1>3 DEF Innermost

\* Work goes on while nothing is taken from the pipes and the stack.
LEMMA WorkGoesOn ==
    ASSUME NEW r \in HostRequest, NEW g \in Child, Work(r, g),
           Extends(stdin', stdin), Extends(stdout', stdout), unseen \subseteq unseen',
           \A i \in 1..Len(stack[g]) :
              i \in 1..Len(stack[g])' /\ stack[g][i].req = stack'[g][i].req
    PROVE  Work(r, g)'
<1>1. CASE Queued(r, g)
  BY <1>1 DEF Work, Queued, Extends
<1>2. CASE Answered(r, g)
  BY <1>2 DEF Work, Answered, Extends
<1>3. CASE Diagnosed(r, g)
  BY <1>3 DEF Work, Diagnosed
<1>4. CASE g \in unseen
  BY <1>4 DEF Work
<1> QED BY <1>1, <1>2, <1>3, <1>4 DEF Work

\* A write reaches a process that runs, and takes nothing from any pipe.
LEMMA Written ==
    ASSUME BridgeTypeOK, NEW g \in 0..MaxChildren, NEW m \in HostMessage,
           NEW running, running \subseteq Child, WriteTo(g, m, running)
    PROVE  /\ stdin' \in [Child -> Seq(HostMessage)] /\ Extends(stdin', stdin)
           /\ g \in running => \E i \in 1..Len(stdin'[g]) : stdin'[g][i] = m
<1>1. CASE g \in running
  <2>1. g \in Child /\ stdin' = [stdin EXCEPT ![g] = Append(@, m)]
    BY <1>1 DEF WriteTo
  <2>2. stdin \in [Child -> Seq(HostMessage)]
    BY DEF BridgeTypeOK
  <2>3. /\ stdin' \in [Child -> Seq(HostMessage)] /\ Extends(stdin', stdin)
        /\ Len(stdin[g]) + 1 \in 1..Len(stdin'[g]) /\ stdin'[g][Len(stdin[g]) + 1] = m
    BY <2>1, <2>2, AppendedTo DEF Extends
  <2> QED BY <2>3
<1>2. CASE g \notin running
  BY <1>2 DEF WriteTo, BridgeTypeOK, Extends
<1> QED BY <1>1, <1>2

\* What is settled is no longer pending; the rest keeps its process.
LEMMA Settled ==
    ASSUME BridgeTypeOK, NEW S, Settle(S)
    PROVE  /\ via' \in [HostRequest -> 0..MaxChildren]
           /\ \A r \in HostRequest : via'[r] = IF r \in S THEN 0 ELSE via[r]
           /\ Pending' = Pending \ S
<1>1. /\ via' \in [HostRequest -> 0..MaxChildren]
      /\ \A r \in HostRequest : via'[r] = IF r \in S THEN 0 ELSE via[r]
  <2>1. via \in [HostRequest -> 0..MaxChildren] /\ 0 \in 0..MaxChildren
    BY BridgeAssumption DEF BridgeTypeOK
  <2>2. via' = [r \in HostRequest |-> IF r \in S THEN 0 ELSE via[r]]
    BY DEF Settle
  <2>3. \A r \in HostRequest : via'[r] = IF r \in S THEN 0 ELSE via[r]
    BY <2>2
  <2>4. \A r \in HostRequest : via'[r] \in 0..MaxChildren
    BY <2>1, <2>3
  <2>5. via' \in [HostRequest -> 0..MaxChildren]
    BY <2>2, <2>4
  <2> QED BY <2>3, <2>5
<1>2. Pending' = Pending \ S
  BY <1>1 DEF Pending
<1> QED BY <1>1, <1>2
-----------------------------------------------------------------------------
(* Every action keeps the invariant. *)

LEMMA SendRequestKeeps ==
    ASSUME BridgeInv, NEW r \in HostRequest, turn = 0, SendRequest(r)
    PROVE  BridgeInv'
<1> DEFINE g == IF current = 0 THEN spawned + 1 ELSE current
<1>1. BridgeTypeOK /\ CurrentIsKnown /\ LentIsPending /\ PendingIsWorkedFor
  BY DEF BridgeInv
<1>2. /\ current' = g /\ spawned' = (IF current = 0 THEN g ELSE spawned)
      /\ alive' = (IF current = 0 THEN alive \cup {g} ELSE alive)
      /\ via' = [via EXCEPT ![r] = g] /\ WriteTo(g, Asked(r), alive')
      /\ asked' = asked \cup {r} /\ routes' = (IF r \in Deep THEN routes \cup {r} ELSE routes)
      /\ current # 0 \/ spawned < MaxChildren
      /\ UNCHANGED <<modelCalls, turn, unseen, closed, stdout, stack, calls>>
  BY DEF SendRequest, bridgeVars
<1>3. g \in Child /\ g \in 0..MaxChildren /\ g # 0
  <2>1. current \in 0..MaxChildren /\ spawned \in 0..MaxChildren /\ MaxChildren \in Nat
    BY <1>1, BridgeAssumption DEF BridgeTypeOK
  <2> QED BY <2>1, <1>2 DEF Child
<1>4. alive' \subseteq Child /\ (g \in alive' \/ g \in unseen')
  BY <1>1, <1>2, <1>3 DEF BridgeTypeOK, CurrentIsKnown
<1>5. /\ stdin' \in [Child -> Seq(HostMessage)] /\ Extends(stdin', stdin)
      /\ g \in alive' => \E i \in 1..Len(stdin'[g]) : stdin'[g][i] = Asked(r)
  <2>1. Asked(r) \in HostMessage
    BY MessageTypes
  <2> HIDE DEF g
  <2> QED BY <1>1, <1>2, <1>3, <1>4, <2>1, Written
<1>6. /\ via' \in [HostRequest -> 0..MaxChildren] /\ via'[r] = g
      /\ \A x \in HostRequest \ {r} : via'[x] = via[x]
  <2>1. via \in [HostRequest -> 0..MaxChildren]
    BY <1>1 DEF BridgeTypeOK
  <2> HIDE DEF g
  <2> QED BY <1>2, <1>3, <2>1
<1>7. BridgeTypeOK'
  <2>1. spawned' \in 0..MaxChildren /\ current' \in 0..MaxChildren
    BY <1>1, <1>2, <1>3 DEF BridgeTypeOK
  <2>2. asked' \subseteq HostRequest /\ routes' \subseteq HostRequest
    BY <1>1, <1>2 DEF BridgeTypeOK
  <2> HIDE DEF g
  <2> QED BY <1>1, <1>2, <1>4, <1>5, <1>6, <2>1, <2>2 DEF BridgeTypeOK
<1>8. CurrentIsKnown'
  BY <1>2, <1>4 DEF CurrentIsKnown
<1>9. LentIsPending'
  BY <1>1, <1>2, <1>3, <1>6 DEF LentIsPending, Pending
<1>10. ASSUME NEW x \in HostRequest, NEW c \in Child, via'[x] = c
       PROVE  Work(x, c)'
  <2>1. CASE x = r
    BY <1>4, <1>5, <1>6, <1>10, <2>1 DEF Work, Queued
  <2>2. CASE x # r
    <3>1. Work(x, c)
      BY <1>1, <1>6, <1>10, <2>2 DEF PendingIsWorkedFor
    <3>2. Extends(stdout', stdout)
      BY <1>2 DEF Extends
    <3>3. unseen \subseteq unseen' /\ stack' = stack
      BY <1>2
    <3> QED BY <1>5, <3>1, <3>2, <3>3, WorkGoesOn
  <2> QED BY <2>1, <2>2
<1>11. PendingIsWorkedFor'
  BY <1>10 DEF PendingIsWorkedFor
<1> QED BY <1>7, <1>8, <1>9, <1>11 DEF BridgeInv

\* What settles some promises, or none, and touches nothing of the others.
LEMMA SettlingKeeps ==
    ASSUME BridgeInv, NEW S, Settle(S) \/ (S = {} /\ via' = via),
           Extends(stdin', stdin), stdout' = stdout, stack' = stack, unseen' = unseen
    PROVE  PendingIsWorkedFor'
<1>1. BridgeTypeOK /\ PendingIsWorkedFor
  BY DEF BridgeInv
<1>2. ASSUME NEW x \in HostRequest, NEW c \in Child, via'[x] = c
      PROVE  Work(x, c)'
  <2>1. via[x] = c
    <3>1. c # 0
      BY BridgeAssumption DEF Child
    <3> QED BY <1>1, <1>2, <3>1, Settled
  <2>2. Work(x, c)
    BY <1>1, <2>1 DEF PendingIsWorkedFor
  <2>3. Extends(stdout', stdout)
    BY DEF Extends
  <2> QED BY <2>1, <2>2, <2>3, WorkGoesOn
<1> QED BY <1>2 DEF PendingIsWorkedFor

LEMMA GiveUpKeeps ==
    ASSUME BridgeInv, NEW r \in HostRequest, turn = 0, GiveUp(r)
    PROVE  BridgeInv'
<1>1. BridgeTypeOK /\ CurrentIsKnown /\ LentIsPending /\ PendingIsWorkedFor
  BY DEF BridgeInv
<1>2. /\ Settle({r}) /\ routes' = routes \ {r}
      /\ UNCHANGED <<asked, modelCalls, current, turn, spawned, unseen, closed, alive, stdin,
                     stdout, stack, calls>>
  BY DEF GiveUp, bridgeVars
<1>3. via' \in [HostRequest -> 0..MaxChildren] /\ Pending' = Pending \ {r}
  BY <1>1, <1>2, Settled
<1>4. BridgeTypeOK' /\ CurrentIsKnown' /\ LentIsPending'
  BY <1>1, <1>2, <1>3 DEF BridgeTypeOK, CurrentIsKnown, LentIsPending
<1>5. PendingIsWorkedFor'
  <2>1. Extends(stdin', stdin)
    BY <1>2 DEF Extends
  <2> QED BY <1>2, <2>1, SettlingKeeps
<1> QED BY <1>4, <1>5 DEF BridgeInv

LEMMA EndTurnKeeps ==
    ASSUME BridgeInv, EndTurn
    PROVE  BridgeInv'
<1>1. BridgeTypeOK /\ CurrentIsKnown /\ LentIsPending /\ PendingIsWorkedFor
  BY DEF BridgeInv
<1>2. /\ turn' = 0 /\ routes' = routes \cap Pending
      /\ UNCHANGED <<asked, via, modelCalls, current, spawned, unseen, closed, alive, stdin,
                     stdout, stack, calls>>
  BY DEF EndTurn, bridgeVars
<1>3. BridgeTypeOK' /\ CurrentIsKnown' /\ LentIsPending'
  BY <1>1, <1>2, BridgeAssumption DEF BridgeTypeOK, CurrentIsKnown, LentIsPending, Pending
<1>4. PendingIsWorkedFor'
  BY <1>1, <1>2 DEF PendingIsWorkedFor, Work, Queued, Answered, Diagnosed
<1> QED BY <1>3, <1>4 DEF BridgeInv

LEMMA ExitSeenKeeps ==
    ASSUME BridgeInv, NEW g \in Child, turn = 0, ExitSeen(g)
    PROVE  BridgeInv'
<1>1. BridgeTypeOK
  BY DEF BridgeInv
<1>2. /\ unseen' = unseen \ {g} /\ current' = 0 /\ Settle(Pending) /\ routes' = {}
      /\ UNCHANGED <<asked, modelCalls, turn, spawned, closed, alive, stdin, stdout, stack, calls>>
  BY DEF ExitSeen, bridgeVars
<1>3. via' \in [HostRequest -> 0..MaxChildren] /\ Pending' = {}
  BY <1>1, <1>2, Settled
<1>4. BridgeTypeOK' /\ CurrentIsKnown' /\ LentIsPending'
  BY <1>1, <1>2, <1>3, BridgeAssumption DEF BridgeTypeOK, CurrentIsKnown, LentIsPending
<1>5. PendingIsWorkedFor'
  BY <1>3, BridgeAssumption DEF PendingIsWorkedFor, Pending, Child
<1> QED BY <1>4, <1>5 DEF BridgeInv

LEMMA CloseBridgeKeeps ==
    ASSUME BridgeInv, CloseBridge
    PROVE  BridgeInv'
<1>1. BridgeTypeOK /\ CurrentIsKnown /\ LentIsPending /\ PendingIsWorkedFor
  BY DEF BridgeInv
<1>2. /\ closed' = TRUE /\ current' = 0
      /\ UNCHANGED <<asked, via, routes, modelCalls, turn, spawned, unseen, alive, stdin, stdout,
                     stack, calls>>
  BY DEF CloseBridge, bridgeVars
<1>3. BridgeTypeOK' /\ CurrentIsKnown' /\ LentIsPending'
  BY <1>1, <1>2, BridgeAssumption DEF BridgeTypeOK, CurrentIsKnown, LentIsPending, Pending
<1>4. PendingIsWorkedFor'
  BY <1>1, <1>2 DEF PendingIsWorkedFor, Work, Queued, Answered, Diagnosed
<1> QED BY <1>3, <1>4 DEF BridgeInv

LEMMA ModelEndsKeeps ==
    ASSUME BridgeInv, NEW c \in modelCalls, ModelEnds(c)
    PROVE  BridgeInv'
<1>1. BridgeTypeOK /\ CurrentIsKnown /\ LentIsPending /\ PendingIsWorkedFor
  BY DEF BridgeInv
<1>2. /\ modelCalls' = modelCalls \ {c} /\ WriteTo(current, HostReply(c.id), alive)
      /\ UNCHANGED <<asked, via, routes, current, turn, spawned, unseen, closed, alive, stdout,
                     stack, calls>>
  BY DEF ModelEnds, bridgeVars
<1>3. c.id \in Nat /\ HostReply(c.id) \in HostMessage
  BY <1>1, MessageTypes DEF BridgeTypeOK
<1>4. stdin' \in [Child -> Seq(HostMessage)] /\ Extends(stdin', stdin)
  <2>1. current \in 0..MaxChildren /\ alive \subseteq Child
    BY <1>1 DEF BridgeTypeOK
  <2> QED BY <1>1, <1>2, <1>3, <2>1, Written
<1>5. BridgeTypeOK' /\ CurrentIsKnown' /\ LentIsPending'
  BY <1>1, <1>2, <1>4 DEF BridgeTypeOK, CurrentIsKnown, LentIsPending, Pending
<1>6. PendingIsWorkedFor'
  BY <1>2, <1>4, SettlingKeeps
<1> QED BY <1>5, <1>6 DEF BridgeInv

\* A line is taken from the output of a process, and the work it answers ends.
LEMMA AcceptKeeps ==
    ASSUME BridgeInv, NEW g \in Child, Accept(g)
    PROVE  BridgeInv'
<1> DEFINE m == Head(stdout[g])
<1>1. BridgeTypeOK /\ CurrentIsKnown /\ LentIsPending /\ PendingIsWorkedFor
  BY DEF BridgeInv
<1>2. /\ stdout[g] # <<>> /\ turn' = g /\ stdout' = [stdout EXCEPT ![g] = Tail(@)]
      /\ UNCHANGED <<asked, routes, current, spawned, unseen, closed, alive, stack, calls>>
  BY DEF Accept, bridgeVars
<1>3. \/ m.type = "call" /\ Dispatch(g, m) /\ UNCHANGED via
      \/ /\ m.type = "response" /\ m.id \in Pending /\ Settle({m.id})
         /\ UNCHANGED <<modelCalls, stdin>>
      \/ /\ m.type = "response" /\ m.id \notin Pending
         /\ Settle(IF m.ok THEN {} ELSE Pending) /\ UNCHANGED <<modelCalls, stdin>>
  BY DEF Accept
<1>4. stdout \in [Child -> Seq(BridgeMessage)]
  BY <1>1 DEF BridgeTypeOK
<1>5. /\ stdout' \in [Child -> Seq(BridgeMessage)] /\ m \in BridgeMessage
      /\ \A h \in Child \ {g} : stdout'[h] = stdout[h]
      /\ \A i \in 1..Len(stdout[g]) :
            \/ i = 1 /\ stdout[g][i] = m
            \/ i - 1 \in 1..Len(stdout'[g]) /\ stdout'[g][i - 1] = stdout[g][i]
  BY <1>2, <1>4, HeadRemoved
<1>6. m.type = "call" => m.id \in Nat /\ m.token \in HostRequest
  BY <1>5 DEF BridgeMessage
<1> HIDE DEF m
<1>7. /\ stdin' \in [Child -> Seq(HostMessage)] /\ Extends(stdin', stdin)
      /\ modelCalls' \subseteq [by : Child, id : Nat, token : HostRequest]
  <2>1. CASE UNCHANGED <<modelCalls, stdin>>
    BY <1>1, <2>1 DEF BridgeTypeOK, Extends
  <2>2. CASE m.type = "call" /\ Dispatch(g, m)
    <3>1. CASE m.token \in routes
      <4>1. /\ stdin' = stdin
            /\ modelCalls' = modelCalls \cup {[by |-> g, id |-> m.id, token |-> m.token]}
        BY <2>2, <3>1 DEF Dispatch
      <4> QED BY <1>1, <1>6, <2>2, <4>1 DEF BridgeTypeOK, Extends
    <3>2. CASE m.token \notin routes
      <4>1. modelCalls' = modelCalls /\ WriteTo(current, HostReply(m.id), alive)
        BY <2>2, <3>2 DEF Dispatch
      <4>2. HostReply(m.id) \in HostMessage /\ current \in 0..MaxChildren /\ alive \subseteq Child
        BY <1>1, <1>6, <2>2, MessageTypes DEF BridgeTypeOK
      <4>3. stdin' \in [Child -> Seq(HostMessage)] /\ Extends(stdin', stdin)
        BY <1>1, <4>1, <4>2, Written
      <4> QED BY <1>1, <4>1, <4>3 DEF BridgeTypeOK
    <3> QED BY <3>1, <3>2
  <2> QED BY <1>3, <2>1, <2>2
<1>8. /\ via' \in [HostRequest -> 0..MaxChildren]
      /\ \A r \in HostRequest : via'[r] \in {0, via[r]}
      /\ m.type = "response" /\ m.id \in HostRequest => via'[m.id] = 0
  <2>1. CASE via' = via /\ m.type = "call"
    BY <1>1, <2>1 DEF BridgeTypeOK
  <2>2. CASE m.id \in Pending /\ Settle({m.id})
    BY <1>1, <2>2, Settled
  <2>3. CASE m.id \notin Pending /\ Settle(IF m.ok THEN {} ELSE Pending)
    BY <1>1, <2>3, Settled DEF Pending
  <2> QED BY <1>3, <2>1, <2>2, <2>3
<1>9. BridgeTypeOK' /\ CurrentIsKnown' /\ LentIsPending'
  <2>1. g \in 0..MaxChildren /\ g # 0
    BY BridgeAssumption DEF Child
  <2>2. BridgeTypeOK'
    BY <1>1, <1>2, <1>5, <1>7, <1>8, <2>1 DEF BridgeTypeOK
  <2> QED BY <1>1, <1>2, <2>1, <2>2 DEF CurrentIsKnown, LentIsPending
<1>10. ASSUME NEW x \in HostRequest, NEW c \in Child, via'[x] = c
       PROVE  Work(x, c)'
  <2>1. via[x] = c /\ ~(m.type = "response" /\ m.id = x)
    <3>1. c # 0
      BY BridgeAssumption DEF Child
    <3> QED BY <1>8, <1>10, <3>1
  <2>2. Work(x, c)
    BY <1>1, <2>1 DEF PendingIsWorkedFor
  <2>3. CASE Answered(x, c)
    BY <1>5, <2>1, <2>3, SMTT(20) DEF Answered, Work
  <2>4. CASE ~Answered(x, c)
    BY <1>2, <1>7, <2>2, <2>4 DEF Work, Queued, Diagnosed, Extends
  <2> QED BY <2>3, <2>4
<1>11. PendingIsWorkedFor'
  BY <1>10 DEF PendingIsWorkedFor
<1> QED BY <1>9, <1>11 DEF BridgeInv

\* The bridge reads a message: a request is answered or begins a diagnosis.
LEMMA ReadKeeps ==
    ASSUME BridgeInv, NEW g \in Child, Read(g)
    PROVE  BridgeInv'
<1> DEFINE m == Head(stdin[g])
<1>1. BridgeTypeOK /\ CurrentIsKnown /\ LentIsPending /\ PendingIsWorkedFor
  BY DEF BridgeInv
<1>2. /\ stdin[g] # <<>> /\ stdin' = [stdin EXCEPT ![g] = Tail(@)]
      /\ UNCHANGED <<asked, via, routes, modelCalls, current, turn, spawned, unseen, closed, alive,
                     calls>>
  BY DEF Read, hostVars
<1>3. \/ m.type = "request" /\ Respond(g, m.id)
      \/ /\ m.type = "reply" /\ Waiting(g)
         /\ Top(g, [Innermost(g) EXCEPT !.wait = 0]) /\ UNCHANGED stdout
      \/ m.type = "reply" /\ UNCHANGED <<stack, stdout>>
  BY DEF Read
<1>4. /\ stdin \in [Child -> Seq(HostMessage)] /\ stdout \in [Child -> Seq(BridgeMessage)]
      /\ stack \in [Child -> Seq(Diagnosis)]
  BY <1>1 DEF BridgeTypeOK
<1>5. /\ stdin' \in [Child -> Seq(HostMessage)] /\ m \in HostMessage
      /\ \A h \in Child \ {g} : stdin'[h] = stdin[h]
      /\ \A i \in 1..Len(stdin[g]) :
            \/ i = 1 /\ stdin[g][i] = m
            \/ i - 1 \in 1..Len(stdin'[g]) /\ stdin'[g][i - 1] = stdin[g][i]
  BY <1>2, <1>4, HeadRemoved
<1>6. m.type = "request" => m.id \in HostRequest
  BY <1>5 DEF HostMessage
<1> HIDE DEF m
<1>7. /\ stdout' \in [Child -> Seq(BridgeMessage)] /\ Extends(stdout', stdout)
      /\ stack' \in [Child -> Seq(Diagnosis)]
      /\ \A c \in Child : \A i \in 1..Len(stack[c]) :
            i \in 1..Len(stack'[c]) /\ stack'[c][i].req = stack[c][i].req
      /\ \A r \in HostRequest :
            m.type = "request" /\ m.id = r => Answered(r, g)' \/ Diagnosed(r, g)'
  <2>1. CASE m.type = "request" /\ m.id \notin Deep
    <3>1. PICK ok \in BOOLEAN : Emit(g, Answer(m.id, ok)) /\ stack' = stack
      BY <1>3, <2>1 DEF Respond
    <3>2. Answer(m.id, ok) \in BridgeMessage
      BY <1>6, <2>1, MessageTypes
    <3>3. stdout' = [stdout EXCEPT ![g] = Append(@, Answer(m.id, ok))]
      BY <3>1 DEF Emit
    <3>4. /\ stdout' \in [Child -> Seq(BridgeMessage)] /\ Extends(stdout', stdout)
          /\ Len(stdout[g]) + 1 \in 1..Len(stdout'[g])
          /\ stdout'[g][Len(stdout[g]) + 1] = Answer(m.id, ok)
      BY <1>4, <3>2, <3>3, AppendedTo DEF Extends
    <3>5. Answer(m.id, ok).type = "response" /\ Answer(m.id, ok).id = m.id
      BY DEF Answer
    <3>6. \A r \in HostRequest : m.id = r => Answered(r, g)'
      BY <3>4, <3>5 DEF Answered
    <3> QED BY <1>4, <3>1, <3>4, <3>6
  <2>2. CASE m.type = "request" /\ m.id \in Deep
    <3> DEFINE new == Run(m.id, 0, MaxModelCalls)
    <3>1. stack' = [stack EXCEPT ![g] = Append(@, new)] /\ stdout' = stdout
      BY <1>3, <2>2 DEF Respond
    <3>2. new \in Diagnosis /\ new.req = m.id
      BY <1>6, <2>2, BridgeAssumption DEF Diagnosis, Run
    <3> HIDE DEF new
    <3>3. /\ stack' \in [Child -> Seq(Diagnosis)] /\ Extends(stack', stack)
          /\ Len(stack[g]) + 1 \in 1..Len(stack'[g]) /\ stack'[g][Len(stack[g]) + 1] = new
      BY <1>4, <3>1, <3>2, AppendedTo DEF Extends
    <3>4. \A r \in HostRequest : m.id = r => Diagnosed(r, g)'
      BY <2>2, <3>2, <3>3 DEF Diagnosed
    <3> QED BY <1>4, <3>1, <3>3, <3>4 DEF Extends
  <2>3. CASE m.type = "reply" /\ UNCHANGED <<stack, stdout>>
    BY <1>4, <2>3 DEF Extends
  <2>4. CASE m.type = "reply" /\ Waiting(g) /\ Top(g, [Innermost(g) EXCEPT !.wait = 0]) /\ stdout' = stdout
    <3>1. stack[g] # <<>> /\ stack[g] \in Seq(Diagnosis)
      BY <1>4, <2>4 DEF Waiting
    <3>2. Len(stack[g]) \in 1..Len(stack[g]) /\ Innermost(g) \in Diagnosis
      BY <3>1 DEF Innermost
    <3>3. /\ [Innermost(g) EXCEPT !.wait = 0] \in Diagnosis
          /\ [Innermost(g) EXCEPT !.wait = 0].req = Innermost(g).req
      BY <3>2 DEF Diagnosis
    <3>4. /\ stack' \in [Child -> Seq(Diagnosis)] 
          /\ \A c \in Child : \A i \in 1..Len(stack[c]) :
                i \in 1..Len(stack'[c]) /\ stack'[c][i].req = stack[c][i].req
      BY <1>4, <2>4, <3>2, <3>3, TopReplaced
    <3> QED BY <1>4, <2>4, <3>4 DEF Extends
  <2> QED BY <1>3, <2>1, <2>2, <2>3, <2>4
<1>8. BridgeTypeOK' /\ CurrentIsKnown' /\ LentIsPending'
  BY <1>1, <1>2, <1>5, <1>7 DEF BridgeTypeOK, CurrentIsKnown, LentIsPending, Pending
<1>9. ASSUME NEW x \in HostRequest, NEW c \in Child, via'[x] = c
      PROVE  Work(x, c)'
  <2>1. Work(x, c)
    BY <1>1, <1>2, <1>9 DEF PendingIsWorkedFor
  <2>2. CASE m = Asked(x) /\ c = g
    <3>1. m.type = "request" /\ m.id = x
      BY <2>2 DEF Asked
    <3> QED BY <1>7, <2>2, <3>1 DEF Work
  <2>3. CASE Queued(x, c) /\ (m = Asked(x) => c # g)
    BY <1>5, <2>3 DEF Queued, Work
  <2>4. CASE Answered(x, c)
    BY <1>7, <2>4 DEF Answered, Work, Extends
  <2>5. CASE Diagnosed(x, c)
    <3>1. PICK i \in 1..Len(stack[c]) : stack[c][i].req = x
      BY <2>5 DEF Diagnosed
    <3> QED BY <1>7, <2>5, <3>1 DEF Diagnosed, Work
  <2>6. CASE c \in unseen
    BY <1>2, <2>6 DEF Work
  <2> QED BY <2>1, <2>2, <2>3, <2>4, <2>5, <2>6 DEF Work
<1>10. PendingIsWorkedFor'
  BY <1>9 DEF PendingIsWorkedFor
<1> QED BY <1>8, <1>10 DEF BridgeInv

LEMMA AskModelKeeps ==
    ASSUME BridgeInv, NEW g \in Child, AskModel(g)
    PROVE  BridgeInv'
<1> DEFINE x == Innermost(g)
           n == calls[g] + 1
<1>1. BridgeTypeOK /\ CurrentIsKnown /\ LentIsPending /\ PendingIsWorkedFor
  BY DEF BridgeInv
<1>2. /\ stack[g] # <<>> /\ x.left > 0 /\ calls' = [calls EXCEPT ![g] = n]
      /\ Top(g, Run(x.req, n, x.left - 1)) /\ Emit(g, HostCall(n, x.req))
      /\ UNCHANGED <<asked, via, routes, modelCalls, current, turn, spawned, unseen, closed, alive,
                     stdin>>
  BY DEF AskModel, hostVars
<1>3. /\ stdout \in [Child -> Seq(BridgeMessage)] /\ stack \in [Child -> Seq(Diagnosis)]
      /\ calls \in [Child -> Nat] /\ stack[g] \in Seq(Diagnosis)
  BY <1>1 DEF BridgeTypeOK
<1>4. Len(stack[g]) \in 1..Len(stack[g]) /\ x \in Diagnosis /\ n \in Nat
  BY <1>2, <1>3 DEF Innermost
<1>5. x.req \in HostRequest /\ x.left - 1 \in Nat
  BY <1>2, <1>4 DEF Diagnosis
<1>6. Run(x.req, n, x.left - 1) \in Diagnosis /\ Run(x.req, n, x.left - 1).req = x.req
  BY <1>4, <1>5 DEF Run, Diagnosis
<1>7. HostCall(n, x.req) \in BridgeMessage
  BY <1>4, <1>5, MessageTypes
<1>8. /\ stack' \in [Child -> Seq(Diagnosis)] 
      /\ \A c \in Child : \A i \in 1..Len(stack[c]) :
            i \in 1..Len(stack'[c]) /\ stack'[c][i].req = stack[c][i].req
  BY <1>2, <1>3, <1>4, <1>6, TopReplaced
<1>9. stdout' = [stdout EXCEPT ![g] = Append(@, HostCall(n, x.req))]
  BY <1>2 DEF Emit
<1>10. stdout' \in [Child -> Seq(BridgeMessage)] /\ Extends(stdout', stdout)
  BY <1>3, <1>7, <1>9, AppendedTo DEF Extends
<1> HIDE DEF x, n
<1>11. BridgeTypeOK' /\ CurrentIsKnown' /\ LentIsPending'
  BY <1>1, <1>2, <1>3, <1>4, <1>8, <1>10
    DEF BridgeTypeOK, CurrentIsKnown, LentIsPending, Pending
<1>12. ASSUME NEW r \in HostRequest, NEW c \in Child, via'[r] = c
       PROVE  Work(r, c)'
  <2>1. Work(r, c)
    BY <1>1, <1>2, <1>12 DEF PendingIsWorkedFor
  <2>2. Extends(stdin', stdin) /\ unseen \subseteq unseen'
    BY <1>2 DEF Extends
  <2>3. \A i \in 1..Len(stack[c]) :
           i \in 1..Len(stack[c])' /\ stack[c][i].req = stack'[c][i].req
    BY <1>8
  <2> QED BY <1>10, <2>1, <2>2, <2>3, WorkGoesOn
<1>13. PendingIsWorkedFor'
  BY <1>12 DEF PendingIsWorkedFor
<1> QED BY <1>11, <1>13 DEF BridgeInv

\* A diagnosis ends: its answer is in the pipe.
LEMMA EndRunKeeps ==
    ASSUME BridgeInv, NEW g \in Child, EndRun(g)
    PROVE  BridgeInv'
<1> DEFINE x == Innermost(g)
           n == Len(stack[g])
<1>1. BridgeTypeOK /\ CurrentIsKnown /\ LentIsPending /\ PendingIsWorkedFor
  BY DEF BridgeInv
<1>2. /\ stack[g] # <<>> /\ stack' = [stack EXCEPT ![g] = SubSeq(@, 1, Len(@) - 1)]
      /\ \E ok \in BOOLEAN : Emit(g, Answer(x.req, ok))
      /\ UNCHANGED <<asked, via, routes, modelCalls, current, turn, spawned, unseen, closed, alive,
                     stdin, calls>>
  BY DEF EndRun, hostVars
<1>3. /\ stdout \in [Child -> Seq(BridgeMessage)] /\ stack \in [Child -> Seq(Diagnosis)]
      /\ stack[g] \in Seq(Diagnosis)
  BY <1>1 DEF BridgeTypeOK
<1>4. n \in Nat /\ n \in 1..n /\ x \in Diagnosis /\ x = stack[g][n]
  BY <1>2, <1>3 DEF Innermost
<1>5. x.req \in HostRequest
  BY <1>4 DEF Diagnosis
<1>6. PICK ok \in BOOLEAN : Emit(g, Answer(x.req, ok))
  BY <1>2
<1>7. /\ Answer(x.req, ok) \in BridgeMessage
      /\ Answer(x.req, ok).type = "response" /\ Answer(x.req, ok).id = x.req
  BY <1>5, MessageTypes DEF Answer
<1>8. stdout' = [stdout EXCEPT ![g] = Append(@, Answer(x.req, ok))]
  BY <1>6 DEF Emit
<1>9. /\ stdout' \in [Child -> Seq(BridgeMessage)] /\ Extends(stdout', stdout)
      /\ Len(stdout[g]) + 1 \in 1..Len(stdout'[g])
      /\ stdout'[g][Len(stdout[g]) + 1] = Answer(x.req, ok)
  BY <1>3, <1>7, <1>8, AppendedTo DEF Extends
<1>10. \A r \in HostRequest : x.req = r => Answered(r, g)'
  BY <1>7, <1>9 DEF Answered
<1>11. /\ SubSeq(stack[g], 1, n - 1) \in Seq(Diagnosis)
       /\ Len(SubSeq(stack[g], 1, n - 1)) = n - 1
       /\ \A i \in 1..(n - 1) : SubSeq(stack[g], 1, n - 1)[i] = stack[g][i]
  <2>1. \A i \in 1..(n - 1) : i \in 1..n /\ stack[g][i] \in Diagnosis
    BY <1>3, <1>4
  <2>2. n - 1 \in Nat
    BY <1>4
  <2> HIDE DEF n
  <2> QED BY <2>1, <2>2, SubSeqProperties
<1>12. /\ stack' \in [Child -> Seq(Diagnosis)] /\ stack'[g] = SubSeq(stack[g], 1, n - 1)
       /\ \A c \in Child \ {g} : stack'[c] = stack[c]
  BY <1>2, <1>3, <1>11
<1>13. \A i \in 1..n : i = n \/ (i \in 1..Len(stack'[g]) /\ stack'[g][i] = stack[g][i])
  BY <1>4, <1>11, <1>12
<1> HIDE DEF x
<1>14. BridgeTypeOK' /\ CurrentIsKnown' /\ LentIsPending'
  BY <1>1, <1>2, <1>9, <1>12 DEF BridgeTypeOK, CurrentIsKnown, LentIsPending, Pending
<1>15. ASSUME NEW r \in HostRequest, NEW c \in Child, via'[r] = c
       PROVE  Work(r, c)'
  <2>1. Work(r, c)
    BY <1>1, <1>2, <1>15 DEF PendingIsWorkedFor
  <2>2. CASE Queued(r, c) \/ c \in unseen
    BY <1>2, <2>2 DEF Queued, Work
  <2>3. CASE Answered(r, c)
    BY <1>9, <2>3 DEF Answered, Work, Extends
  <2>4. CASE Diagnosed(r, c)
    <3>1. PICK i \in 1..Len(stack[c]) : stack[c][i].req = r
      BY <2>4 DEF Diagnosed
    <3>2. CASE c = g /\ i = n
      BY <1>4, <1>10, <3>1, <3>2 DEF Work
    <3>3. CASE ~(c = g /\ i = n)
      BY <1>12, <1>13, <2>4, <3>1, <3>3 DEF Diagnosed, Work
    <3> QED BY <3>2, <3>3
  <2> QED BY <2>1, <2>2, <2>3, <2>4 DEF Work
<1>16. PendingIsWorkedFor'
  BY <1>15 DEF PendingIsWorkedFor
<1> QED BY <1>14, <1>16 DEF BridgeInv

\* A process ends: its exit is to be seen, and what it held is lost.
LEMMA ChildDiesKeeps ==
    ASSUME BridgeInv, NEW g \in Child, ChildDies(g)
    PROVE  BridgeInv'
<1>1. BridgeTypeOK /\ CurrentIsKnown /\ LentIsPending /\ PendingIsWorkedFor
  BY DEF BridgeInv
<1>2. /\ alive' = alive \ {g} /\ unseen' = unseen \cup {g}
      /\ stdin' = [stdin EXCEPT ![g] = <<>>] /\ stack' = [stack EXCEPT ![g] = <<>>]
      /\ UNCHANGED <<asked, via, routes, modelCalls, current, turn, spawned, closed, stdout, calls>>
  BY DEF ChildDies
<1>3. /\ stdin \in [Child -> Seq(HostMessage)] /\ stack \in [Child -> Seq(Diagnosis)]
  BY <1>1 DEF BridgeTypeOK
<1>4. /\ stdin' \in [Child -> Seq(HostMessage)] /\ stack' \in [Child -> Seq(Diagnosis)]
      /\ \A c \in Child \ {g} : stdin'[c] = stdin[c] /\ stack'[c] = stack[c]
  BY <1>2, <1>3
<1>5. BridgeTypeOK' /\ CurrentIsKnown' /\ LentIsPending'
  BY <1>1, <1>2, <1>4 DEF BridgeTypeOK, CurrentIsKnown, LentIsPending, Pending
<1>6. ASSUME NEW r \in HostRequest, NEW c \in Child, via'[r] = c
      PROVE  Work(r, c)'
  <2>1. Work(r, c)
    BY <1>1, <1>2, <1>6 DEF PendingIsWorkedFor
  <2>2. CASE c = g
    BY <1>2, <2>2 DEF Work
  <2>3. CASE c # g
    BY <1>2, <1>4, <2>1, <2>3 DEF Work, Queued, Answered, Diagnosed
  <2> QED BY <2>2, <2>3
<1>7. PendingIsWorkedFor'
  BY <1>6 DEF PendingIsWorkedFor
<1> QED BY <1>5, <1>7 DEF BridgeInv
-----------------------------------------------------------------------------
(* The specification. *)

LEMMA BridgeInitOK == BridgeInit => BridgeInv
<1> SUFFICES ASSUME BridgeInit PROVE BridgeInv
  OBVIOUS
<1>1. 0 \in 0..MaxChildren /\ \A g \in Child : g # 0
  BY BridgeAssumption DEF Child
<1>2. BridgeTypeOK
  <2>1. via \in [HostRequest -> 0..MaxChildren] /\ calls \in [Child -> Nat]
    BY <1>1 DEF BridgeInit
  <2>2. /\ stdin \in [Child -> Seq(HostMessage)] /\ stdout \in [Child -> Seq(BridgeMessage)]
        /\ stack \in [Child -> Seq(Diagnosis)]
    BY DEF BridgeInit
  <2> QED BY <1>1, <2>1, <2>2 DEF BridgeInit, BridgeTypeOK
<1>3. CurrentIsKnown /\ LentIsPending /\ PendingIsWorkedFor
  BY <1>1 DEF BridgeInit, CurrentIsKnown, LentIsPending, PendingIsWorkedFor
<1> QED BY <1>2, <1>3 DEF BridgeInv

LEMMA BridgeStep == BridgeInv /\ [BridgeNext]_hvars => BridgeInv'
<1> SUFFICES ASSUME BridgeInv, [BridgeNext]_hvars PROVE BridgeInv'
  OBVIOUS
<1>1. ASSUME NEW g \in Child, Accept(g)
      PROVE  BridgeInv'
  BY <1>1, AcceptKeeps
<1>2. CASE EndTurn
  BY <1>2, EndTurnKeeps
<1>3. ASSUME NEW r \in HostRequest, turn = 0, SendRequest(r) \/ GiveUp(r)
      PROVE  BridgeInv'
  BY <1>3, SendRequestKeeps, GiveUpKeeps
<1>4. ASSUME NEW g \in Child, turn = 0,
             ExitSeen(g) \/ Read(g) \/ AskModel(g) \/ EndRun(g) \/ ChildDies(g)
      PROVE  BridgeInv'
  BY <1>4, ExitSeenKeeps, ReadKeeps, AskModelKeeps, EndRunKeeps, ChildDiesKeeps
<1>5. ASSUME NEW c \in modelCalls, ModelEnds(c)
      PROVE  BridgeInv'
  BY <1>5, ModelEndsKeeps
<1>6. CASE CloseBridge
  BY <1>6, CloseBridgeKeeps
<1>7. CASE UNCHANGED hvars
  BY <1>7 DEF BridgeInv, BridgeTypeOK, CurrentIsKnown, LentIsPending, PendingIsWorkedFor, Work,
              Queued, Answered, Diagnosed, Pending, hvars, hostVars, bridgeVars
<1> QED BY <1>1, <1>2, <1>3, <1>4, <1>5, <1>6, <1>7 DEF BridgeNext

LEMMA BridgeInvariance == BridgeSpec => []BridgeInv
BY BridgeInitOK, BridgeStep, PTL DEF BridgeSpec

\* No promise of the plugin is left without somebody who will settle it:
\* whatever process dies, whatever is answered late and however the plugin is
\* closed, the request of a promise that is open is in a pipe, in a diagnosis
\* or answered, or the exit event that fails it is still to come.
THEOREM RequestIsUnderWayHolds == BridgeSpec => []RequestIsUnderWay
<1>1. BridgeInv => RequestIsUnderWay
  <2> SUFFICES ASSUME BridgeInv, NEW r \in Pending
               PROVE  LET g == via[r] IN
                        \/ InPipe(r, g) # {} \/ Responses(r, g) # {}
                        \/ r \in Deep /\ Running(r, g) # {}
                        \/ g \in unseen
    BY DEF RequestIsUnderWay
  <2>1. BridgeTypeOK /\ PendingIsWorkedFor
    BY DEF BridgeInv
  <2>2. r \in HostRequest /\ via[r] \in Child
    BY <2>1 DEF Pending, BridgeTypeOK, Child
  <2>3. Work(r, via[r])
    BY <2>1, <2>2 DEF PendingIsWorkedFor
  <2>4. /\ stdin[via[r]] \in Seq(HostMessage) /\ stdout[via[r]] \in Seq(BridgeMessage)
        /\ stack[via[r]] \in Seq(Diagnosis)
    BY <2>1, <2>2 DEF BridgeTypeOK
  <2>5. /\ DOMAIN stdin[via[r]] = 1..Len(stdin[via[r]])
        /\ DOMAIN stdout[via[r]] = 1..Len(stdout[via[r]])
        /\ DOMAIN stack[via[r]] = 1..Len(stack[via[r]])
    BY <2>4
  <2> QED BY <2>3, <2>5
             DEF Work, Queued, Answered, Diagnosed, InPipe, Responses, Running
<1> QED BY <1>1, BridgeInvariance, PTL

\* The line that begins a turn of the event loop spends no tokens for a
\* diagnosis that was settled: between turns the lent routes are those of open
\* promises, however promises were settled before (withMode, dispatch).
THEOREM OnlyLentRoutesAreUsedHolds == BridgeSpec => OnlyLentRoutesAreUsed
<1> DEFINE Used == turn = 0 => \A c \in modelCalls' \ modelCalls : c.token \in Pending
<1>1. BridgeInv /\ [BridgeNext]_hvars => [Used]_hvars
  <2> SUFFICES ASSUME BridgeInv, BridgeNext, turn = 0, NEW c \in modelCalls' \ modelCalls
               PROVE  c.token \in Pending
    OBVIOUS
  <2>1. PICK g \in Child : Accept(g)
    BY DEF BridgeNext, EndTurn, SendRequest, GiveUp, ExitSeen, Read, AskModel, EndRun, ChildDies,
           ModelEnds, CloseBridge, hostVars
  <2>2. Dispatch(g, Head(stdout[g]))
    BY <2>1 DEF Accept
  <2>3. c.token \in routes
    BY <2>2 DEF Dispatch
  <2> QED BY <2>3 DEF BridgeInv, LentIsPending
<1> QED BY <1>1, BridgeInvariance, PTL DEF BridgeSpec, OnlyLentRoutesAreUsed
=============================================================================
