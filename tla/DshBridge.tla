------------------------------ MODULE DshBridge ------------------------------
(* The plugin of the DeepSeek Harness (integrations/dsh-agentdebugx): the      *)
(* PythonBridge of index.js, one callback of the event loop at a time, and the *)
(* single-threaded process of bridge/agentdebug_bridge.py that it starts, with *)
(* the pipes between them. A deep diagnosis calls back into the host for its   *)
(* model while it runs, and host requests that arrive then are served inside.  *)
EXTENDS Naturals, Sequences

CONSTANTS
    HostRequest,    \* calls of request(), each with an id of its own
    Deep,           \* those that lend the bridge a route to the model
    MaxChildren,    \* bound on the processes that are started
    MaxModelCalls   \* bound on the model calls of one diagnosis

ASSUME BridgeAssumption ==
    /\ Deep \subseteq HostRequest
    /\ MaxChildren \in Nat /\ MaxModelCalls \in Nat

VARIABLES
    asked,          \* the requests that were made
    via,            \* request -> the process that is to answer it, 0 if settled
    routes,         \* the requests whose route is lent
    modelCalls,     \* model calls the host has started: process, id, request
    current,        \* this.process, 0 if undefined
    turn,           \* the process whose output the event loop reads, 0 if none
    spawned, alive, \* how many processes were started; those that run
    unseen,         \* those that ended and whose exit event is still to come
    closed,         \* the plugin was disposed of
    stdin, stdout,  \* process -> messages in its pipes
    stack,          \* process -> diagnoses that are running, the innermost last
    calls           \* process -> the number of the last call to the host

hostVars == <<asked, via, routes, modelCalls, current, turn, spawned, unseen, closed>>
bridgeVars == <<stack, calls>>
hvars == <<hostVars, bridgeVars, alive, stdin, stdout>>

Child == 1..MaxChildren
Pending == {r \in HostRequest : via[r] # 0}

Asked(r) == [type |-> "request", id |-> r]
HostReply(n) == [type |-> "reply", id |-> n]
HostCall(n, r) == [type |-> "call", id |-> n, token |-> r]
Answer(r, ok) == [type |-> "response", id |-> r, ok |-> ok]
Run(r, wait, left) == [req |-> r, wait |-> wait, left |-> left]

BridgeInit ==
    /\ asked = {} /\ via = [r \in HostRequest |-> 0]
    /\ routes = {} /\ modelCalls = {}
    /\ current = 0 /\ turn = 0 /\ spawned = 0 /\ alive = {} /\ unseen = {} /\ closed = FALSE
    /\ stdin = [g \in Child |-> <<>>] /\ stdout = [g \in Child |-> <<>>]
    /\ stack = [g \in Child |-> <<>>] /\ calls = [g \in Child |-> 0]
------------------------------------------------------------------------------
(* The host. *)

\* What is written to a process that does not run is lost.
WriteTo(g, m, running) ==
    stdin' = IF g \in running THEN [stdin EXCEPT ![g] = Append(@, m)] ELSE stdin

\* finish() and the end of the promise, for some entries of the table.
Settle(S) == via' = [r \in HostRequest |-> IF r \in S THEN 0 ELSE via[r]]

\* The lines that came in one piece are accepted in one turn of the event loop;
\* what awaits the settled promises, and gives their routes back, runs after it.
EndTurn ==
    /\ turn' = 0
    /\ routes' = routes \cap Pending
    /\ UNCHANGED <<asked, via, modelCalls, current, spawned, unseen, closed, alive, stdin, stdout, bridgeVars>>

\* request(), with start() and, for a deep diagnosis, lend().
SendRequest(r) ==
    /\ r \notin asked
    /\ current # 0 \/ spawned < MaxChildren
    /\ LET g == IF current = 0 THEN spawned + 1 ELSE current
       IN  /\ current' = g
           /\ spawned' = IF current = 0 THEN g ELSE spawned
           /\ alive' = IF current = 0 THEN alive \cup {g} ELSE alive
           /\ via' = [via EXCEPT ![r] = g]
           /\ WriteTo(g, Asked(r), alive')
    /\ asked' = asked \cup {r}
    /\ routes' = IF r \in Deep THEN routes \cup {r} ELSE routes
    /\ UNCHANGED <<modelCalls, turn, unseen, closed, stdout, bridgeVars>>

\* Mutant: a route is given back only when the bridge has answered.
MutantGiveUp(r) ==
    /\ r \in Pending
    /\ Settle({r})
    /\ UNCHANGED <<asked, routes, modelCalls, current, turn, spawned, unseen, closed, alive, stdin, stdout, bridgeVars>>

\* The timer, the abort signal, or the error of a write to a dead process.
GiveUp(r) ==
    /\ r \in Pending
    /\ Settle({r}) /\ routes' = routes \ {r}
    /\ UNCHANGED <<asked, modelCalls, current, turn, spawned, unseen, closed, alive, stdin, stdout, bridgeVars>>

\* dispatch(): a call of the bridge is served while its route is lent.
Dispatch(g, m) ==
    IF m.token \in routes
    THEN modelCalls' = modelCalls \cup {[by |-> g, id |-> m.id, token |-> m.token]} /\ UNCHANGED stdin
    ELSE WriteTo(current, HostReply(m.id), alive) /\ UNCHANGED modelCalls

\* accept(): an error that belongs to no entry of the table fails them all.
Accept(g) ==
    /\ turn \in {0, g} /\ stdout[g] # <<>>
    /\ turn' = g
    /\ stdout' = [stdout EXCEPT ![g] = Tail(@)]
    /\ LET m == Head(stdout[g])
       IN  \/ m.type = "call" /\ Dispatch(g, m) /\ UNCHANGED via
           \/ /\ m.type = "response" /\ m.id \in Pending
              /\ Settle({m.id})
              /\ UNCHANGED <<modelCalls, stdin>>
           \/ /\ m.type = "response" /\ m.id \notin Pending
              /\ Settle(IF m.ok THEN {} ELSE Pending)
              /\ UNCHANGED <<modelCalls, stdin>>
    /\ UNCHANGED <<asked, routes, current, spawned, unseen, closed, alive, bridgeVars>>

\* completeWithHost() ends; the reply goes to the process of the day.
ModelEnds(c) ==
    /\ c \in modelCalls
    /\ modelCalls' = modelCalls \ {c}
    /\ WriteTo(current, HostReply(c.id), alive)
    /\ UNCHANGED <<asked, via, routes, current, turn, spawned, unseen, closed, alive, stdout, bridgeVars>>

\* The exit event of any process the plugin ever started.
ExitSeen(g) ==
    /\ g \in unseen
    /\ unseen' = unseen \ {g}
    /\ current' = 0
    /\ Settle(Pending) /\ routes' = {}
    /\ UNCHANGED <<asked, modelCalls, turn, spawned, closed, alive, stdin, stdout, bridgeVars>>

\* close(), while tools that were started before may still be running.
CloseBridge ==
    /\ ~closed
    /\ closed' = TRUE
    /\ current' = 0
    /\ UNCHANGED <<asked, via, routes, modelCalls, turn, spawned, unseen, alive, stdin, stdout, bridgeVars>>
------------------------------------------------------------------------------
(* The bridge. *)

Innermost(g) == stack[g][Len(stack[g])]
Waiting(g) == stack[g] # <<>> /\ Innermost(g).wait # 0

Top(g, frame) == stack' = [stack EXCEPT ![g][Len(stack[g])] = frame]
Emit(g, m) == stdout' = [stdout EXCEPT ![g] = Append(@, m)]

\* Mutant: while it waits for a reply, all that is not the reply is dropped.
MutantRespond(g, r) ==
    \/ Waiting(g) /\ UNCHANGED <<stdout, stack>>
    \/ /\ ~Waiting(g) /\ r \notin Deep
       /\ \E ok \in BOOLEAN : Emit(g, Answer(r, ok))
       /\ UNCHANGED stack
    \/ /\ ~Waiting(g) /\ r \in Deep
       /\ stack' = [stack EXCEPT ![g] = Append(@, Run(r, 0, MaxModelCalls))]
       /\ UNCHANGED stdout

\* _respond(): a request that needs no model is answered at once, between the
\* host's messages; a deep one begins.
Respond(g, r) ==
    \/ /\ r \notin Deep
       /\ \E ok \in BOOLEAN : Emit(g, Answer(r, ok))
       /\ UNCHANGED stack
    \/ /\ r \in Deep
       /\ stack' = [stack EXCEPT ![g] = Append(@, Run(r, 0, MaxModelCalls))]
       /\ UNCHANGED stdout

\* next_request() in the outer loop, or the loop of call(), which waits for one
\* reply, serves requests and drops replies to other calls. Its limit on the
\* depth is never reached: HostLLMClient does not pass the depth on.
Read(g) ==
    /\ g \in alive /\ stdin[g] # <<>>
    /\ stack[g] = <<>> \/ Waiting(g)
    /\ stdin' = [stdin EXCEPT ![g] = Tail(@)]
    /\ LET m == Head(stdin[g])
       IN  \/ m.type = "request" /\ Respond(g, m.id)
           \/ /\ m.type = "reply" /\ Waiting(g) /\ m.id = Innermost(g).wait
              /\ Top(g, [Innermost(g) EXCEPT !.wait = 0])
              /\ UNCHANGED stdout
           \/ /\ m.type = "reply" /\ (Waiting(g) => m.id # Innermost(g).wait)
              /\ UNCHANGED <<stack, stdout>>
    /\ UNCHANGED <<hostVars, alive, calls>>

\* HostLLMClient.complete().
AskModel(g) ==
    /\ g \in alive /\ stack[g] # <<>> /\ ~Waiting(g) /\ Innermost(g).left > 0
    /\ LET n == calls[g] + 1
           x == Innermost(g)
       IN  /\ calls' = [calls EXCEPT ![g] = n]
           /\ Top(g, Run(x.req, n, x.left - 1))
           /\ Emit(g, HostCall(n, x.req))
    /\ UNCHANGED <<hostVars, alive, stdin>>

\* _diagnose_trajectory() ends, with a report or an exception.
EndRun(g) ==
    /\ g \in alive /\ stack[g] # <<>> /\ ~Waiting(g)
    /\ \E ok \in BOOLEAN : Emit(g, Answer(Innermost(g).req, ok))
    /\ stack' = [stack EXCEPT ![g] = SubSeq(@, 1, Len(@) - 1)]
    /\ UNCHANGED <<hostVars, alive, stdin, calls>>

\* The process ends, at the end of its input, killed by close() or by itself.
ChildDies(g) ==
    /\ g \in alive
    /\ alive' = alive \ {g} /\ unseen' = unseen \cup {g}
    /\ stdin' = [stdin EXCEPT ![g] = <<>>] /\ stack' = [stack EXCEPT ![g] = <<>>]
    /\ UNCHANGED <<asked, via, routes, modelCalls, current, turn, spawned, closed, stdout, calls>>
------------------------------------------------------------------------------
\* Nothing else runs in the host during a turn, and what the bridge does
\* meanwhile may as well have happened before it.
BridgeNext ==
    \/ \E g \in Child : Accept(g)
    \/ turn # 0 /\ EndTurn
    \/ /\ turn = 0
       /\ \/ \E r \in HostRequest : SendRequest(r) \/ GiveUp(r)
          \/ \E g \in Child : ExitSeen(g) \/ Read(g) \/ AskModel(g) \/ EndRun(g) \/ ChildDies(g)
          \/ \E c \in modelCalls : ModelEnds(c)
          \/ CloseBridge

BridgeSpec == BridgeInit /\ [][BridgeNext]_hvars

\* The messages, the diagnosis and the response that carry a request.
InPipe(r, g) == {i \in DOMAIN stdin[g] : stdin[g][i] = Asked(r)}
Running(r, g) == {i \in DOMAIN stack[g] : stack[g][i].req = r}
Responses(r, g) == {i \in DOMAIN stdout[g] : stdout[g][i].type = "response" /\ stdout[g][i].id = r}

\* A promise that is still open is being worked for: its request is in a pipe,
\* on the stack of the bridge or answered, or its process is gone and the exit
\* event that fails it is still to come. A plain request never waits for the
\* diagnosis it arrives in (call, "served inline instead of being queued").
RequestIsUnderWay ==
    \A r \in Pending : LET g == via[r] IN
        \/ InPipe(r, g) # {} \/ Responses(r, g) # {}
        \/ r \in Deep /\ Running(r, g) # {}
        \/ g \in unseen

\* The line that begins a turn starts no model call for a diagnosis that was
\* settled, in whatever process its request was written ("a stale bridge call
\* cannot spend tokens after the fact", withMode). Later lines of the same turn
\* may: an error nobody waits for fails every request, and their routes are
\* given back only when the turn ends.
OnlyLentRoutesAreUsed ==
    [][turn = 0 => \A c \in modelCalls' \ modelCalls : c.token \in Pending]_hvars
==============================================================================
