--------------------------- MODULE InspectorProofs ----------------------------
(***************************************************************************)
(* Proofs about three parts of the inspection UI, which share no state: a  *)
(* discussion, the branch and case files, and the workbench that opens the *)
(* UI, for any values of their constants.                                  *)
(***************************************************************************)
EXTENDS Discussion, BranchStore, Workbench, WellFoundedInduction,
        FiniteSetTheorems, TLAPS

-----------------------------------------------------------------------------
(* One discussion: any windows, other clients, requests, retries, changes. *)

(* The store: sequences are bounded by the version, an answer comes after  *)
(* its question, and no answer is there without its question having been.  *)
StoreOK ==
    /\ \A m \in messages : m.seq <= version
    /\ \A q, a \in messages :
          q.by = a.by /\ q.role = "user" /\ a.role = "assistant" => q.seq < a.seq
    /\ exists => \A i \in Request : KeptMessage(i, "assistant") => KeptMessage(i, "user")

\* Whoever is known to the store by an id is a request with that id.
KnownIds ==
    /\ \A m \in messages : \E q \in Request : request[q].id = m.by
    /\ \A x \in removed : \E q \in Request : request[q].id = x[1]

WindowOK(w) ==
    /\ window[w].read # None => window[w].read <= version
    /\ window[w].pc # "idle" => window[w].read # None
    /\ window[w].version # None => window[w].version <= version
    /\ exists /\ window[w].version = version => window[w].page = Page(messages)

\* A version that a question was written under is behind.
RequestOK(r) ==
    /\ IF request[r].pc = "unsent" THEN request[r].id = None ELSE request[r].id \in Request
    /\ request[r].expected <= version
    /\ KeptMessage(request[r].id, "user") => request[r].expected < version
    /\ exists /\ request[r].pc = "append" /\ request[r].expected = version
          => request[r].prior = Page(messages)
    /\ exists /\ request[r].pc \in {"read", "asked", "reply", "ok"}
          => KeptMessage(request[r].id, "user")
    /\ exists /\ request[r].pc \in {"reply", "ok"}
          => KeptMessage(request[r].id, "assistant")

DiscussionInv ==
    /\ DiscussionTypeOK /\ StoreOK /\ KnownIds
    /\ \A w \in Client : WindowOK(w)
    /\ \A r \in Request : RequestOK(r)

\* A set of numbers with a bound has a greatest element.
LEMMA GreatestExists ==
    ASSUME NEW S, S \subseteq Nat, S # {}, NEW bound \in Nat, \A n \in S : n <= bound
    PROVE  \E g \in S : \A n \in S : n <= g
<1> DEFINE T == {b \in Nat : \A n \in S : n <= b}
<1>1. PICK b \in T : \A c \in T : ~(c < b)
  <2>1. T \subseteq Nat /\ bound \in T
    OBVIOUS
  <2>2. IsWellFoundedOn(OpToRel(<, Nat), Nat)
    BY NatLessThanWellFounded
  <2>3. \E b \in T : \A c \in T : ~(<<c, b>> \in OpToRel(<, Nat))
    BY <2>1, <2>2, WFMin
  <2>4. \A b, c \in Nat : c < b => <<c, b>> \in OpToRel(<, Nat)
    BY DEF OpToRel
  <2>5. PICK b \in T : \A c \in T : ~(<<c, b>> \in OpToRel(<, Nat))
    BY <2>3
  <2> SUFFICES \A c \in T : ~(c < b)
    OBVIOUS
  <2> HIDE DEF T
  <2> QED  BY <2>1, <2>4, <2>5
<1>2. b \in S
  <2> SUFFICES ASSUME b \notin S PROVE FALSE
    OBVIOUS
  <2>1. \A n \in S : n <= b - 1 /\ n < b
    OBVIOUS
  <2>2. b - 1 \in T
    <3>1. PICK n \in S : n \in Nat /\ n < b
      BY <2>1
    <3>2. b - 1 \in Nat
      BY <3>1
    <3> QED  BY <2>1, <3>2
  <2> QED  BY <1>1, <2>2
<1> QED  BY <1>2

\* The next sequence is above all that are there, and grows with the version.
LEMMA NextSequenceIsAbove ==
    ASSUME DiscussionTypeOK, StoreOK
    PROVE  /\ NextSequence \in Nat /\ NextSequence <= version + 1
           /\ \A m \in messages : m.seq < NextSequence
<1>1. version \in Nat /\ \A m \in messages : m.seq \in Nat /\ m.seq <= version
  BY DEF DiscussionTypeOK, StoreOK, Message
<1>2. CASE messages = {}
  BY <1>1, <1>2 DEF NextSequence
<1>3. CASE messages # {}
  <2> DEFINE S == {m.seq : m \in messages}
             g == CHOOSE n \in S : \A m \in messages : m.seq <= n
  <2>1. \E n \in S : \A k \in S : k <= n
    <3>1. S \subseteq Nat /\ S # {} /\ \A n \in S : n <= version
      BY <1>1, <1>3
    <3> HIDE DEF S
    <3> QED  BY <1>1, <3>1, GreatestExists
  <2>2. g \in S /\ \A m \in messages : m.seq <= g
    BY <2>1
  <2>3. NextSequence = g + 1
    BY <1>3 DEF NextSequence
  <2>4. g \in Nat /\ g <= version
    BY <1>1, <2>2
  <2>5. g + 1 \in Nat /\ g + 1 <= version + 1
    BY <1>1, <2>4
  <2> HIDE DEF g
  <2>6. \A m \in messages : m.seq < g + 1
    BY <1>1, <2>2, <2>4
  <2> QED  BY <2>3, <2>5, <2>6
<1> QED  BY <1>2, <1>3

\* Only requests change, none of them under another id but one that was unsent.
LEMMA RequestSteps ==
    ASSUME DiscussionInv, NEW r \in Request,
           UNCHANGED <<exists, version, messages, removed, window>>,
           NEW state \in RequestState, request' = [request EXCEPT ![r] = state],
           \/ state.id = request[r].id
           \/ request[r].id = None,
           state.pc # "unsent", state.id \in Request,
           state.expected <= version,
           KeptMessage(state.id, "user") => state.expected < version,
           exists /\ state.pc = "append" /\ state.expected = version
              => state.prior = Page(messages),
           exists /\ state.pc \in {"read", "asked", "reply", "ok"} => KeptMessage(state.id, "user"),
           exists /\ state.pc \in {"reply", "ok"} => KeptMessage(state.id, "assistant")
    PROVE  DiscussionInv'
<1>1. DiscussionTypeOK'
  BY DEF DiscussionInv, DiscussionTypeOK
<1>2. \A i, role : KeptMessage(i, role)' <=> KeptMessage(i, role)
  BY DEF KeptMessage, Written
<1>3. Page(messages)' = Page(messages)
  BY DEF Page
<1>4. /\ request'[r] = state /\ \A q \in Request \ {r} : request'[q] = request[q]
  BY DEF DiscussionInv, DiscussionTypeOK
<1>5. StoreOK'
  BY <1>2 DEF DiscussionInv, StoreOK
<1>6. KnownIds'
  <2>1. \A m \in messages : m.by # None
    BY DiscussionAssumption DEF DiscussionInv, DiscussionTypeOK, Message
  <2>2. \A x \in removed : x[1] # None
    BY DiscussionAssumption DEF DiscussionInv, DiscussionTypeOK
  <2>3. \A i : i # None /\ (\E q \in Request : request[q].id = i)
           => \E q \in Request : request'[q].id = i
    BY <1>4
  <2> QED  BY <2>1, <2>2, <2>3 DEF DiscussionInv, KnownIds
<1>7. \A w \in Client : WindowOK(w)'
  BY <1>3 DEF DiscussionInv, WindowOK
<1>8. \A q \in Request : RequestOK(q)'
  <2>1. RequestOK(r)'
    BY <1>2, <1>3, <1>4 DEF RequestOK
  <2>2. \A q \in Request \ {r} : RequestOK(q)'
    BY <1>2, <1>3, <1>4 DEF DiscussionInv, RequestOK
  <2> QED  BY <2>1, <2>2
<1> QED  BY <1>1, <1>5, <1>6, <1>7, <1>8 DEF DiscussionInv

LEMMA PageIsPart == Page(messages) \subseteq messages
  BY DEF Page

\* A request that ends keeps its id and what it was sent under.
LEMMA EndedState ==
    ASSUME DiscussionInv, NEW r \in Request, NEW pc \in {"ok", "failed"}
    PROVE  LET state == [request[r] EXCEPT !.pc = pc, !.prior = {}, !.updated = 0]
           IN  /\ state \in RequestState /\ HandlerEnds(r, pc) = [request EXCEPT ![r] = state]
               /\ state.pc = pc /\ state.id = request[r].id
               /\ state.expected = request[r].expected
  BY DEF DiscussionInv, DiscussionTypeOK, RequestState, HandlerEnds

LEMMA SendSteps ==
    ASSUME DiscussionInv, NEW r \in Request,
           \/ \E w \in Window : SendQuestion(w, r)
           \/ \E q \in Request : SendAgain(r, q)
    PROVE  DiscussionInv'
<1>1. /\ request[r] \in RequestState /\ request \in [Request -> RequestState] /\ RequestOK(r)
      /\ version \in Nat /\ request[r].pc = "unsent" /\ request[r].id = None
      /\ UNCHANGED <<exists, version, messages, removed, window>>
  BY DEF DiscussionInv, DiscussionTypeOK, RequestOK, SendQuestion, SendAgain
<1>2. ASSUME NEW w \in Window, SendQuestion(w, r) PROVE DiscussionInv'
  <2> DEFINE state == [request[r] EXCEPT !.pc = "sent", !.id = r, !.expected = window[w].version]
  <2>1. window[w].version \in Nat /\ window[w].version <= version
    BY <1>2 DEF SendQuestion, DiscussionInv, DiscussionTypeOK, WindowOK, WindowState, Client
  <2>2. request' = [request EXCEPT ![r] = state]
    BY <1>1, <1>2 DEF SendQuestion
  <2>3. /\ state \in RequestState /\ state.pc = "sent" /\ state.id = r
        /\ state.expected = window[w].version
    BY <1>1, <2>1 DEF RequestState
  <2>4. ~KeptMessage(r, "user")
    BY <1>2 DEF SendQuestion, DiscussionInv, KnownIds, KeptMessage, Written
  <2> HIDE DEF state
  <2> QED  BY <1>1, <2>1, <2>2, <2>3, <2>4, RequestSteps
<1>3. ASSUME NEW q \in Request, SendAgain(r, q) PROVE DiscussionInv'
  <2> DEFINE state == [request[r] EXCEPT !.pc = "sent", !.id = request[q].id,
                                         !.expected = request[q].expected]
  <2>1. /\ RequestOK(q) /\ request[q].id \in Request /\ request[q].expected \in Nat
        /\ request[q].expected <= version
        /\ KeptMessage(request[q].id, "user") => request[q].expected < version
    BY <1>3 DEF SendAgain, DiscussionInv, DiscussionTypeOK, RequestState, RequestOK
  <2>2. request' = [request EXCEPT ![r] = state]
    BY <1>1, <1>3 DEF SendAgain
  <2>3. /\ state \in RequestState /\ state.pc = "sent" /\ state.id = request[q].id
        /\ state.expected = request[q].expected
    BY <1>1, <2>1 DEF RequestState
  <2> HIDE DEF state
  <2> QED  BY <1>1, <2>1, <2>2, <2>3, RequestSteps
<1> QED  BY <1>2, <1>3

\* The steps of a handler that read, end or fail.
LEMMA HandlerReads ==
    ASSUME DiscussionInv, NEW r \in Request,
           ReadPrior(r) \/ ReadSession(r) \/ ReplyTo(r) \/ HandlerFails(r)
    PROVE  DiscussionInv'
<1>1. /\ request[r] \in RequestState /\ request \in [Request -> RequestState] /\ RequestOK(r)
      /\ version \in Nat /\ request[r].pc # "unsent" /\ request[r].id \in Request
      /\ request[r].expected <= version
      /\ KeptMessage(request[r].id, "user") => request[r].expected < version
      /\ UNCHANGED <<exists, version, messages, removed, window>>
  BY DEF DiscussionInv, DiscussionTypeOK, RequestOK, ReadPrior, ReadSession, ReplyTo, HandlerFails
<1>2. ASSUME request' = HandlerEnds(r, "failed") PROVE DiscussionInv'
  <2> DEFINE state == [request[r] EXCEPT !.pc = "failed", !.prior = {}, !.updated = 0]
  <2>1. /\ state \in RequestState /\ request' = [request EXCEPT ![r] = state]
        /\ state.pc = "failed" /\ state.id = request[r].id /\ state.expected = request[r].expected
    BY <1>2, EndedState
  <2> HIDE DEF state
  <2> QED  BY <1>1, <2>1, RequestSteps
<1>3. ASSUME exists, request[r].pc = "reply", request' = HandlerEnds(r, "ok")
      PROVE  DiscussionInv'
  <2> DEFINE state == [request[r] EXCEPT !.pc = "ok", !.prior = {}, !.updated = 0]
  <2>1. /\ state \in RequestState /\ request' = [request EXCEPT ![r] = state]
        /\ state.pc = "ok" /\ state.id = request[r].id /\ state.expected = request[r].expected
    BY <1>3, EndedState
  <2>2. KeptMessage(request[r].id, "user") /\ KeptMessage(request[r].id, "assistant")
    BY <1>1, <1>3 DEF RequestOK
  <2> HIDE DEF state
  <2> QED  BY <1>1, <2>1, <2>2, RequestSteps
<1>4. ASSUME exists, request[r].pc = "read",
             request' = [request EXCEPT ![r].pc = "asked", ![r].updated = version]
      PROVE  DiscussionInv'
  <2> DEFINE state == [request[r] EXCEPT !.pc = "asked", !.updated = version]
  <2>1. /\ state \in RequestState /\ request' = [request EXCEPT ![r] = state]
        /\ state.pc = "asked" /\ state.id = request[r].id /\ state.expected = request[r].expected
    BY <1>1, <1>4 DEF RequestState
  <2>2. KeptMessage(request[r].id, "user")
    BY <1>1, <1>4 DEF RequestOK
  <2> HIDE DEF state
  <2> QED  BY <1>1, <2>1, <2>2, RequestSteps
<1>5. ASSUME exists, NEW pc \in {"append", "reply"},
             pc = "reply" => KeptMessage(request[r].id, "assistant"),
             request' = [request EXCEPT ![r].pc = pc, ![r].prior = Page(messages)]
      PROVE  DiscussionInv'
  <2> DEFINE state == [request[r] EXCEPT !.pc = pc, !.prior = Page(messages)]
  <2>1. Page(messages) \in SUBSET Message
    BY PageIsPart DEF DiscussionInv, DiscussionTypeOK
  <2>2. /\ state \in RequestState /\ request' = [request EXCEPT ![r] = state]
        /\ state.pc = pc /\ state.id = request[r].id /\ state.expected = request[r].expected
        /\ state.prior = Page(messages)
    BY <1>1, <1>5, <2>1 DEF RequestState
  <2>3. pc = "reply" => KeptMessage(request[r].id, "user")
    BY <1>1, <1>5 DEF DiscussionInv, StoreOK
  <2> HIDE DEF state
  <2> QED  BY <1>1, <1>5, <2>2, <2>3, RequestSteps, ZenonT(30)
<1>6. CASE ReadPrior(r)
  <2>1. CASE ~exists
    BY <1>2, <1>6, <2>1 DEF ReadPrior
  <2>2. CASE exists
    <3> DEFINE answered == \E m \in Page(messages) : m.by = request[r].id /\ m.role = "assistant"
    <3>1. request' = [request EXCEPT ![r].pc = IF answered THEN "reply" ELSE "append",
                                     ![r].prior = Page(messages)]
      BY <1>6, <2>2 DEF ReadPrior
    <3>2. answered => KeptMessage(request[r].id, "assistant")
      BY PageIsPart DEF KeptMessage, Written
    <3>3. CASE answered
      BY <1>5, <2>2, <3>1, <3>2, <3>3
    <3>4. CASE ~answered
      BY <1>5, <2>2, <3>1, <3>4
    <3> QED  BY <3>3, <3>4
  <2> QED  BY <2>1, <2>2
<1>7. CASE ReadSession(r)
  BY <1>2, <1>4, <1>7 DEF ReadSession
<1>8. CASE ReplyTo(r)
  BY <1>2, <1>3, <1>8 DEF ReplyTo
<1>9. CASE HandlerFails(r)
  BY <1>2, <1>9 DEF HandlerFails
<1> QED  BY <1>6, <1>7, <1>8, <1>9

\* A window reads, or drops what it showed.
LEMMA WindowReads ==
    ASSUME DiscussionInv, NEW w \in Client,
           LoadSession(w) \/ LoadMessages(w) \/ RequireDiscussion(w)
    PROVE  DiscussionInv'
<1>1. /\ window[w] \in WindowState /\ window \in [Client -> WindowState] /\ WindowOK(w)
      /\ version \in Nat /\ None \notin Nat
      /\ UNCHANGED <<exists, version, messages, removed, request>>
  BY DiscussionAssumption
  DEF DiscussionInv, DiscussionTypeOK, LoadSession, LoadMessages, RequireDiscussion
<1>2. Page(messages) \in SUBSET Message /\ {} \in SUBSET Message
  BY PageIsPart DEF DiscussionInv, DiscussionTypeOK
<1>3. ASSUME NEW state \in WindowState, window' = [window EXCEPT ![w] = state],
             state.read # None => state.read <= version,
             state.pc # "idle" => state.read # None,
             state.version # None => state.version <= version,
             exists /\ state.version = version => state.page = Page(messages)
      PROVE  DiscussionInv'
  <2>1. Page(messages)' = Page(messages) /\ (\A i, role : KeptMessage(i, role)' <=> KeptMessage(i, role))
    BY <1>1 DEF Page, KeptMessage, Written
  <2>2. DiscussionTypeOK'
    BY <1>1, <1>3 DEF DiscussionInv, DiscussionTypeOK
  <2>3. StoreOK'
    BY <1>1, <2>1 DEF DiscussionInv, StoreOK
  <2>7. KnownIds'
    BY <1>1 DEF DiscussionInv, KnownIds
  <2>4. \A r \in Request : RequestOK(r)'
    BY <1>1, <2>1 DEF DiscussionInv, RequestOK
  <2>5. window'[w] = state /\ \A v \in Client \ {w} : window'[v] = window[v]
    BY <1>1, <1>3
  <2>6. \A v \in Client : WindowOK(v)'
    BY <1>1, <1>3, <2>1, <2>5 DEF DiscussionInv, WindowOK
  <2> QED  BY <2>2, <2>3, <2>4, <2>6, <2>7 DEF DiscussionInv
<1>4. CASE LoadSession(w)
  <2>1. CASE exists
    <3> DEFINE state == [window[w] EXCEPT !.pc = "loading", !.read = version]
    <3>1. /\ state \in WindowState /\ window' = [window EXCEPT ![w] = state]
          /\ state.pc = "loading" /\ state.read = version /\ state.version = window[w].version
          /\ state.page = window[w].page
      BY <1>1, <1>4, <2>1 DEF LoadSession, WindowState
    <3> HIDE DEF state
    <3>2. /\ state.read # None /\ state.read <= version
          /\ state.version # None => state.version <= version
          /\ exists /\ state.version = version => state.page = Page(messages)
      BY <1>1, <3>1 DEF WindowOK
    <3> QED  BY <1>3, <3>1, <3>2
  <2>2. CASE ~exists
    <3> DEFINE state == [window[w] EXCEPT !.version = None, !.page = {}]
    <3>1. /\ state \in WindowState /\ window' = [window EXCEPT ![w] = state]
          /\ state.pc = window[w].pc /\ state.read = window[w].read /\ state.version = None
      BY <1>1, <1>2, <1>4, <2>2 DEF LoadSession, WindowState
    <3> HIDE DEF state
    <3> QED  BY <1>1, <1>3, <2>2, <3>1 DEF WindowOK
  <2> QED  BY <2>1, <2>2
<1>5. CASE LoadMessages(w)
  <2> DEFINE state == [pc |-> "idle", read |-> None,
                       version |-> IF exists THEN window[w].read ELSE None,
                       page |-> IF exists THEN Page(messages) ELSE {}]
  <2>1. window' = [window EXCEPT ![w] = state]
    BY <1>5 DEF LoadMessages
  <2>2. window[w].read \in Nat \cup {None}
    BY <1>1 DEF WindowState
  <2>3. state \in WindowState
    BY <1>2, <2>2 DEF WindowState
  <2>4. /\ state.pc = "idle" /\ state.read = None
        /\ state.version = IF exists THEN window[w].read ELSE None
        /\ exists => state.page = Page(messages)
    OBVIOUS
  <2> HIDE DEF state
  <2> QED  BY <1>1, <1>3, <2>1, <2>3, <2>4 DEF WindowOK
<1>6. CASE RequireDiscussion(w)
  <2> DEFINE state == [window[w] EXCEPT !.pc = "deleting", !.read = version]
  <2>1. /\ state \in WindowState /\ window' = [window EXCEPT ![w] = state]
        /\ state.pc = "deleting" /\ state.read = version /\ state.version = window[w].version
        /\ state.page = window[w].page
    BY <1>1, <1>6 DEF RequireDiscussion, WindowState
  <2> HIDE DEF state
  <2>2. /\ state.read # None /\ state.read <= version
        /\ state.version # None => state.version <= version
        /\ exists /\ state.version = version => state.page = Page(messages)
    BY <1>1, <2>1 DEF WindowOK
  <2> QED  BY <1>3, <2>1, <2>2
<1> QED  BY <1>4, <1>5, <1>6

LEMMA DeleteSessionStep ==
    ASSUME DiscussionInv, NEW w \in Client, DeleteSession(w)
    PROVE  DiscussionInv'
<1> DEFINE state == [window[w] EXCEPT !.pc = "idle", !.read = None]
<1>1. /\ window[w] \in WindowState /\ window \in [Client -> WindowState] /\ WindowOK(w)
      /\ version \in Nat /\ None \notin Nat
      /\ UNCHANGED <<version, removed, request>>
  BY DiscussionAssumption DEF DiscussionInv, DiscussionTypeOK, DeleteSession
<1>2. /\ state \in WindowState /\ window' = [window EXCEPT ![w] = state]
      /\ state.pc = "idle" /\ state.read = None /\ state.version = window[w].version
      /\ state.page = window[w].page
  BY <1>1 DEF DeleteSession, WindowState
<1>3. window'[w] = state /\ \A v \in Client \ {w} : window'[v] = window[v]
  BY <1>1, <1>2
<1>4. \/ exists' = FALSE /\ messages' = {}
      \/ exists' = exists /\ messages' = messages
  BY DEF DeleteSession
<1> HIDE DEF state
<1>5. DiscussionTypeOK'
  BY <1>1, <1>2, <1>4 DEF DiscussionInv, DiscussionTypeOK
<1>6. \A i, role : KeptMessage(i, role)' => KeptMessage(i, role)
  BY <1>1, <1>4 DEF KeptMessage, Written
<1>7. exists' => /\ exists /\ messages' = messages /\ Page(messages)' = Page(messages)
                 /\ \A i, role : KeptMessage(i, role)' <=> KeptMessage(i, role)
  BY <1>1, <1>4 DEF Page, KeptMessage, Written
<1>8. StoreOK' /\ KnownIds'
  <2>1. StoreOK'
    <3>1. \A m \in messages' : m \in messages
      BY <1>4
    <3> QED  BY <1>1, <1>7, <3>1 DEF DiscussionInv, StoreOK
  <2>2. KnownIds'
    BY <1>1, <1>4 DEF DiscussionInv, KnownIds
  <2> QED  BY <2>1, <2>2
<1>9. \A v \in Client : WindowOK(v)'
  BY <1>1, <1>2, <1>3, <1>7 DEF DiscussionInv, WindowOK
<1>10. \A r \in Request : RequestOK(r)'
  BY <1>1, <1>6, <1>7 DEF DiscussionInv, RequestOK
<1> QED  BY <1>5, <1>8, <1>9, <1>10 DEF DiscussionInv

\* Whatever changes the messages moves the version on, so that what clients and
\* requests hold under their versions is no longer current.
LEMMA VersionRises ==
    ASSUME DiscussionInv, version' = version + 1, exists' = exists, window' = window
    PROVE  \A w \in Client : WindowOK(w)'
<1>1. version \in Nat /\ None \notin Nat
  BY DiscussionAssumption DEF DiscussionInv, DiscussionTypeOK
<1> SUFFICES ASSUME NEW w \in Client PROVE WindowOK(w)'
  OBVIOUS
<1>2. WindowOK(w) /\ window[w] \in WindowState
  BY DEF DiscussionInv, DiscussionTypeOK
<1>3. window[w].read \in Nat \cup {None} /\ window[w].version \in Nat \cup {None}
  BY <1>2 DEF WindowState
<1> QED  BY <1>1, <1>2, <1>3 DEF WindowOK

LEMMA EditorSteps ==
    ASSUME DiscussionInv, NEW w \in Client, NEW s \in Nat,
           UpdateSession(w) \/ UpdateMessage(w, s) \/ DeleteMessage(w, s)
    PROVE  DiscussionInv'
<1>1. /\ exists' = exists /\ version' = version + 1 /\ version \in Nat
      /\ UNCHANGED <<exists, window, request>>
  BY DEF UpdateSession, UpdateMessage, DeleteMessage, Checked, DiscussionInv, DiscussionTypeOK
<1>2. /\ messages \subseteq Message /\ removed \subseteq Request \X {"user", "assistant"}
  BY DEF DiscussionInv, DiscussionTypeOK
<1>3. /\ messages' \subseteq Message /\ removed' \subseteq Request \X {"user", "assistant"}
      /\ \A m \in messages' : \E k \in messages : k.seq = m.seq /\ k.by = m.by /\ k.role = m.role
      /\ \A x \in removed' : x \in removed \/ \E k \in messages : x = <<k.by, k.role>>
      /\ \A i, role : KeptMessage(i, role) <=> KeptMessage(i, role)'
  <2>1. CASE UpdateSession(w)
    BY <1>2, <2>1 DEF UpdateSession, KeptMessage, Written
  <2>2. CASE UpdateMessage(w, s)
    <3>1. PICK m \in messages : messages' = (messages \ {m}) \cup {[m EXCEPT !.text = version + 1]}
      BY <2>2 DEF UpdateMessage
    <3> DEFINE changed == [m EXCEPT !.text = version + 1]
    <3>2. /\ changed \in Message /\ changed.seq = m.seq /\ changed.by = m.by /\ changed.role = m.role
      BY <1>1, <1>2 DEF Message
    <3>3. messages' = (messages \ {m}) \cup {changed} /\ removed' = removed
      BY <2>2, <3>1 DEF UpdateMessage
    <3> HIDE DEF changed
    <3>4. \A i, role : Written(i, role) <=> Written(i, role)'
      BY <3>2, <3>3 DEF Written
    <3> QED  BY <1>2, <3>2, <3>3, <3>4 DEF KeptMessage
  <2>3. CASE DeleteMessage(w, s)
    <3>1. PICK m \in messages : messages' = messages \ {m} /\ removed' = removed \cup {<<m.by, m.role>>}
      BY <2>3 DEF DeleteMessage
    <3>2. <<m.by, m.role>> \in Request \X {"user", "assistant"}
      BY <1>2 DEF Message
    <3>3. \A i, role : KeptMessage(i, role) <=> KeptMessage(i, role)'
      BY <3>1 DEF KeptMessage, Written
    <3> QED  BY <1>2, <3>1, <3>2, <3>3
  <2> QED  BY <2>1, <2>2, <2>3
<1>4. DiscussionTypeOK'
  BY <1>1, <1>3 DEF DiscussionInv, DiscussionTypeOK
<1>5. StoreOK'
  <2>1. \A m \in messages' : m.seq <= version'
    BY <1>1, <1>2, <1>3 DEF DiscussionInv, StoreOK, Message
  <2>2. \A q, a \in messages' :
           q.by = a.by /\ q.role = "user" /\ a.role = "assistant" => q.seq < a.seq
    BY <1>3 DEF DiscussionInv, StoreOK
  <2> QED  BY <1>1, <1>3, <2>1, <2>2 DEF DiscussionInv, StoreOK
<1>6. KnownIds'
  <2>1. \A m \in messages' : \E q \in Request : request'[q].id = m.by
    BY <1>1, <1>3 DEF DiscussionInv, KnownIds
  <2>2. ASSUME NEW x \in removed' PROVE \E q \in Request : request'[q].id = x[1]
    <3>1. CASE x \in removed
      BY <1>1, <3>1 DEF DiscussionInv, KnownIds
    <3>2. CASE \E k \in messages : x = <<k.by, k.role>>
      BY <1>1, <3>2 DEF DiscussionInv, KnownIds
    <3> QED  BY <1>3, <3>1, <3>2
  <2> QED  BY <2>1, <2>2 DEF KnownIds
<1>7. \A r \in Request : RequestOK(r)'
  <2> SUFFICES ASSUME NEW r \in Request PROVE RequestOK(r)'
    OBVIOUS
  <2>1. RequestOK(r) /\ request[r].expected \in Nat
    BY DEF DiscussionInv, DiscussionTypeOK, RequestState
  <2> QED  BY <1>1, <1>3, <2>1 DEF RequestOK
<1> QED  BY <1>1, <1>4, <1>5, <1>6, <1>7, VersionRises DEF DiscussionInv

\* append_message, for a question under the version its request names or for
\* an answer under the version read before the model was asked.
LEMMA AppendStep ==
    ASSUME DiscussionInv, NEW r \in Request,
           NEW CONSTANT id, NEW CONSTANT role, NEW CONSTANT expected, NEW CONSTANT next,
           id = request[r].id, AppendMessage(r, role, expected, next),
           \/ /\ request[r].pc = "append" /\ role = "user" /\ next = "read"
              /\ expected = request[r].expected
           \/ request[r].pc = "asked" /\ role = "assistant" /\ next = "reply"
    PROVE  DiscussionInv'
<1>1. request[r].pc \in {"append", "asked"} /\ AppendMessage(r, role, expected, next)
  OBVIOUS
<1>2. /\ request[r] \in RequestState /\ request \in [Request -> RequestState] /\ RequestOK(r)
      /\ version \in Nat /\ id \in Request /\ messages \subseteq Message
      /\ request[r].expected \in Nat /\ request[r].expected <= version
      /\ exists' = exists /\ removed' = removed /\ window' = window
  BY <1>1 DEF DiscussionInv, DiscussionTypeOK, RequestOK, RequestState, AppendMessage
<1>3. exists /\ role = "assistant" => KeptMessage(id, "user")
  BY <1>1, <1>2 DEF RequestOK
<1>4. role = "user" /\ version = expected => ~KeptMessage(id, "user")
  BY <1>1, <1>2 DEF RequestOK
<1>5. CASE ~exists \/ (~Written(id, role) /\ version # expected)
  <2>1. request' = HandlerEnds(r, "failed") /\ UNCHANGED <<messages, version>>
    BY <1>1, <1>5 DEF AppendMessage
  <2> DEFINE state == [request[r] EXCEPT !.pc = "failed", !.prior = {}, !.updated = 0]
  <2>2. /\ state \in RequestState /\ request' = [request EXCEPT ![r] = state]
        /\ state.pc = "failed" /\ state.id = request[r].id /\ state.expected = request[r].expected
    BY <2>1, EndedState
  <2>3. KeptMessage(request[r].id, "user") => request[r].expected < version
    BY <1>2 DEF RequestOK
  <2> HIDE DEF state
  <2> QED  BY <1>2, <2>1, <2>2, <2>3, RequestSteps
<1>6. CASE exists /\ Written(id, role)
  <2>1. request' = [request EXCEPT ![r].pc = next, ![r].prior = {}] /\ UNCHANGED <<messages, version>>
    BY <1>1, <1>6 DEF AppendMessage
  <2> DEFINE state == [request[r] EXCEPT !.pc = next, !.prior = {}]
  <2>2. /\ state \in RequestState /\ request' = [request EXCEPT ![r] = state]
        /\ state.pc = next /\ state.id = request[r].id /\ state.expected = request[r].expected
    BY <1>2, <2>1 DEF RequestState
  <2>3. KeptMessage(request[r].id, "user") => request[r].expected < version
    BY <1>2 DEF RequestOK
  <2>4. KeptMessage(id, "user") /\ (next = "reply" => KeptMessage(id, "assistant"))
    BY <1>3, <1>6 DEF KeptMessage
  <2>5. next \in {"read", "reply"}
    OBVIOUS
  <2> HIDE DEF state
  <2> QED  BY <1>2, <2>1, <2>2, <2>3, <2>4, <2>5, RequestSteps, ZenonT(30)
<1>7. CASE exists /\ ~Written(id, role) /\ version = expected
  <2> DEFINE m == [seq |-> NextSequence, by |-> id, role |-> role, text |-> version + 1]
  <2>1. /\ request' = [request EXCEPT ![r].pc = next, ![r].prior = {}]
        /\ messages' = messages \cup {m} /\ version' = version + 1
    BY <1>1, <1>7 DEF AppendMessage
  <2>2. role \in {"user", "assistant"} /\ next \in {"read", "reply"}
    OBVIOUS
  <2>3. NextSequence \in Nat /\ NextSequence <= version + 1 /\ \A k \in messages : k.seq < NextSequence
    BY NextSequenceIsAbove DEF DiscussionInv
  <2>4. m \in Message /\ m.seq = NextSequence /\ m.by = id /\ m.role = role
    BY <1>2, <2>2, <2>3 DEF Message
  <2> HIDE DEF m
  <2>5. DiscussionTypeOK'
    <3>1. [request EXCEPT ![r].pc = next, ![r].prior = {}] \in [Request -> RequestState]
      <4> QED  BY <1>2, <2>2 DEF RequestState
    <3> QED  BY <1>2, <2>1, <2>4, <3>1 DEF DiscussionInv, DiscussionTypeOK
  <2>6. /\ \A i, k : KeptMessage(i, k) => KeptMessage(i, k)'
        /\ KeptMessage(id, role)'
        /\ \A i, k : KeptMessage(i, k)' => KeptMessage(i, k) \/ (i = id /\ k = role)
    BY <1>2, <2>1, <2>4 DEF KeptMessage, Written
  <2>7. StoreOK'
    <3>1. \A k \in messages' : k.seq <= version'
      <4>1. \A k \in messages : k.seq \in Nat /\ k.seq <= version
        BY <1>2 DEF DiscussionInv, StoreOK, Message
      <4> QED  BY <1>2, <2>1, <2>3, <2>4, <4>1
    <3>2. ASSUME NEW q \in messages', NEW a \in messages', q.by = a.by,
                 q.role = "user", a.role = "assistant"
          PROVE  q.seq < a.seq
      <4>1. CASE q \in messages /\ a \in messages
        BY <3>2, <4>1 DEF DiscussionInv, StoreOK
      <4>2. CASE q \in messages /\ a = m
        BY <2>3, <2>4, <4>2
      <4>3. CASE q = m /\ a \in messages
        <5>1. Written(id, "assistant") /\ role = "user"
          BY <2>4, <3>2, <4>3 DEF Written
        <5>2. KeptMessage(id, "user")
          BY <1>2, <1>7, <5>1 DEF DiscussionInv, StoreOK, KeptMessage
        <5> QED  BY <1>4, <1>7, <5>1, <5>2
      <4>4. CASE q = m /\ a = m
        BY <3>2, <4>4
      <4> QED  BY <2>1, <4>1, <4>2, <4>3, <4>4
    <3>3. \A i \in Request : KeptMessage(i, "assistant")' => KeptMessage(i, "user")'
      BY <1>3, <1>7, <2>6 DEF DiscussionInv, StoreOK
    <3> QED  BY <3>1, <3>2, <3>3 DEF StoreOK
  <2>8. request'[r].id = id /\ \A q \in Request : request'[q].id = request[q].id
    BY <1>2, <2>1 DEF RequestState
  <2>9. KnownIds'
    <3>1. \A k \in messages' : \E q \in Request : request'[q].id = k.by
      BY <2>1, <2>4, <2>8 DEF DiscussionInv, KnownIds
    <3>2. \A x \in removed' : \E q \in Request : request'[q].id = x[1]
      BY <1>2, <2>8 DEF DiscussionInv, KnownIds
    <3> QED  BY <3>1, <3>2 DEF KnownIds
  <2>10. \A w \in Client : WindowOK(w)'
    BY <1>2, <2>1, VersionRises
  <2>11. RequestOK(r)'
    <3>1. /\ request'[r].pc = next /\ request'[r].id = id
          /\ request'[r].expected = request[r].expected
      BY <1>2, <2>1 DEF RequestState
    <3>2. KeptMessage(id, "user")' /\ (next = "reply" => KeptMessage(id, "assistant")')
      BY <1>3, <1>7, <2>6
    <3>3. next # "append" /\ next # "unsent"
      OBVIOUS
    <3> QED  BY <1>2, <2>1, <3>1, <3>2, <3>3 DEF RequestOK
  <2>12. ASSUME NEW q \in Request \ {r} PROVE RequestOK(q)'
    <3>1. request'[q] = request[q] /\ RequestOK(q) /\ request[q].expected \in Nat
      BY <2>1 DEF DiscussionInv, DiscussionTypeOK, RequestState
    <3> QED  BY <1>2, <1>7, <2>1, <2>6, <3>1 DEF RequestOK
  <2> QED  BY <2>5, <2>7, <2>9, <2>10, <2>11, <2>12 DEF DiscussionInv
<1> QED  BY <1>5, <1>6, <1>7

LEMMA AppendSteps ==
    ASSUME DiscussionInv, NEW r \in Request, AppendQuestion(r) \/ AppendAnswer(r)
    PROVE  DiscussionInv'
  BY AppendStep DEF AppendQuestion, AppendAnswer

\* The invariant holds at first and is kept by every step.
LEMMA DiscussionInvHolds == DiscussionSpec => []DiscussionInv
<1>1. DiscussionInit => DiscussionInv
  <2> SUFFICES ASSUME DiscussionInit PROVE DiscussionInv
    OBVIOUS
  <2>1. DiscussionTypeOK
    BY DEF DiscussionInit, DiscussionTypeOK, WindowState, RequestState
  <2>2. StoreOK /\ KnownIds
    BY DEF DiscussionInit, StoreOK, KnownIds, KeptMessage, Written
  <2>3. \A w \in Client : WindowOK(w)
    BY DiscussionAssumption DEF DiscussionInit, WindowOK
  <2>4. \A r \in Request : RequestOK(r)
    BY DEF DiscussionInit, RequestOK, KeptMessage, Written
  <2> QED  BY <2>1, <2>2, <2>3, <2>4 DEF DiscussionInv
<1>2. DiscussionInv /\ [DiscussionNext]_dvars => DiscussionInv'
  <2>1. ASSUME DiscussionInv, DiscussionNext PROVE DiscussionInv'
    <3>1. CASE \E w \in Client : LoadSession(w) \/ LoadMessages(w)
      BY <2>1, <3>1, WindowReads
    <3>2. CASE \/ \E w \in Editor : UpdateSession(w)
               \/ \E w \in Editor, s \in Sequences : UpdateMessage(w, s) \/ DeleteMessage(w, s)
      <4>1. Sequences \subseteq Nat
        BY DEF Sequences
      <4>2. Editor \subseteq Client /\ 0 \in Nat
        BY DEF Client
      <4>3. CASE \E w \in Editor : UpdateSession(w)
        BY <2>1, <4>2, <4>3, EditorSteps
      <4>4. CASE \E w \in Editor, s \in Sequences : UpdateMessage(w, s) \/ DeleteMessage(w, s)
        BY <2>1, <4>1, <4>2, <4>4, EditorSteps
      <4> QED  BY <3>2, <4>3, <4>4
    <3>3. CASE \E w \in Window : RequireDiscussion(w) \/ DeleteSession(w)
      BY <2>1, <3>3, WindowReads, DeleteSessionStep DEF Client
    <3>4. CASE \/ \E w \in Window, r \in Request : SendQuestion(w, r)
               \/ \E r, q \in Request : SendAgain(r, q)
      BY <2>1, <3>4, SendSteps
    <3>5. CASE \E r \in Request : Serve(r) \/ HandlerFails(r)
      BY <2>1, <3>5, HandlerReads, AppendSteps DEF Serve
    <3> QED  BY <2>1, <3>1, <3>2, <3>3, <3>4, <3>5 DEF DiscussionNext
  <2>2. ASSUME DiscussionInv, UNCHANGED dvars PROVE DiscussionInv'
    <3>1. UNCHANGED <<exists, version, messages, removed, window, request>>
      BY <2>2 DEF dvars
    <3>2. Page(messages)' = Page(messages) /\ (\A i, k : KeptMessage(i, k)' <=> KeptMessage(i, k))
      BY <3>1 DEF Page, KeptMessage, Written
    <3>3. DiscussionTypeOK' /\ KnownIds'
      BY <2>2, <3>1 DEF DiscussionInv, DiscussionTypeOK, KnownIds
    <3>4. StoreOK'
      BY <2>2, <3>1, <3>2 DEF DiscussionInv, StoreOK
    <3>5. (\A w \in Client : WindowOK(w)') /\ (\A r \in Request : RequestOK(r)')
      BY <2>2, <3>1, <3>2 DEF DiscussionInv, WindowOK, RequestOK
    <3> QED  BY <3>3, <3>4, <3>5 DEF DiscussionInv
  <2> QED  BY <2>1, <2>2
<1> QED  BY <1>1, <1>2, PTL DEF DiscussionSpec

\* A message that was answered is in the discussion with its answer after it,
\* for any windows, retries and other clients (send_trace_discussion_message).
THEOREM AnsweredIsInDiscussionHolds == DiscussionSpec => []AnsweredIsInDiscussion
<1>1. DiscussionInv => AnsweredIsInDiscussion
  BY DEF DiscussionInv, RequestOK, StoreOK, AnsweredIsInDiscussion
<1> QED  BY <1>1, DiscussionInvHolds, PTL

\* A client that shows the version of the session shows its messages
\* (discussion_detail, _check_version).
THEOREM SameVersionSameMessagesHolds == DiscussionSpec => []SameVersionSameMessages
<1>1. DiscussionInv => SameVersionSameMessages
  BY DEF DiscussionInv, WindowOK, SameVersionSameMessages
<1> QED  BY <1>1, DiscussionInvHolds, PTL

\* A question is accepted only under the history its handler read before.
THEOREM AskedOnCurrentMessagesHolds == DiscussionSpec => AskedOnCurrentMessages
<1>1. DiscussionInv /\ [DiscussionNext]_dvars =>
         [\A r \in Request :
             request[r].pc = "append" /\ request'[r].pc = "read" /\ version' # version
                => request[r].prior = Page(messages)]_dvars
  <2> SUFFICES ASSUME DiscussionInv, DiscussionNext, NEW r \in Request,
                      request[r].pc = "append", request'[r].pc = "read", version' # version
               PROVE  request[r].prior = Page(messages)
    BY DEF dvars
  <2>1. request \in [Request -> RequestState]
    BY DEF DiscussionInv, DiscussionTypeOK
  <2>2. \E q \in Request : AppendQuestion(q) \/ AppendAnswer(q)
    BY DEF DiscussionNext, Serve, LoadSession, LoadMessages, UpdateSession, UpdateMessage,
           DeleteMessage, Checked, RequireDiscussion, DeleteSession, SendQuestion, SendAgain,
           ReadPrior, ReadSession, ReplyTo, HandlerFails
  <2>3. AppendQuestion(r)
    BY <2>1, <2>2 DEF AppendQuestion, AppendAnswer, AppendMessage, HandlerEnds
  <2>4. exists /\ version = request[r].expected
    BY <2>3 DEF AppendQuestion, AppendMessage
  <2> QED  BY <2>4 DEF DiscussionInv, RequestOK
<1> QED  BY <1>1, DiscussionInvHolds, PTL DEF DiscussionSpec, AskedOnCurrentMessages

-----------------------------------------------------------------------------
(* The branch and case files: any threads, traces, records and kills.      *)

BranchRow == [id : Nat, trace : TraceId, manual : BOOLEAN]
JsonlFile == [rows : SUBSET BranchRow, torn : BOOLEAN, open : SUBSET Nat]
PerFile == [branches : SUBSET Nat, cases : SUBSET Nat]
HandlerState ==
    [pc : {"idle", "rerunning", "patching"}, trace : TraceId \cup {"none"}, id : Nat,
     rows : SUBSET BranchRow]

\* Ids are given out from 1 on, without a gap.
BranchTypeOK ==
    /\ handler \in [Handler -> HandlerState]
    /\ \A h \in Handler : handler[h].pc = "rerunning" => handler[h].trace \in TraceId
    /\ branches \in JsonlFile /\ cases \in JsonlFile
    /\ branches.open \subseteq appended.branches /\ cases.open \subseteq appended.cases
    /\ appended \in PerFile /\ deleted \in PerFile /\ garbled \in PerFile
    /\ evaluated \in SUBSET Nat /\ overlapped \in BOOLEAN /\ killed \in Nat
    /\ \A file \in {"branches", "cases"} : \E n \in Nat : appended[file] = 1..n

\* Nothing is deleted, garbled or evaluated that was not appended.
HistoryOK ==
    /\ deleted.branches \subseteq appended.branches /\ garbled.branches \subseteq appended.branches
    /\ deleted.cases \subseteq appended.cases /\ garbled.cases \subseteq appended.cases
    /\ evaluated \subseteq appended.branches

\* What a PATCH holds in memory is the file as it is, but for its evaluation.
PatchOK ==
    \A h \in Handler : handler[h].pc = "patching" =>
        \E row \in branches.rows :
            handler[h].id = row.id /\ handler[h].rows = Evaluated(branches.rows, row)

BranchInv == BranchTypeOK /\ (~overlapped => HistoryOK /\ PatchOK /\ StoresAreExact)

RowIds(rows) == {row.id : row \in rows}
ManualIds(rows) == {row.id : row \in {r \in rows : r.manual}}

LEMMA IdsOfRows ==
    ASSUME NEW file
    PROVE  Ids(file) = RowIds(file.rows) /\ Manual(file) = ManualIds(file.rows)
BY DEF Ids, RowIds, Manual, ManualIds

LEMMA RowIsMade ==
    ASSUME NEW id \in Nat, NEW t \in TraceId
    PROVE  Row(id, t) \in BranchRow /\ Row(id, t).id = id /\ ~Row(id, t).manual
BY DEF Row, BranchRow

LEMMA RowAdded ==
    ASSUME NEW rows \in SUBSET BranchRow, NEW row \in BranchRow, ~row.manual
    PROVE  /\ RowIds(rows \cup {row}) = RowIds(rows) \cup {row.id}
           /\ ManualIds(rows \cup {row}) = ManualIds(rows)
BY DEF RowIds, ManualIds

LEMMA RowsWithout ==
    ASSUME NEW rows \in SUBSET BranchRow, NEW id
    PROVE  /\ Without(rows, id) \in SUBSET BranchRow
           /\ RowIds(Without(rows, id)) = RowIds(rows) \ {id}
           /\ ManualIds(Without(rows, id)) = ManualIds(rows) \ {id}
BY DEF Without, RowIds, ManualIds

LEMMA RowsEnded ==
    ASSUME NEW file \in JsonlFile
    PROVE  /\ Ended(file) \in SUBSET BranchRow
           /\ RowIds(Ended(file)) = RowIds(file.rows) \ file.open
           /\ ManualIds(Ended(file)) = ManualIds(file.rows) \ file.open
BY DEF JsonlFile, Ended, RowIds, ManualIds

\* An evaluation changes no id, and adds its own to those evaluated.
LEMMA RowEvaluated ==
    ASSUME NEW rows \in SUBSET BranchRow, NEW row \in rows
    PROVE  /\ Evaluated(rows, row) \in SUBSET BranchRow
           /\ RowIds(Evaluated(rows, row)) = RowIds(rows)
           /\ ManualIds(Evaluated(rows, row)) = ManualIds(rows) \cup {row.id}
<1> DEFINE new == [row EXCEPT !.manual = TRUE]
<1>1. new \in BranchRow /\ new.id = row.id /\ new.manual
  BY DEF BranchRow
<1>2. Evaluated(rows, row) = (rows \ {row}) \cup {new}
  BY DEF Evaluated
<1> HIDE DEF new
<1>3. RowIds(Evaluated(rows, row)) = RowIds(rows)
  BY <1>1, <1>2 DEF RowIds
<1>4. ManualIds(Evaluated(rows, row)) = ManualIds(rows) \cup {row.id}
  BY <1>1, <1>2 DEF ManualIds
<1> QED BY <1>1, <1>2, <1>3, <1>4

LEMMA FreshId ==
    ASSUME BranchTypeOK, NEW file \in {"branches", "cases"}
    PROVE  /\ NextId(file) \in Nat /\ NextId(file) \notin appended[file]
           /\ \E n \in Nat : appended[file] \cup {NextId(file)} = 1..n
<1>1. PICK n \in Nat : appended[file] = 1..n
  BY DEF BranchTypeOK
<1>2. Cardinality(1..n) = n
  BY FS_Interval
<1>3. NextId(file) = n + 1
  BY <1>1, <1>2 DEF NextId
<1>4. 1..n \cup {n + 1} = 1..(n + 1)
  OBVIOUS
<1> QED BY <1>1, <1>3, <1>4

\* A change of one field of a history.
LEMMA HistoryGrows ==
    ASSUME NEW history \in PerFile, NEW ids \in SUBSET Nat
    PROVE  /\ [history EXCEPT !.branches = @ \cup ids] \in PerFile
           /\ [history EXCEPT !.cases = @ \cup ids] \in PerFile
           /\ [history EXCEPT !.branches = @ \cup ids].branches = history.branches \cup ids
           /\ [history EXCEPT !.branches = @ \cup ids].cases = history.cases
           /\ [history EXCEPT !.cases = @ \cup ids].cases = history.cases \cup ids
           /\ [history EXCEPT !.cases = @ \cup ids].branches = history.branches
BY DEF PerFile

LEMMA FileMade ==
    ASSUME NEW rows \in SUBSET BranchRow
    PROVE  /\ Rewritten(rows) \in JsonlFile /\ Rewritten(rows).rows = rows
           /\ Rewritten(rows).open = {}
BY DEF Rewritten, JsonlFile

LEMMA LostIds ==
    ASSUME NEW file \in JsonlFile, NEW id \in Nat, NEW text
    PROVE  Lost(file, id, text) \in SUBSET Nat
BY DEF Lost, JsonlFile

\* A record appended makes readable what it does not lose.
LEMMA RowAppended ==
    ASSUME NEW file \in JsonlFile, NEW row \in BranchRow, NEW text, ~row.manual
    PROVE  /\ AppendRow(file, row, text) \in JsonlFile /\ AppendRow(file, row, text).open = {}
           /\ Ids(AppendRow(file, row, text)) =
                 IF Readable(file, text) THEN Ids(file) \cup {row.id} ELSE Ids(file) \ file.open
           /\ Manual(AppendRow(file, row, text)) = Manual(file) \ file.open
<1>1. /\ file.rows \in SUBSET BranchRow
      /\ Readable(file, text) => file.open = {}
  BY DEF JsonlFile, Readable
<1>2. AppendRow(file, row, text).rows =
         IF Readable(file, text) THEN file.rows \cup {row} ELSE Ended(file)
  BY DEF AppendRow
<1>3. AppendRow(file, row, text) \in JsonlFile /\ AppendRow(file, row, text).open = {}
  BY <1>1, RowsEnded DEF AppendRow, JsonlFile
<1>4. CASE Readable(file, text)
  <2>1. AppendRow(file, row, text).rows = file.rows \cup {row} /\ file.open = {}
    BY <1>1, <1>2, <1>4
  <2>2. /\ Ids(AppendRow(file, row, text)) = RowIds(file.rows) \cup {row.id}
        /\ Manual(AppendRow(file, row, text)) = ManualIds(file.rows)
    BY <1>1, <2>1, RowAdded, IdsOfRows
  <2> QED BY <1>3, <1>4, <2>1, <2>2, IdsOfRows
<1>5. CASE ~Readable(file, text)
  BY <1>2, <1>3, <1>5, RowsEnded, IdsOfRows
<1> QED BY <1>4, <1>5

LEMMA RowUnended ==
    ASSUME NEW file \in JsonlFile, NEW row \in BranchRow, ~row.manual
    PROVE  /\ Unended(file, row) \in JsonlFile /\ Unended(file, row).open = {row.id}
           /\ Ids(Unended(file, row)) = Ids(file) \cup {row.id}
           /\ Manual(Unended(file, row)) = Manual(file)
<1>1. file.rows \in SUBSET BranchRow /\ row.id \in Nat
  BY DEF JsonlFile, BranchRow
<1>2. /\ Unended(file, row) \in JsonlFile /\ Unended(file, row).open = {row.id}
      /\ Unended(file, row).rows = file.rows \cup {row}
  BY <1>1 DEF Unended, JsonlFile
<1> QED BY <1>1, <1>2, RowAdded, IdsOfRows

LEMMA LineCutShort ==
    ASSUME NEW file \in JsonlFile
    PROVE  /\ CutShort(file) \in JsonlFile /\ CutShort(file).open = {}
           /\ Ids(CutShort(file)) = Ids(file) \ file.open
           /\ Manual(CutShort(file)) = Manual(file) \ file.open
<1>1. /\ CutShort(file) \in JsonlFile /\ CutShort(file).open = {}
      /\ CutShort(file).rows = Ended(file)
  BY RowsEnded DEF CutShort, JsonlFile
<1> QED BY <1>1, RowsEnded, IdsOfRows

\* The thread that is served by an action takes its next state.
LEMMA ThreadMoves ==
    ASSUME BranchTypeOK, NEW h \in Handler, NEW state \in HandlerState, Becomes(h, state)
    PROVE  /\ handler' \in [Handler -> HandlerState] /\ handler'[h] = state
           /\ \A g \in Handler \ {h} : handler'[g] = handler[g]
BY DEF BranchTypeOK, Becomes

LEMMA RestingIsState == Resting \in HandlerState /\ Resting.pc = "idle"
BY DEF Resting, HandlerState

LEMMA StartRerunStep ==
    ASSUME BranchInv, NEW h \in Handler, StartRerun(h)
    PROVE  BranchInv'
<1>1. PICK t \in TraceId : Becomes(h, [Resting EXCEPT !.pc = "rerunning", !.trace = t])
  BY DEF StartRerun
<1> DEFINE state == [Resting EXCEPT !.pc = "rerunning", !.trace = t]
<1>2. state \in HandlerState /\ state.pc = "rerunning" /\ state.trace \in TraceId
  BY DEF Resting, HandlerState
<1> HIDE DEF state
<1>3. /\ handler' \in [Handler -> HandlerState] /\ handler'[h] = state
      /\ \A g \in Handler \ {h} : handler'[g] = handler[g]
  BY <1>1, <1>2, ThreadMoves DEF BranchInv, state
<1>4. UNCHANGED <<branches, cases, appended, deleted, evaluated, garbled, overlapped, killed>>
  BY DEF StartRerun
<1>5. BranchTypeOK'
  BY <1>2, <1>3, <1>4 DEF BranchInv, BranchTypeOK
<1>6. ~overlapped => PatchOK'
  BY <1>2, <1>3, <1>4 DEF BranchInv, PatchOK
<1>7. ~overlapped => HistoryOK' /\ StoresAreExact'
  BY <1>4 DEF BranchInv, HistoryOK, StoresAreExact, Ids, Manual
<1> QED BY <1>4, <1>5, <1>6, <1>7 DEF BranchInv

LEMMA RerunFailsStep ==
    ASSUME BranchInv, NEW h \in Handler, RerunFails(h)
    PROVE  BranchInv'
<1>3. /\ handler' \in [Handler -> HandlerState] /\ handler'[h] = Resting
      /\ \A g \in Handler \ {h} : handler'[g] = handler[g]
  BY RestingIsState, ThreadMoves DEF BranchInv, RerunFails
<1>4. UNCHANGED <<branches, cases, appended, deleted, evaluated, garbled, overlapped, killed>>
  BY DEF RerunFails
<1>5. BranchTypeOK'
  BY RestingIsState, <1>3, <1>4 DEF BranchInv, BranchTypeOK
<1>6. ~overlapped => PatchOK'
  BY RestingIsState, <1>3, <1>4 DEF BranchInv, PatchOK
<1>7. ~overlapped => HistoryOK' /\ StoresAreExact'
  BY <1>4 DEF BranchInv, HistoryOK, StoresAreExact, Ids, Manual
<1> QED BY <1>4, <1>5, <1>6, <1>7 DEF BranchInv

LEMMA ReadToPatchStep ==
    ASSUME BranchInv, NEW h \in Handler, ReadToPatch(h)
    PROVE  BranchInv'
<1>1. PICK row \in branches.rows :
         Becomes(h, [pc |-> "patching", trace |-> row.trace, id |-> row.id,
                     rows |-> Evaluated(branches.rows, row)])
  BY DEF ReadToPatch
<1> DEFINE state == [pc |-> "patching", trace |-> row.trace, id |-> row.id,
                     rows |-> Evaluated(branches.rows, row)]
<1>2. branches.rows \in SUBSET BranchRow
  BY DEF BranchInv, BranchTypeOK, JsonlFile
<1>3. Evaluated(branches.rows, row) \in SUBSET BranchRow
  BY <1>2, RowEvaluated
<1>4. state \in HandlerState /\ state.pc = "patching" /\ state.id = row.id
      /\ state.rows = Evaluated(branches.rows, row)
  BY <1>2, <1>3 DEF HandlerState, BranchRow
<1> HIDE DEF state
<1>5. /\ handler' \in [Handler -> HandlerState] /\ handler'[h] = state
      /\ \A g \in Handler \ {h} : handler'[g] = handler[g]
  BY <1>1, <1>4, ThreadMoves DEF BranchInv, state
<1>6. UNCHANGED <<branches, cases, appended, deleted, evaluated, garbled, overlapped, killed>>
  BY DEF ReadToPatch
<1>7. BranchTypeOK'
  BY <1>4, <1>5, <1>6 DEF BranchInv, BranchTypeOK
<1>8. ~overlapped => PatchOK'
  BY <1>4, <1>5, <1>6 DEF BranchInv, PatchOK
<1>9. ~overlapped => HistoryOK' /\ StoresAreExact'
  BY <1>6 DEF BranchInv, HistoryOK, StoresAreExact, Ids, Manual
<1> QED BY <1>6, <1>7, <1>8, <1>9 DEF BranchInv

\* After a change of the branches that overlapped no PATCH, none is under way.
LEMMA NoPatch ==
    ASSUME BranchTypeOK, NEW h \in Handler, ~UnderPatch(h), handler'[h].pc # "patching",
           \A g \in Handler \ {h} : handler'[g] = handler[g]
    PROVE  PatchOK'
BY DEF UnderPatch, PatchOK
LEMMA AppendBranchStep ==
    ASSUME BranchInv, NEW h \in Handler, AppendBranch(h)
    PROVE  BranchInv'
<1> DEFINE id == NextId("branches")
           row == Row(id, handler[h].trace)
<1>1. PICK text \in Texts :
         /\ branches' = AppendRow(branches, row, text)
         /\ appended' = [appended EXCEPT !.branches = @ \cup {id}]
         /\ garbled' = [garbled EXCEPT !.branches = @ \cup Lost(branches, id, text)]
  BY DEF AppendBranch
<1>2. /\ id \in Nat /\ id \notin appended.branches
      /\ \E n \in Nat : appended.branches \cup {id} = 1..n
  BY FreshId DEF BranchInv
<1>3. row \in BranchRow /\ row.id = id /\ ~row.manual
  BY <1>2, RowIsMade DEF AppendBranch, BranchInv, BranchTypeOK
<1>4. /\ UNCHANGED <<cases, deleted, evaluated, killed>>
      /\ overlapped' = (overlapped \/ UnderPatch(h))
      /\ Becomes(h, Resting)
  BY DEF AppendBranch
<1> HIDE DEF id, row
<1>5. /\ handler' \in [Handler -> HandlerState] /\ handler'[h] = Resting
      /\ \A g \in Handler \ {h} : handler'[g] = handler[g]
  BY <1>4, RestingIsState, ThreadMoves DEF BranchInv
<1>6. /\ branches' \in JsonlFile /\ branches'.open = {}
      /\ Ids(branches') = IF Readable(branches, text) THEN Ids(branches) \cup {id}
                          ELSE Ids(branches) \ branches.open
      /\ Manual(branches') = Manual(branches) \ branches.open
  BY <1>1, <1>3, RowAppended DEF BranchInv, BranchTypeOK
<1>7. /\ appended' \in PerFile /\ garbled' \in PerFile
      /\ appended'.branches = appended.branches \cup {id} /\ appended'.cases = appended.cases
      /\ garbled'.cases = garbled.cases
      /\ garbled'.branches = garbled.branches \cup Lost(branches, id, text)
      /\ branches.open \subseteq appended.branches
  <2>1. /\ appended \in PerFile /\ garbled \in PerFile /\ branches \in JsonlFile
        /\ branches.open \subseteq appended.branches
    BY DEF BranchInv, BranchTypeOK
  <2>2. {id} \in SUBSET Nat /\ Lost(branches, id, text) \in SUBSET Nat
    BY <1>2, <2>1, LostIds
  <2>3. /\ appended' \in PerFile
        /\ appended'.branches = appended.branches \cup {id} /\ appended'.cases = appended.cases
    BY <1>1, <2>1, <2>2, HistoryGrows
  <2>4. /\ garbled' \in PerFile /\ garbled'.cases = garbled.cases
        /\ garbled'.branches = garbled.branches \cup Lost(branches, id, text)
    BY <1>1, <2>1, <2>2, HistoryGrows
  <2> QED BY <2>1, <2>3, <2>4
<1>8. BranchTypeOK'
  BY <1>2, <1>4, <1>5, <1>6, <1>7, RestingIsState DEF BranchInv, BranchTypeOK
<1>9. ~overlapped' => PatchOK'
  BY <1>4, <1>5, RestingIsState, NoPatch DEF BranchInv
<1>10. ~overlapped' => HistoryOK'
  BY <1>4, <1>7 DEF BranchInv, HistoryOK, Lost
<1>11. ~overlapped' => StoresAreExact'
  <2>1. Ids(cases)' = Ids(cases)
    BY <1>4
  <2> SUFFICES ASSUME ~overlapped' PROVE StoresAreExact'
    OBVIOUS
  <2>2. HistoryOK /\ StoresAreExact /\ ~overlapped
    BY <1>4 DEF BranchInv
  <2>3. Ids(branches') = appended'.branches \ (deleted'.branches \cup garbled'.branches)
    BY <1>2, <1>4, <1>6, <1>7, <2>2 DEF HistoryOK, StoresAreExact, Lost, Readable
  <2>4. Manual(branches') = evaluated' \ (deleted'.branches \cup garbled'.branches)
    BY <1>2, <1>4, <1>6, <1>7, <2>2 DEF HistoryOK, StoresAreExact, Lost, Readable
  <2>5. Ids(cases') = appended'.cases \ (deleted'.cases \cup garbled'.cases)
    BY <1>4, <1>7, <2>1, <2>2 DEF StoresAreExact
  <2> QED BY <2>3, <2>4, <2>5 DEF StoresAreExact
<1> QED BY <1>8, <1>9, <1>10, <1>11 DEF BranchInv

LEMMA WritePatchedStep ==
    ASSUME BranchInv, NEW h \in Handler, WritePatched(h)
    PROVE  BranchInv'
<1> DEFINE id == handler[h].id
           rows == handler[h].rows
<1>1. id \in Nat /\ rows \in SUBSET BranchRow /\ Without(rows, id) \in SUBSET BranchRow
  BY RowsWithout DEF BranchInv, BranchTypeOK, HandlerState
<1>2. PICK text \in Texts :
         \/ text = "plain" /\ branches' = Rewritten(rows) /\ garbled' = garbled
         \/ /\ branches' = Rewritten(Without(rows, id))
            /\ garbled' = [garbled EXCEPT !.branches = @ \cup {id}]
  BY DEF WritePatched
<1>3. /\ UNCHANGED <<cases, appended, deleted, killed>>
      /\ evaluated' = evaluated \cup {id}
      /\ overlapped' = (overlapped \/ UnderPatch(h))
      /\ Becomes(h, Resting)
      /\ handler[h].pc = "patching"
  BY DEF WritePatched
<1>4. ~overlapped =>
         /\ RowIds(rows) = Ids(branches) /\ ManualIds(rows) = Manual(branches) \cup {id}
         /\ id \in Ids(branches)
  <2> SUFFICES ASSUME ~overlapped PROVE RowIds(rows) = Ids(branches)
                  /\ ManualIds(rows) = Manual(branches) \cup {id} /\ id \in Ids(branches)
    OBVIOUS
  <2>1. PICK row \in branches.rows : id = row.id /\ rows = Evaluated(branches.rows, row)
    BY <1>3 DEF BranchInv, PatchOK
  <2>2. branches.rows \in SUBSET BranchRow
    BY DEF BranchInv, BranchTypeOK, JsonlFile
  <2> HIDE DEF id, rows
  <2> QED BY <2>1, <2>2, RowEvaluated, IdsOfRows DEF Ids
<1> HIDE DEF id, rows
<1>5. /\ handler' \in [Handler -> HandlerState] /\ handler'[h] = Resting
      /\ \A g \in Handler \ {h} : handler'[g] = handler[g]
  BY <1>3, RestingIsState, ThreadMoves DEF BranchInv
<1>6. /\ branches' \in JsonlFile /\ branches'.open = {} /\ garbled' \in PerFile /\ garbled'.cases = garbled.cases
      /\ \/ /\ Ids(branches') = RowIds(rows) /\ Manual(branches') = ManualIds(rows)
            /\ garbled'.branches = garbled.branches
         \/ /\ Ids(branches') = RowIds(rows) \ {id} /\ Manual(branches') = ManualIds(rows) \ {id}
            /\ garbled'.branches = garbled.branches \cup {id}
  <2>1. CASE branches' = Rewritten(rows) /\ garbled' = garbled
    BY <1>1, <2>1, FileMade, IdsOfRows DEF BranchInv, BranchTypeOK
  <2>2. CASE /\ branches' = Rewritten(Without(rows, id))
             /\ garbled' = [garbled EXCEPT !.branches = @ \cup {id}]
    <3>1. /\ branches' \in JsonlFile /\ branches'.open = {}
          /\ Ids(branches') = RowIds(rows) \ {id} /\ Manual(branches') = ManualIds(rows) \ {id}
      BY <1>1, <2>2, FileMade, IdsOfRows, RowsWithout
    <3>2. /\ garbled' \in PerFile /\ garbled'.cases = garbled.cases
          /\ garbled'.branches = garbled.branches \cup {id}
      <4>1. {id} \in SUBSET Nat
        BY <1>1
      <4> QED BY <2>2, <4>1, HistoryGrows DEF BranchInv, BranchTypeOK
    <3> QED BY <3>1, <3>2
  <2> QED BY <1>2, <2>1, <2>2
<1>7. BranchTypeOK'
  BY <1>1, <1>3, <1>5, <1>6, RestingIsState DEF BranchInv, BranchTypeOK
<1>8. ~overlapped' => PatchOK'
  BY <1>3, <1>5, RestingIsState, NoPatch DEF BranchInv
<1>9. ~overlapped => id \in appended.branches /\ id \notin deleted.branches
  BY <1>4 DEF BranchInv, StoresAreExact
<1>10. ~overlapped' => HistoryOK'
  BY <1>3, <1>6, <1>9 DEF BranchInv, HistoryOK
<1>11. ~overlapped' => StoresAreExact'
  <2>1. Ids(cases)' = Ids(cases)
    BY <1>3
  <2> SUFFICES ASSUME ~overlapped' PROVE StoresAreExact'
    OBVIOUS
  <2>2. StoresAreExact /\ ~overlapped
    BY <1>3 DEF BranchInv
  <2>3. Ids(branches') = appended'.branches \ (deleted'.branches \cup garbled'.branches)
    BY <1>3, <1>4, <1>6, <2>2 DEF StoresAreExact
  <2>4. Manual(branches') = evaluated' \ (deleted'.branches \cup garbled'.branches)
    BY <1>3, <1>4, <1>6, <2>2 DEF StoresAreExact
  <2>5. Ids(cases') = appended'.cases \ (deleted'.cases \cup garbled'.cases)
    BY <1>3, <1>6, <2>1, <2>2 DEF StoresAreExact
  <2> QED BY <2>3, <2>4, <2>5 DEF StoresAreExact
<1> QED BY <1>7, <1>8, <1>10, <1>11 DEF BranchInv

LEMMA DeleteBranchStep ==
    ASSUME BranchInv, NEW h \in Handler, DeleteBranch(h)
    PROVE  BranchInv'
<1>1. PICK id \in Ids(branches) :
         /\ branches' = Rewritten(Without(branches.rows, id))
         /\ deleted' = [deleted EXCEPT !.branches = @ \cup {id}]
  BY DEF DeleteBranch
<1>2. branches.rows \in SUBSET BranchRow
  BY DEF BranchInv, BranchTypeOK, JsonlFile
<1>3. id \in Nat /\ {id} \in SUBSET Nat
  BY <1>2 DEF Ids, BranchRow
<1>4. /\ UNCHANGED <<handler, cases, appended, evaluated, garbled, killed>>
      /\ overlapped' = (overlapped \/ UnderPatch(h)) /\ handler[h].pc = "idle"
  BY DEF DeleteBranch
<1>5. /\ branches' \in JsonlFile /\ branches'.open = {} /\ Ids(branches') = Ids(branches) \ {id}
      /\ Manual(branches') = Manual(branches) \ {id}
  BY <1>1, <1>2, FileMade, IdsOfRows, RowsWithout
<1>6. /\ deleted' \in PerFile /\ deleted'.branches = deleted.branches \cup {id}
      /\ deleted'.cases = deleted.cases
  BY <1>1, <1>3, HistoryGrows DEF BranchInv, BranchTypeOK
<1>7. BranchTypeOK'
  BY <1>4, <1>5, <1>6 DEF BranchInv, BranchTypeOK
<1>8. ~overlapped' => PatchOK'
  BY <1>4, NoPatch DEF BranchInv
<1>9. ~overlapped' => HistoryOK'
  BY <1>1, <1>4, <1>6 DEF BranchInv, HistoryOK, StoresAreExact
<1>10. ~overlapped' => StoresAreExact'
  BY <1>4, <1>5, <1>6 DEF BranchInv, StoresAreExact
<1> QED BY <1>7, <1>8, <1>9, <1>10 DEF BranchInv

LEMMA SaveCaseStep ==
    ASSUME BranchInv, NEW h \in Handler, SaveCase(h)
    PROVE  BranchInv'
<1> DEFINE id == NextId("cases")
<1>1. PICK t \in TraceId, text \in Texts :
         /\ cases' = AppendRow(cases, Row(id, t), text)
         /\ appended' = [appended EXCEPT !.cases = @ \cup {id}]
         /\ garbled' = [garbled EXCEPT !.cases = @ \cup Lost(cases, id, text)]
  BY DEF SaveCase
<1>2. /\ id \in Nat /\ id \notin appended.cases
      /\ \E n \in Nat : appended.cases \cup {id} = 1..n
  BY FreshId DEF BranchInv
<1>3. Row(id, t) \in BranchRow /\ Row(id, t).id = id /\ ~Row(id, t).manual
  BY <1>2, RowIsMade
<1>4. UNCHANGED <<handler, branches, deleted, evaluated, overlapped, killed>>
  BY DEF SaveCase
<1> HIDE DEF id
<1>5. /\ cases' \in JsonlFile /\ cases'.open = {}
      /\ Ids(cases') = IF Readable(cases, text) THEN Ids(cases) \cup {id}
                       ELSE Ids(cases) \ cases.open
  BY <1>1, <1>3, RowAppended DEF BranchInv, BranchTypeOK
<1>6. /\ appended' \in PerFile /\ garbled' \in PerFile
      /\ appended'.cases = appended.cases \cup {id} /\ appended'.branches = appended.branches
      /\ garbled'.branches = garbled.branches
      /\ garbled'.cases = garbled.cases \cup Lost(cases, id, text)
      /\ cases.open \subseteq appended.cases
  <2>1. /\ appended \in PerFile /\ garbled \in PerFile /\ cases \in JsonlFile
        /\ cases.open \subseteq appended.cases
    BY DEF BranchInv, BranchTypeOK
  <2>2. {id} \in SUBSET Nat /\ Lost(cases, id, text) \in SUBSET Nat
    BY <1>2, <2>1, LostIds
  <2>3. /\ appended' \in PerFile
        /\ appended'.cases = appended.cases \cup {id} /\ appended'.branches = appended.branches
    BY <1>1, <2>1, <2>2, HistoryGrows
  <2>4. /\ garbled' \in PerFile /\ garbled'.branches = garbled.branches
        /\ garbled'.cases = garbled.cases \cup Lost(cases, id, text)
    BY <1>1, <2>1, <2>2, HistoryGrows
  <2> QED BY <2>1, <2>3, <2>4
<1>7. BranchTypeOK'
  BY <1>2, <1>4, <1>5, <1>6 DEF BranchInv, BranchTypeOK
<1>8. ~overlapped' => HistoryOK' /\ PatchOK'
  BY <1>4, <1>6 DEF BranchInv, HistoryOK, PatchOK, Lost
<1>9. ~overlapped' => StoresAreExact'
  <2> SUFFICES ASSUME ~overlapped' PROVE StoresAreExact'
    OBVIOUS
  <2>1. Manual(branches)' = Manual(branches) /\ Ids(branches)' = Ids(branches)
    BY <1>4
  <2>2. HistoryOK /\ StoresAreExact
    BY <1>4 DEF BranchInv
  <2>3. Ids(cases') = appended'.cases \ (deleted'.cases \cup garbled'.cases)
    BY <1>2, <1>4, <1>5, <1>6, <2>2 DEF HistoryOK, StoresAreExact, Lost, Readable
  <2> QED BY <2>1, <2>2, <2>3, <1>4, <1>6 DEF StoresAreExact
<1> QED BY <1>7, <1>8, <1>9 DEF BranchInv

LEMMA DeleteCaseStep ==
    ASSUME BranchInv, NEW h \in Handler, DeleteCase(h)
    PROVE  BranchInv'
<1>1. PICK id \in Ids(cases) :
         /\ cases' = Rewritten(Without(cases.rows, id))
         /\ deleted' = [deleted EXCEPT !.cases = @ \cup {id}]
  BY DEF DeleteCase
<1>2. cases.rows \in SUBSET BranchRow
  BY DEF BranchInv, BranchTypeOK, JsonlFile
<1>3. id \in Nat /\ {id} \in SUBSET Nat
  BY <1>2 DEF Ids, BranchRow
<1>4. UNCHANGED <<handler, branches, appended, evaluated, garbled, overlapped, killed>>
  BY DEF DeleteCase
<1>5. cases' \in JsonlFile /\ cases'.open = {} /\ Ids(cases') = Ids(cases) \ {id}
  BY <1>1, <1>2, FileMade, IdsOfRows, RowsWithout
<1>6. /\ deleted' \in PerFile /\ deleted'.cases = deleted.cases \cup {id}
      /\ deleted'.branches = deleted.branches
  BY <1>1, <1>3, HistoryGrows DEF BranchInv, BranchTypeOK
<1>7. BranchTypeOK'
  BY <1>4, <1>5, <1>6 DEF BranchInv, BranchTypeOK
<1>8. ~overlapped' => HistoryOK' /\ PatchOK'
  BY <1>1, <1>4, <1>6 DEF BranchInv, HistoryOK, PatchOK, StoresAreExact
<1>9. ~overlapped' => StoresAreExact'
  <2>1. Manual(branches)' = Manual(branches) /\ Ids(branches)' = Ids(branches)
    BY <1>4
  <2> QED BY <2>1, <1>4, <1>5, <1>6 DEF BranchInv, StoresAreExact
<1> QED BY <1>7, <1>8, <1>9 DEF BranchInv

LEMMA KillServerStep ==
    ASSUME BranchInv, KillServer
    PROVE  BranchInv'
<1>1. /\ killed' = killed + 1 /\ handler' = [h \in Handler |-> Resting]
      /\ UNCHANGED <<deleted, evaluated, overlapped>>
  BY DEF KillServer
<1>2. /\ branches \in JsonlFile /\ cases \in JsonlFile
      /\ appended \in PerFile /\ garbled \in PerFile
      /\ branches.open \in SUBSET appended.branches /\ cases.open \in SUBSET appended.cases
      /\ branches.open \in SUBSET Nat /\ cases.open \in SUBSET Nat
  BY DEF BranchInv, BranchTypeOK, JsonlFile
<1>3. PatchOK'
  BY <1>1, RestingIsState DEF PatchOK
<1>4. CASE UNCHANGED <<branches, cases, appended, garbled>>
  <2>1. BranchTypeOK'
    BY <1>1, <1>4, RestingIsState DEF BranchInv, BranchTypeOK
  <2>2. Ids(branches)' = Ids(branches) /\ Manual(branches)' = Manual(branches) /\ Ids(cases)' = Ids(cases)
    BY <1>4
  <2>3. ~overlapped' => HistoryOK' /\ StoresAreExact'
    BY <1>1, <1>4, <2>2 DEF BranchInv, HistoryOK, StoresAreExact
  <2> QED BY <1>3, <2>1, <2>3 DEF BranchInv
<1>5. ASSUME NEW h \in Handler, KilledInBranch(h) PROVE BranchInv'
  <2>0. /\ cases' = cases /\ handler[h].pc = "rerunning" /\ handler[h].trace \in TraceId
        /\ Ids(cases)' = Ids(cases)
    BY <1>5 DEF KilledInBranch, BranchInv, BranchTypeOK
  <2>1. CASE /\ branches' = CutShort(branches) /\ UNCHANGED appended
             /\ garbled' = [garbled EXCEPT !.branches = @ \cup branches.open]
    <3>1. /\ garbled' \in PerFile /\ garbled'.cases = garbled.cases
          /\ garbled'.branches = garbled.branches \cup branches.open
      BY <1>2, <2>1, HistoryGrows
    <3>2. /\ branches' \in JsonlFile /\ branches'.open = {}
          /\ Ids(branches') = Ids(branches) \ branches.open
          /\ Manual(branches') = Manual(branches) \ branches.open
      BY <1>2, <2>1, LineCutShort
    <3>3. BranchTypeOK'
      BY <1>1, <2>0, <2>1, <3>1, <3>2, RestingIsState DEF BranchInv, BranchTypeOK
    <3>4. ~overlapped' => HistoryOK' /\ StoresAreExact'
      BY <1>1, <1>2, <2>0, <2>1, <3>1, <3>2 DEF BranchInv, HistoryOK, StoresAreExact
    <3> QED BY <1>3, <3>3, <3>4 DEF BranchInv
  <2>2. CASE LET id == NextId("branches")
             IN  /\ Readable(branches, "plain") /\ branches' = Unended(branches, Row(id, handler[h].trace))
                 /\ appended' = [appended EXCEPT !.branches = @ \cup {id}] /\ UNCHANGED garbled
    <3> DEFINE id == NextId("branches")
    <3>1. /\ id \in Nat /\ id \notin appended.branches /\ {id} \in SUBSET Nat
          /\ \E n \in Nat : appended.branches \cup {id} = 1..n
      BY FreshId DEF BranchInv
    <3>2. /\ branches' = Unended(branches, Row(id, handler[h].trace))
          /\ appended' = [appended EXCEPT !.branches = @ \cup {id}] /\ garbled' = garbled
      BY <2>2
    <3> HIDE DEF id
    <3>3. Row(id, handler[h].trace) \in BranchRow
          /\ Row(id, handler[h].trace).id = id /\ ~Row(id, handler[h].trace).manual
      BY <2>0, <3>1, RowIsMade
    <3>4. /\ branches' \in JsonlFile /\ branches'.open = {id}
          /\ Ids(branches') = Ids(branches) \cup {id} /\ Manual(branches') = Manual(branches)
      BY <1>2, <3>2, <3>3, RowUnended
    <3>5. /\ appended' \in PerFile /\ appended'.cases = appended.cases
          /\ appended'.branches = appended.branches \cup {id}
      BY <1>2, <3>1, <3>2, HistoryGrows
    <3>6. BranchTypeOK'
      <4>1. \A file \in {"branches", "cases"} : \E n \in Nat : appended'[file] = 1..n
        BY <3>1, <3>5 DEF BranchInv, BranchTypeOK
      <4> QED BY <1>1, <2>0, <3>2, <3>4, <3>5, <4>1, RestingIsState DEF BranchInv, BranchTypeOK
    <3>7. ~overlapped' => HistoryOK' /\ StoresAreExact'
      BY <1>1, <2>0, <3>1, <3>2, <3>4, <3>5 DEF BranchInv, HistoryOK, StoresAreExact
    <3> QED BY <1>3, <3>6, <3>7 DEF BranchInv
  <2> QED BY <1>5, <2>1, <2>2 DEF KilledInBranch
<1>6. CASE KilledInCase
  <2>0. /\ branches' = branches /\ Ids(branches)' = Ids(branches)
        /\ Manual(branches)' = Manual(branches)
    BY <1>6 DEF KilledInCase
  <2>1. CASE /\ cases' = CutShort(cases) /\ UNCHANGED appended
             /\ garbled' = [garbled EXCEPT !.cases = @ \cup cases.open]
    <3>1. /\ garbled' \in PerFile /\ garbled'.branches = garbled.branches
          /\ garbled'.cases = garbled.cases \cup cases.open
      BY <1>2, <2>1, HistoryGrows
    <3>2. /\ cases' \in JsonlFile /\ cases'.open = {} /\ Ids(cases') = Ids(cases) \ cases.open
      BY <1>2, <2>1, LineCutShort
    <3>3. BranchTypeOK'
      BY <1>1, <2>0, <2>1, <3>1, <3>2, RestingIsState DEF BranchInv, BranchTypeOK
    <3>4. ~overlapped' => HistoryOK' /\ StoresAreExact'
      BY <1>1, <1>2, <2>0, <2>1, <3>1, <3>2 DEF BranchInv, HistoryOK, StoresAreExact
    <3> QED BY <1>3, <3>3, <3>4 DEF BranchInv
  <2>2. ASSUME NEW t \in TraceId, cases' = Unended(cases, Row(NextId("cases"), t)),
               appended' = [appended EXCEPT !.cases = @ \cup {NextId("cases")}],
               UNCHANGED garbled
        PROVE  BranchInv'
    <3> DEFINE id == NextId("cases")
    <3>1. /\ id \in Nat /\ id \notin appended.cases /\ {id} \in SUBSET Nat
          /\ \E n \in Nat : appended.cases \cup {id} = 1..n
      BY FreshId DEF BranchInv
    <3>2. cases' = Unended(cases, Row(id, t)) /\ appended' = [appended EXCEPT !.cases = @ \cup {id}]
      BY <2>2
    <3> HIDE DEF id
    <3>3. Row(id, t) \in BranchRow /\ Row(id, t).id = id /\ ~Row(id, t).manual
      BY <3>1, RowIsMade
    <3>4. cases' \in JsonlFile /\ cases'.open = {id} /\ Ids(cases') = Ids(cases) \cup {id}
      BY <1>2, <3>2, <3>3, RowUnended
    <3>5. /\ appended' \in PerFile /\ appended'.branches = appended.branches
          /\ appended'.cases = appended.cases \cup {id}
      BY <1>2, <3>1, <3>2, HistoryGrows
    <3>6. BranchTypeOK'
      <4>1. \A file \in {"branches", "cases"} : \E n \in Nat : appended'[file] = 1..n
        BY <3>1, <3>5 DEF BranchInv, BranchTypeOK
      <4> QED BY <1>1, <2>0, <2>2, <3>4, <3>5, <4>1, RestingIsState DEF BranchInv, BranchTypeOK
    <3>7. ~overlapped' => HistoryOK' /\ StoresAreExact'
      BY <1>1, <2>0, <2>2, <3>1, <3>4, <3>5 DEF BranchInv, HistoryOK, StoresAreExact
    <3> QED BY <1>3, <3>6, <3>7 DEF BranchInv
  <2> QED BY <1>6, <2>1, <2>2 DEF KilledInCase
<1> QED BY <1>4, <1>5, <1>6 DEF KillServer

LEMMA BranchStarts == BranchInit => BranchInv
<1> SUFFICES ASSUME BranchInit PROVE BranchInv
  OBVIOUS
<1>1. 1..0 = {} /\ 0 \in Nat
  OBVIOUS
<1>2. BranchTypeOK
  <2>1. \A file \in {"branches", "cases"} : appended[file] = 1..0
    BY <1>1 DEF BranchInit
  <2>2. branches \in JsonlFile /\ cases \in JsonlFile
    BY DEF BranchInit, JsonlFile
  <2>3. appended \in PerFile /\ deleted \in PerFile /\ garbled \in PerFile
    BY DEF BranchInit, PerFile
  <2> QED BY <1>1, <2>1, <2>2, <2>3, RestingIsState DEF BranchInit, BranchTypeOK
<1>3. HistoryOK /\ PatchOK
  BY RestingIsState DEF BranchInit, HistoryOK, PatchOK
<1>4. StoresAreExact
  BY DEF BranchInit, StoresAreExact, Ids, Manual
<1> QED BY <1>2, <1>3, <1>4 DEF BranchInv

\* Without a PATCH that overlaps a change, the files hold exactly what was
\* appended, not deleted and can be read back, for any number of threads,
\* traces, records and kills (branch_store.py, update_debug_session).
THEOREM StoresAreExactHolds == BranchSpec => []StoresAreExact
<1>1. BranchInv /\ [BranchNext]_bvars => BranchInv'
  <2> SUFFICES ASSUME BranchInv, [BranchNext]_bvars PROVE BranchInv'
    OBVIOUS
  <2>1. CASE BranchNext
    BY <2>1, StartRerunStep, RerunFailsStep, AppendBranchStep, ReadToPatchStep, WritePatchedStep,
       DeleteBranchStep, SaveCaseStep, DeleteCaseStep, KillServerStep DEF BranchNext
  <2>2. CASE UNCHANGED bvars
    BY <2>2 DEF bvars, BranchInv, BranchTypeOK, HistoryOK, PatchOK, StoresAreExact, Ids, Manual
  <2> QED BY <2>1, <2>2
<1>2. BranchInv => StoresAreExact
  BY DEF BranchInv, StoresAreExact
<1> QED BY <1>1, <1>2, BranchStarts, PTL DEF BranchSpec

-----------------------------------------------------------------------------
(* The workbench: any runs, processes, ports, stores, kills and exits.     *)

Store == {StoreOf[r] : r \in DebugRun} \cup {Nobody}

Manifest == [status : {"absent", "planned", "running", "failed", "partial", "completed"},
             trace : BOOLEAN, report : BOOLEAN, place : {"runs", "session"}]

Locked == {"look", "loadRun", "spawn", "announce", "wait"}

ProcessState ==
    [pc : {"off", "load", "bind", "update", "diagnose", "complete", "ask",
           "ready", "refused", "done"} \cup Locked,
     run : DebugRun \cup {Nobody}, port : Port \cup {Nobody},
     looked : {"runs", "session", Nobody}]

ChildState ==
    [port : Port \cup {Nobody}, store : Store,
     state : {"none", "starting", "serving", "late", "gone"}]

HostTypeOK ==
    /\ child \in [Party -> ChildState]
    /\ listener \in [Port -> Party \cup {Nobody, Stranger}]
    /\ uiState \in {Nobody} \cup [port : Port, store : Store, ready : BOOLEAN]

WorkbenchTypeOK ==
    /\ manifest \in [DebugRun -> Manifest]
    /\ process \in [Party -> ProcessState]
    /\ HostTypeOK

\* What a run has stored by where its process is, and what its manifest says.
RunOK(r) ==
    /\ process[r].pc \in {"load", "bind", "update", "diagnose", "complete"} => process[r].run = r
    /\ process[r].pc \in {"bind", "update", "diagnose", "complete"} => r \in traces
    /\ process[r].pc = "complete" => r \in reports
    /\ process[r].pc \in {"diagnose", "complete"} => manifest[r].trace
    /\ manifest[r].trace => r \in traces
    /\ manifest[r].report => r \in reports
    /\ manifest[r].status = "completed" => manifest[r].trace /\ manifest[r].report

\* A server that came up in time on port p serves store s.
Passes(p, s) ==
    listener[p] \in Party /\ child[listener[p]].state = "serving" => child[listener[p]].store = s

Started == {"announce", "wait", "ready", "refused", "done"}

\* A process in state s: it holds the start-up lock exactly while it is past it;
\* it has started no server before it announces one; while it starts one the
\* state file is not there or names it, and nobody on its port is in its way.
StarterIn(c, s) ==
    /\ s.pc \in Locked <=> startLock = c
    /\ s.pc \in Locked \cup {"ask"} => s.run \in DebugRun
    /\ s.pc \notin Started => child[c].state = "none"
    /\ s.pc \in {"spawn", "announce"} => uiState = Nobody
    /\ s.pc = "wait" => uiState.port = s.port /\ uiState.store = StoreOf[s.run]
    /\ s.pc \in {"announce", "wait"} =>
          /\ s.port \in Port /\ child[c].port = s.port /\ child[c].store = StoreOf[s.run]
          /\ Passes(s.port, StoreOf[s.run])

StarterOK(c) == StarterIn(c, process[c])

\* Whoever has bound a port is up; a server on the port the state file names
\* that came up in time serves the store it names.
ListenerOK ==
    \A p \in Port : listener[p] \in Party => child[listener[p]].state \in {"serving", "late"}

StateFileOK == uiState # Nobody => Passes(uiState.port, uiState.store)

WorkbenchInv ==
    /\ WorkbenchTypeOK
    /\ \A r \in DebugRun : RunOK(r)
    /\ \A c \in Party : StarterOK(c)
    /\ ListenerOK /\ StateFileOK

\* A run that goes on and its manifest, the UI left alone.
LEMMA RunStep ==
    ASSUME WorkbenchInv, NEW r \in DebugRun, NEW state \in ProcessState, NEW entry \in Manifest,
           process' = [process EXCEPT ![r] = state],
           manifest' = [manifest EXCEPT ![r] = entry],
           UNCHANGED <<uiState, child, listener, startLock>>,
           process[r].pc \notin Started, process[r].pc \notin Locked,
           traces \subseteq traces', reports \subseteq reports',
           state.pc \notin Locked,
           state.pc \in {"load", "bind", "update", "diagnose", "complete", "ask"} => state.run = r,
           state.pc \in {"bind", "update", "diagnose", "complete"} => r \in traces',
           state.pc = "complete" => r \in reports',
           state.pc \in {"diagnose", "complete"} => entry.trace,
           entry.trace => r \in traces',
           entry.report => r \in reports',
           entry.status = "completed" => entry.trace /\ entry.report
    PROVE  WorkbenchInv'
<1>1. /\ manifest \in [DebugRun -> Manifest] /\ process \in [Party -> ProcessState]
      /\ r \in Party /\ DebugRun \subseteq Party
  BY DEF WorkbenchInv, WorkbenchTypeOK, Party
<1>2. /\ process'[r] = state /\ \A c \in Party \ {r} : process'[c] = process[c]
      /\ manifest'[r] = entry /\ \A q \in DebugRun \ {r} : manifest'[q] = manifest[q]
  BY <1>1
<1>3. WorkbenchTypeOK'
  BY <1>1 DEF WorkbenchInv, WorkbenchTypeOK, HostTypeOK
<1>4. RunOK(r)'
  BY <1>2 DEF RunOK
<1>5. \A q \in DebugRun \ {r} : RunOK(q)'
  BY <1>1, <1>2 DEF WorkbenchInv, RunOK
<1>6. StarterOK(r)'
  <2>1. StarterOK(r)
    BY <1>1 DEF WorkbenchInv
  <2>2. startLock # r /\ child[r].state = "none"
    BY <2>1 DEF StarterOK, StarterIn
  <2> QED  BY <1>2, <2>2 DEF StarterOK, StarterIn, Locked
<1>7. \A c \in Party \ {r} : StarterOK(c)'
  <2> SUFFICES ASSUME NEW c \in Party \ {r} PROVE StarterOK(c)'
    OBVIOUS
  <2>1. StarterOK(c)
    BY DEF WorkbenchInv
  <2> QED  BY <1>2, <2>1 DEF StarterOK, StarterIn, Passes
<1>8. ListenerOK' /\ StateFileOK'
  BY DEF WorkbenchInv, ListenerOK, StateFileOK, Passes
<1> QED  BY <1>3, <1>4, <1>5, <1>6, <1>7, <1>8 DEF WorkbenchInv

\* The steps of a run up to its end.
LEMMA ExecuteKeeps ==
    ASSUME WorkbenchInv, NEW r \in DebugRun, Execute(r)
    PROVE  WorkbenchInv'
<1>1. /\ manifest \in [DebugRun -> Manifest] /\ process \in [Party -> ProcessState]
      /\ manifest[r] \in Manifest /\ process[r] \in ProcessState
      /\ r \in Party /\ RunOK(r)
      /\ manifest[r].trace \in BOOLEAN /\ manifest[r].report \in BOOLEAN
      /\ UNCHANGED <<uiState, child, listener, startLock>>
      /\ process[r].pc \notin Started /\ process[r].pc \notin Locked
  <2>1. r \in Party
    BY DEF Party
  <2>2. manifest[r] \in Manifest /\ RunOK(r)
    BY DEF WorkbenchInv, WorkbenchTypeOK
  <2>3. /\ UNCHANGED <<uiState, child, listener, startLock>>
        /\ process[r].pc \notin Started /\ process[r].pc \notin Locked
    BY DEF Execute, Create, Plan, SaveTrace, BindSession, UpdateRun, FailRun, SaveReport,
           Complete, uiVars, host, Started, Locked
  <2> QED  BY <2>1, <2>2, <2>3 DEF WorkbenchInv, WorkbenchTypeOK, Manifest
<1>2. CASE Create(r)
  <2> DEFINE state == [process[r] EXCEPT !.pc = "load", !.run = r]
             entry == [manifest[r] EXCEPT !.status = "running"]
  <2>1. process' = [process EXCEPT ![r] = state] /\ manifest' = [manifest EXCEPT ![r] = entry]
    BY <1>1, <1>2 DEF Create
  <2>2. state \in ProcessState /\ state.pc = "load" /\ state.run = r
    BY <1>1 DEF ProcessState
  <2>3. ~manifest[r].trace /\ ~manifest[r].report /\ traces' = traces /\ reports' = reports
    BY <1>2 DEF Create, Absent
  <2>4. /\ entry \in Manifest /\ entry.status = "running"
        /\ entry.trace = manifest[r].trace /\ entry.report = manifest[r].report
    BY <1>1 DEF Manifest
  <2> HIDE DEF state, entry
  <2> QED  BY <1>1, <2>1, <2>2, <2>3, <2>4, RunStep DEF Locked
<1>3. CASE Plan(r)
  <2> DEFINE state == [process[r] EXCEPT !.pc = "done"]
             entry == [manifest[r] EXCEPT !.status = "planned"]
  <2>1. process' = [process EXCEPT ![r] = state] /\ manifest' = [manifest EXCEPT ![r] = entry]
    BY <1>1, <1>3 DEF Plan, GoOn
  <2>2. state \in ProcessState /\ state.pc = "done"
    BY <1>1 DEF ProcessState
  <2>3. ~manifest[r].trace /\ ~manifest[r].report /\ traces' = traces /\ reports' = reports
    BY <1>3 DEF Plan, Absent
  <2>4. /\ entry \in Manifest /\ entry.status = "planned"
        /\ entry.trace = manifest[r].trace /\ entry.report = manifest[r].report
    BY <1>1 DEF Manifest
  <2> HIDE DEF state, entry
  <2> QED  BY <1>1, <2>1, <2>2, <2>3, <2>4, RunStep DEF Locked
<1>4. CASE SaveTrace(r) \/ SaveReport(r)
  <2> DEFINE pc == IF process[r].pc = "load" THEN "bind" ELSE "complete"
             state == [process[r] EXCEPT !.pc = pc]
  <2>1. /\ process' = [process EXCEPT ![r] = state] /\ manifest' = [manifest EXCEPT ![r] = manifest[r]]
        /\ state \in ProcessState /\ state.pc = pc /\ state.run = process[r].run
        /\ pc \in {"bind", "complete"} /\ process[r].run = r
    BY <1>1, <1>4 DEF SaveTrace, SaveReport, GoOn, ProcessState, Locked, RunOK
  <2>2. /\ traces \subseteq traces' /\ reports \subseteq reports' /\ r \in traces'
        /\ pc = "complete" => r \in reports' /\ manifest[r].trace
    BY <1>1, <1>4 DEF SaveTrace, SaveReport, RunOK
  <2> HIDE DEF state, pc
  <2> QED  BY <1>1, <2>1, <2>2, RunStep DEF Locked, RunOK
<1>5. CASE BindSession(r)
  <2> DEFINE state == [process[r] EXCEPT !.pc = "update"]
             entry == IF r \in Captured THEN [manifest[r] EXCEPT !.place = "session"] ELSE manifest[r]
  <2>1. /\ process' = [process EXCEPT ![r] = state] /\ manifest' = [manifest EXCEPT ![r] = entry]
        /\ state \in ProcessState /\ entry \in Manifest /\ state.pc = "update" /\ state.run = process[r].run
        /\ entry.status = manifest[r].status /\ entry.trace = manifest[r].trace
        /\ entry.report = manifest[r].report
        /\ traces' = traces /\ reports' = reports /\ process[r].run = r /\ r \in traces
    BY <1>1, <1>5 DEF BindSession, GoOn, ProcessState, Manifest, RunOK
  <2> HIDE DEF state, entry
  <2> QED  BY <1>1, <2>1, RunStep DEF Locked, RunOK
<1>6. CASE UpdateRun(r)
  <2> DEFINE state == [process[r] EXCEPT !.pc = "diagnose"]
             entry == [manifest[r] EXCEPT !.trace = TRUE]
  <2>1. /\ process' = [process EXCEPT ![r] = state] /\ manifest' = [manifest EXCEPT ![r] = entry]
        /\ state \in ProcessState /\ entry \in Manifest /\ state.pc = "diagnose" /\ state.run = process[r].run
        /\ entry.status = manifest[r].status /\ entry.trace
        /\ entry.report = manifest[r].report
        /\ traces' = traces /\ reports' = reports /\ process[r].run = r /\ r \in traces
    BY <1>1, <1>6 DEF UpdateRun, GoOn, ProcessState, Manifest, RunOK
  <2> HIDE DEF state, entry
  <2> QED  BY <1>1, <2>1, RunStep DEF Locked, RunOK
<1>7. CASE FailRun(r)
  <2> DEFINE state == [process[r] EXCEPT !.pc = "done"]
             status == IF process[r].pc \in {"diagnose", "complete"} THEN "partial" ELSE "failed"
             entry == [manifest[r] EXCEPT !.status = status, !.trace = process[r].pc # "load",
                                          !.report = process[r].pc = "complete"]
  <2>1. process' = [process EXCEPT ![r] = state] /\ manifest' = [manifest EXCEPT ![r] = entry]
    BY <1>1, <1>7 DEF FailRun, GoOn
  <2>2. state \in ProcessState /\ state.pc = "done"
    BY <1>1 DEF ProcessState
  <2>3. status \in {"partial", "failed"}
    OBVIOUS
  <2>4. /\ entry \in Manifest /\ entry.status = status
        /\ entry.trace <=> process[r].pc # "load"
        /\ entry.report <=> process[r].pc = "complete"
    <3> HIDE DEF status
    <3> QED  BY <1>1, <2>3 DEF Manifest
  <2>5. /\ traces' = traces /\ reports' = reports
        /\ process[r].pc # "load" => r \in traces
        /\ process[r].pc = "complete" => r \in reports
    BY <1>1, <1>7 DEF FailRun, RunOK
  <2> HIDE DEF state, entry, status
  <2> QED  BY <1>1, <2>1, <2>2, <2>3, <2>4, <2>5, RunStep DEF Locked
<1>8. CASE Complete(r)
  <2> DEFINE entry == [manifest[r] EXCEPT !.status = "completed", !.report = TRUE]
  <2>1. PICK pc \in {"done", "ask"} : process' = [process EXCEPT ![r] = [process[r] EXCEPT !.pc = pc]]
    BY <1>1, <1>8 DEF Complete, GoOn
  <2> DEFINE state == [process[r] EXCEPT !.pc = pc]
  <2>2. /\ process' = [process EXCEPT ![r] = state] /\ manifest' = [manifest EXCEPT ![r] = entry]
        /\ state \in ProcessState /\ entry \in Manifest /\ state.pc = pc /\ state.run = process[r].run
        /\ entry.status = "completed" /\ entry.trace = manifest[r].trace /\ entry.report
        /\ traces' = traces /\ reports' = reports
        /\ process[r].run = r /\ r \in traces /\ r \in reports /\ manifest[r].trace
    BY <1>1, <1>8, <2>1 DEF Complete, ProcessState, Manifest, RunOK
  <2> HIDE DEF state, entry
  <2>3. state.pc \notin Locked /\ state.pc \notin {"load", "bind", "update", "diagnose", "complete"}
    BY <2>2 DEF Locked
  <2>4. /\ traces \subseteq traces' /\ reports \subseteq reports'
        /\ state.run = r /\ r \in traces' /\ r \in reports' /\ entry.trace
    BY <2>2
  <2> QED  BY <1>1, <2>2, <2>3, <2>4, RunStep
<1> QED  BY <1>2, <1>3, <1>4, <1>5, <1>6, <1>7, <1>8 DEF Execute

\* What a process does for the UI leaves manifests and stores alone.
LEMMA UiStep ==
    ASSUME WorkbenchInv, NEW c \in Party, NEW state \in ProcessState,
           process' = [process EXCEPT ![c] = state],
           UNCHANGED <<manifest, traces, reports>>,
           state.pc \notin {"load", "bind", "update", "diagnose", "complete"},
           \A d \in Party \ {c} : StarterOK(d)', StarterIn(c, state)',
           HostTypeOK', ListenerOK', StateFileOK'
    PROVE  WorkbenchInv'
<1>1. /\ process \in [Party -> ProcessState] /\ DebugRun \subseteq Party
      /\ process'[c] = state /\ \A d \in Party \ {c} : process'[d] = process[d]
  BY DEF WorkbenchInv, WorkbenchTypeOK, Party
<1>2. WorkbenchTypeOK'
  BY <1>1 DEF WorkbenchInv, WorkbenchTypeOK
<1>3. \A r \in DebugRun : RunOK(r)'
  <2> SUFFICES ASSUME NEW r \in DebugRun PROVE RunOK(r)'
    OBVIOUS
  <2>1. RunOK(r)
    BY DEF WorkbenchInv
  <2>2. CASE r = c
    BY <1>1, <2>1, <2>2 DEF RunOK
  <2>3. CASE r # c
    BY <1>1, <2>1, <2>3 DEF RunOK
  <2> QED  BY <2>2, <2>3
<1>4. StarterOK(c)'
  BY <1>1 DEF StarterOK
<1> QED  BY <1>2, <1>3, <1>4 DEF WorkbenchInv

\* A process outside the lock goes on, maybe by taking it, and is killed maybe;
\* the state file and the host are left alone.
LEMMA UnlockedStep ==
    ASSUME WorkbenchInv, NEW c \in Party, NEW state \in ProcessState,
           process' = [process EXCEPT ![c] = state],
           UNCHANGED <<manifest, traces, reports, uiState, child, listener>>,
           \/ state.pc = "ask" /\ state.run \in DebugRun
              /\ startLock' = startLock /\ process[c].pc \notin Locked \cup Started
           \/ state.pc = "look" /\ state.run \in DebugRun
              /\ startLock = Nobody /\ startLock' = c /\ process[c].pc \notin Started
           \/ state.pc = "done" /\ startLock' = IF startLock = c THEN Nobody ELSE startLock
    PROVE  WorkbenchInv'
<1>1. c # Nobody /\ StarterOK(c) /\ process \in [Party -> ProcessState]
  BY WorkbenchAssumption DEF WorkbenchInv, WorkbenchTypeOK, Party
<1>2. \A d \in Party \ {c} : process'[d] = process[d]
  BY <1>1
<1>3. StarterIn(c, state)'
  BY <1>1 DEF StarterOK, StarterIn, Locked, Started
<1>4. \A d \in Party \ {c} : StarterOK(d)'
  <2> SUFFICES ASSUME NEW d \in Party \ {c} PROVE StarterOK(d)'
    OBVIOUS
  <2>1. StarterOK(d) /\ d # Nobody
    BY WorkbenchAssumption DEF WorkbenchInv, Party
  <2>2. startLock' = d <=> startLock = d
    BY <1>1, <2>1
  <2> QED  BY <1>2, <2>1, <2>2 DEF StarterOK, StarterIn, Passes
<1>5. HostTypeOK' /\ ListenerOK' /\ StateFileOK'
  BY DEF WorkbenchInv, WorkbenchTypeOK, HostTypeOK, ListenerOK, StateFileOK, Passes
<1> QED  BY <1>3, <1>4, <1>5, UiStep

\* What a process does before and after it holds the start-up lock, and a kill.
LEMMA UnlockedKeeps ==
    ASSUME WorkbenchInv, NEW c \in Party,
           \/ \E r \in DebugRun : c \in Viewer /\ OpenRun(c, r)
           \/ TakeStartLock(c) \/ LeaveUi(c) \/ KillProcess(c)
    PROVE  WorkbenchInv'
<1>1. /\ process \in [Party -> ProcessState] /\ process[c] \in ProcessState /\ StarterOK(c)
      /\ UNCHANGED <<manifest, traces, reports, uiState, child, listener>>
  BY DEF WorkbenchInv, WorkbenchTypeOK, OpenRun, TakeStartLock, LeaveUi, KillProcess, uiVars, host
<1>2. ASSUME NEW r \in DebugRun, OpenRun(c, r) PROVE WorkbenchInv'
  <2> DEFINE state == [process[c] EXCEPT !.pc = "ask", !.run = r]
  <2>1. /\ state \in ProcessState /\ process' = [process EXCEPT ![c] = state]
        /\ state.pc = "ask" /\ state.run = r
    BY <1>1, <1>2 DEF OpenRun, ProcessState
  <2>2. startLock' = startLock /\ process[c].pc \notin Locked \cup Started
    BY <1>2 DEF OpenRun, uiVars, Locked, Started
  <2> HIDE DEF state
  <2> QED  BY <1>1, <2>1, <2>2, UnlockedStep
<1>3. CASE TakeStartLock(c)
  <2> DEFINE state == [process[c] EXCEPT !.pc = "look"]
  <2>1. /\ state \in ProcessState /\ process' = [process EXCEPT ![c] = state]
        /\ state.pc = "look" /\ state.run = process[c].run
    BY <1>1, <1>3 DEF TakeStartLock, GoOn, ProcessState, Locked
  <2>2. /\ process[c].run \in DebugRun /\ startLock = Nobody /\ startLock' = c
        /\ process[c].pc \notin Started
    BY <1>1, <1>3 DEF TakeStartLock, StarterOK, StarterIn, Started
  <2> HIDE DEF state
  <2> QED  BY <1>1, <2>1, <2>2, UnlockedStep
<1>4. CASE LeaveUi(c) \/ KillProcess(c)
  <2> DEFINE state == [NoCall EXCEPT !.pc = "done"]
  <2>1. state \in ProcessState /\ process' = [process EXCEPT ![c] = state] /\ state.pc = "done"
    BY <1>1, <1>4 DEF LeaveUi, KillProcess, NoCall, ProcessState
  <2>2. startLock' = IF startLock = c THEN Nobody ELSE startLock
    BY <1>1, <1>4 DEF LeaveUi, KillProcess, uiVars, StarterOK, StarterIn, Locked
  <2> HIDE DEF state
  <2> QED  BY <1>1, <2>1, <2>2, UnlockedStep
<1> QED  BY <1>2, <1>3, <1>4

\* A step of the process that holds the start-up lock.
LEMMA LockedStep ==
    ASSUME WorkbenchInv, NEW c \in Party, process[c].pc \in Locked, NEW state \in ProcessState,
           process' = [process EXCEPT ![c] = state],
           UNCHANGED <<manifest, traces, reports>>,
           state.pc \in Locked \cup {"ready", "refused"},
           startLock' = IF state.pc \in Locked THEN c ELSE Nobody,
           \A d \in Party \ {c} : child'[d] = child[d],
           StarterIn(c, state)', HostTypeOK', ListenerOK', StateFileOK'
    PROVE  WorkbenchInv'
<1>1. /\ process \in [Party -> ProcessState] /\ StarterOK(c) /\ startLock = c
  BY DEF WorkbenchInv, WorkbenchTypeOK, StarterOK, StarterIn
<1>2. process'[c] = state /\ \A d \in Party \ {c} : process'[d] = process[d]
  BY <1>1
<1>3. \A d \in Party \ {c} : StarterOK(d)'
  <2> SUFFICES ASSUME NEW d \in Party \ {c} PROVE StarterOK(d)'
    OBVIOUS
  <2>1. StarterOK(d) /\ d # Nobody
    BY WorkbenchAssumption DEF WorkbenchInv, Party
  <2>2. process[d].pc \notin Locked /\ startLock' # d /\ child'[d] = child[d]
    BY <1>1, <2>1 DEF StarterOK, StarterIn
  <2> QED  BY <1>2, <2>1, <2>2 DEF StarterOK, StarterIn, Locked
<1>4. state.pc \notin {"load", "bind", "update", "diagnose", "complete"}
  BY DEF Locked
<1> QED  BY <1>3, <1>4, UiStep

\* What a server's end, or nothing, does to whoever passed.
Frees ==
    \A p \in Port : listener'[p] \in Party =>
        listener'[p] = listener[p] /\ child'[listener[p]] = child[listener[p]]

LEMMA FreesPasses ==
    ASSUME Frees, NEW p \in Port, NEW s, Passes(p, s)
    PROVE  Passes(p, s)'
BY DEF Frees, Passes

LEMMA GoneFrees ==
    ASSUME HostTypeOK, ListenerOK, NEW c \in Party, Gone(c)
    PROVE  /\ Frees /\ ListenerOK'
           /\ child' \in [Party -> ChildState]
           /\ listener' \in [Port -> Party \cup {Nobody, Stranger}]
           /\ child'[c].state = "gone" /\ child'[c].port = child[c].port
           /\ child'[c].store = child[c].store
           /\ \A d \in Party \ {c} : child'[d] = child[d]
<1>1. child \in [Party -> ChildState] /\ child[c] \in ChildState
  BY DEF HostTypeOK
<1> DEFINE state == [child[c] EXCEPT !.state = "gone"]
<1>2. /\ state \in ChildState /\ state.state = "gone" /\ state.port = child[c].port
      /\ state.store = child[c].store /\ child' = [child EXCEPT ![c] = state]
  BY <1>1 DEF Gone, ChildState
<1> HIDE DEF state
<1>3. /\ child' \in [Party -> ChildState] /\ child'[c] = state
      /\ \A d \in Party \ {c} : child'[d] = child[d]
  BY <1>1, <1>2
<1>4. /\ listener' \in [Port -> Party \cup {Nobody, Stranger}]
      /\ \A p \in Port : listener'[p] = IF listener[p] = c THEN Nobody ELSE listener[p]
  BY DEF Gone, HostTypeOK
<1>5. Nobody \notin Party
  BY WorkbenchAssumption DEF Party
<1>6. Frees
  BY <1>3, <1>4, <1>5 DEF Frees
<1>7. ListenerOK'
  BY <1>6 DEF Frees, ListenerOK
<1> QED  BY <1>2, <1>3, <1>4, <1>6, <1>7

LEMMA LockedKeeps ==
    ASSUME WorkbenchInv, NEW c \in Party,
           LookUp(c) \/ LoadFails(c) \/ LoadRun(c) \/ Spawn(c) \/ Announce(c) \/ AwaitReady(c)
    PROVE  WorkbenchInv'
<1>1. /\ process \in [Party -> ProcessState] /\ process[c] \in ProcessState
      /\ process[c].pc \in Locked /\ StarterOK(c) /\ process[c].run \in DebugRun
      /\ startLock = c /\ UNCHANGED <<manifest, traces, reports>>
      /\ StoreOf[process[c].run] \in Store /\ c # Nobody
      /\ HostTypeOK /\ ListenerOK /\ StateFileOK
  <2>1. process[c].pc \in Locked /\ UNCHANGED <<manifest, traces, reports>>
    BY DEF LookUp, LoadFails, LoadRun, Spawn, Announce, AwaitReady, Locked
  <2>2. process[c].run \in DebugRun /\ startLock = c
    BY <2>1 DEF WorkbenchInv, StarterOK, StarterIn
  <2> QED  BY <2>1, <2>2, WorkbenchAssumption DEF WorkbenchInv, WorkbenchTypeOK, Store, Party
<1>2. ASSUME NEW pc \in {"ready", "refused"}, NEW state \in ProcessState, state.pc = pc,
             process' = [process EXCEPT ![c] = state], startLock' = Nobody,
             \A d \in Party \ {c} : child'[d] = child[d],
             HostTypeOK', ListenerOK', StateFileOK', pc = "ready" \/ pc = "refused"
      PROVE  WorkbenchInv'
  <2>1. state.pc \notin Locked /\ state.pc \in Started
    BY <1>2 DEF Locked, Started
  <2>2. StarterIn(c, state)'
    BY <1>1, <1>2, <2>1 DEF StarterIn, Locked, Started
  <2> QED  BY <1>1, <1>2, <2>1, <2>2, LockedStep
<1>3. ASSUME NEW pc \in {"ready", "refused"}, EndUi(c, pc),
             \A d \in Party \ {c} : child'[d] = child[d],
             HostTypeOK', ListenerOK', StateFileOK'
      PROVE  WorkbenchInv'
  <2> DEFINE state == [process[c] EXCEPT !.pc = pc]
  <2>1. state \in ProcessState /\ process' = [process EXCEPT ![c] = state] /\ state.pc = pc
    BY <1>1, <1>3 DEF EndUi, GoOn, ProcessState
  <2>2. startLock' = Nobody
    BY <1>3 DEF EndUi
  <2> HIDE DEF state
  <2> QED  BY <1>2, <1>3, <2>1, <2>2
<1>4. ASSUME UNCHANGED <<uiState, child, listener>>
      PROVE  HostTypeOK' /\ ListenerOK' /\ StateFileOK' /\ \A d \in Party : child'[d] = child[d]
  BY <1>1, <1>4 DEF HostTypeOK, ListenerOK, StateFileOK, Passes
<1>5. CASE LookUp(c)
  <2> DEFINE next == [process[c] EXCEPT !.pc = "loadRun", !.looked = manifest[process[c].run].place]
  <2>1. manifest[process[c].run].place \in {"runs", "session"}
    BY <1>1 DEF WorkbenchInv, WorkbenchTypeOK, Manifest
  <2>2. /\ next \in ProcessState /\ process' = [process EXCEPT ![c] = next]
        /\ next.pc = "loadRun" /\ next.run = process[c].run
    BY <1>1, <1>5, <2>1 DEF LookUp, ProcessState, Locked
  <2>3. UNCHANGED <<uiState, child, listener, startLock>> /\ child[c].state = "none"
    BY <1>1, <1>5 DEF LookUp, uiVars, host, StarterOK, StarterIn, Started
  <2> HIDE DEF next
  <2>4. PICK state \in ProcessState : state = next
    BY <2>2
  <2>5. state.pc \in Locked /\ StarterIn(c, state)'
    BY <1>1, <2>2, <2>3, <2>4 DEF StarterIn, Locked
  <2> QED  BY <1>1, <1>4, <2>2, <2>3, <2>4, <2>5, LockedStep
<1>6. CASE LoadFails(c)
  <2>1. EndUi(c, "refused") /\ UNCHANGED <<uiState, child, listener>>
    BY <1>6 DEF LoadFails, host
  <2> QED  BY <1>3, <1>4, <2>1
<1>7. CASE LoadRun(c)
  <2>0. UNCHANGED <<child, listener>> /\ process[c].pc = "loadRun"
    BY <1>7 DEF LoadRun, host
  <2>1. CASE Reuse(c)
    <3> DEFINE state == [process[c] EXCEPT !.pc = "ready", !.port = uiState.port]
    <3>1. uiState # Nobody /\ uiState.port \in Port
      BY <1>1, <2>1 DEF Reuse, HostTypeOK
    <3>2. /\ state \in ProcessState /\ process' = [process EXCEPT ![c] = state] /\ state.pc = "ready"
      BY <1>1, <2>1, <3>1 DEF Reuse, ProcessState
    <3>3. startLock' = Nobody /\ uiState' = uiState
      BY <2>1 DEF Reuse
    <3> HIDE DEF state
    <3> QED  BY <1>2, <1>4, <2>0, <3>2, <3>3
  <2>2. CASE uiState' = Nobody /\ GoOn(c, "spawn") /\ UNCHANGED startLock
    <3> DEFINE next == [process[c] EXCEPT !.pc = "spawn"]
    <3>1. /\ next \in ProcessState /\ process' = [process EXCEPT ![c] = next]
          /\ next.pc = "spawn" /\ next.run = process[c].run
      BY <1>1, <2>2 DEF GoOn, ProcessState, Locked
    <3>2. child[c].state = "none"
      BY <1>1, <2>0 DEF StarterOK, StarterIn, Started
    <3> HIDE DEF next
    <3>0. PICK state \in ProcessState : state = next
      BY <3>1
    <3>3. state.pc \in Locked /\ StarterIn(c, state)'
      BY <1>1, <2>0, <2>2, <3>0, <3>1, <3>2 DEF StarterIn, Locked
    <3>4. HostTypeOK' /\ ListenerOK' /\ StateFileOK'
      BY <1>1, <2>0, <2>2 DEF HostTypeOK, ListenerOK, StateFileOK
    <3> QED  BY <1>1, <2>0, <2>2, <3>0, <3>1, <3>3, <3>4, LockedStep
  <2> QED  BY <1>7, <2>1, <2>2 DEF LoadRun
<1>8. CASE Spawn(c)
  <2>1. /\ uiState = Nobody /\ uiState' = uiState /\ listener' = listener
        /\ child[c].state = "none"
    BY <1>1, <1>8 DEF Spawn, StarterOK, StarterIn, Started
  <2>2. CASE EndUi(c, "refused") /\ UNCHANGED child
    BY <1>3, <1>4, <2>1, <2>2
  <2>3. ASSUME NEW p \in Port, listener[p] = Nobody,
               child' = [child EXCEPT ![c] =
                  [port |-> p, store |-> StoreOf[process[c].run], state |-> "starting"]],
               process' = [process EXCEPT ![c].pc = "announce", ![c].port = p],
               UNCHANGED startLock
        PROVE  WorkbenchInv'
    <3> DEFINE next == [process[c] EXCEPT !.pc = "announce", !.port = p]
               new == [port |-> p, store |-> StoreOf[process[c].run], state |-> "starting"]
    <3>1. /\ next \in ProcessState /\ process' = [process EXCEPT ![c] = next]
          /\ next.pc = "announce" /\ next.run = process[c].run /\ next.port = p
      BY <1>1, <2>3 DEF ProcessState, Locked
    <3>2. new \in ChildState /\ new.port = p /\ new.store = StoreOf[process[c].run]
      BY <1>1 DEF ChildState
    <3>3. child' = [child EXCEPT ![c] = new]
      BY <2>3
    <3> HIDE DEF next, new
    <3>0. PICK state \in ProcessState : state = next
      BY <3>1
    <3>4. /\ child' \in [Party -> ChildState] /\ child'[c] = new
          /\ \A d \in Party \ {c} : child'[d] = child[d]
      BY <1>1, <3>2, <3>3 DEF HostTypeOK
    <3>5. \A q \in Port : listener[q] # c
      BY <1>1, <2>1 DEF ListenerOK
    <3>6. HostTypeOK' /\ ListenerOK' /\ StateFileOK'
      BY <1>1, <2>1, <3>4, <3>5 DEF HostTypeOK, ListenerOK, StateFileOK
    <3>7. Passes(p, StoreOf[process[c].run])'
      BY <2>1, <2>3, WorkbenchAssumption DEF Passes, Party
    <3>8. state.pc \in Locked /\ StarterIn(c, state)'
      BY <1>1, <2>1, <2>3, <3>0, <3>1, <3>2, <3>4, <3>7 DEF StarterIn, Locked, Started
    <3> QED  BY <1>1, <2>3, <3>0, <3>1, <3>4, <3>6, <3>8, LockedStep
  <2> QED  BY <1>8, <2>2, <2>3 DEF Spawn
<1>9. CASE Announce(c)
  <2> DEFINE next == [process[c] EXCEPT !.pc = "wait"]
  <2>1. /\ process[c].port \in Port /\ child[c].port = process[c].port
        /\ child[c].store = StoreOf[process[c].run]
        /\ Passes(process[c].port, StoreOf[process[c].run])
    BY <1>1, <1>9 DEF Announce, StarterOK, StarterIn
  <2>2. /\ next \in ProcessState /\ process' = [process EXCEPT ![c] = next]
        /\ next.pc = "wait" /\ next.run = process[c].run /\ next.port = process[c].port
    BY <1>1, <1>9 DEF Announce, GoOn, ProcessState, Locked
  <2>3. /\ UNCHANGED <<child, listener, startLock>>
        /\ uiState' = [port |-> process[c].port, store |-> StoreOf[process[c].run], ready |-> FALSE]
    BY <1>9 DEF Announce, Announced, host
  <2>4. uiState' \in [port : Port, store : Store, ready : BOOLEAN]
    BY <1>1, <2>1, <2>3
  <2>5. HostTypeOK' /\ ListenerOK' /\ StateFileOK'
    <3>1. HostTypeOK' /\ ListenerOK'
      BY <1>1, <2>3, <2>4 DEF HostTypeOK, ListenerOK
    <3>2. StateFileOK'
      BY <2>1, <2>3 DEF StateFileOK, Passes
    <3> QED  BY <3>1, <3>2
  <2> HIDE DEF next
  <2>0. PICK state \in ProcessState : state = next
    BY <2>2
  <2>6. Passes(state.port, StoreOf[state.run])'
    BY <2>0, <2>1, <2>2, <2>3 DEF Passes
  <2>7. /\ state.pc = "wait" /\ state.run \in DebugRun /\ state.port \in Port
        /\ startLock' = c /\ uiState'.port = state.port /\ uiState'.store = StoreOf[state.run]
        /\ child'[c].port = state.port /\ child'[c].store = StoreOf[state.run]
    BY <1>1, <2>0, <2>1, <2>2, <2>3
  <2>8. state.pc \in Locked /\ StarterIn(c, state)'
    BY <2>6, <2>7 DEF StarterIn, Locked, Started
  <2> QED  BY <1>1, <2>0, <2>2, <2>3, <2>5, <2>7, <2>8, LockedStep
<1>10. CASE AwaitReady(c)
  <2>1. process[c].port \in Port /\ Passes(process[c].port, StoreOf[process[c].run])
    BY <1>1, <1>10 DEF AwaitReady, StarterOK, StarterIn
  <2>2. CASE uiState' = Nobody /\ EndUi(c, "refused") /\ UNCHANGED <<child, listener>>
    <3>1. HostTypeOK' /\ ListenerOK' /\ StateFileOK'
      BY <1>1, <2>2 DEF HostTypeOK, ListenerOK, StateFileOK
    <3> QED  BY <1>3, <2>2, <3>1
  <2>3. CASE uiState' = Announced(c, TRUE) /\ EndUi(c, "ready") /\ UNCHANGED <<child, listener>>
    <3>1. uiState' \in [port : Port, store : Store, ready : BOOLEAN]
      BY <1>1, <2>1, <2>3 DEF Announced
    <3>2. HostTypeOK' /\ ListenerOK' /\ StateFileOK'
      BY <1>1, <2>1, <2>3, <3>1 DEF HostTypeOK, ListenerOK, StateFileOK, Announced, Passes
    <3> QED  BY <1>3, <2>3, <3>2
  <2>4. CASE Gone(c) /\ uiState' = Nobody /\ EndUi(c, "refused")
    <3>1. HostTypeOK' /\ ListenerOK' /\ StateFileOK' /\ \A d \in Party \ {c} : child'[d] = child[d]
      BY <1>1, <2>4, GoneFrees DEF HostTypeOK, StateFileOK
    <3> QED  BY <1>3, <2>4, <3>1
  <2> QED  BY <1>10, <2>2, <2>3, <2>4 DEF AwaitReady
<1> QED  BY <1>5, <1>6, <1>7, <1>8, <1>9, <1>10

\* What happens on the host while every process and the state file stay.
LEMMA HostStep ==
    ASSUME WorkbenchInv, UNCHANGED <<manifest, process, traces, reports, uiState, startLock>>,
           HostTypeOK', ListenerOK', StateFileOK',
           \A c \in Party : /\ child'[c].port = child[c].port /\ child'[c].store = child[c].store
                            /\ child[c].state = "none" => child'[c].state = "none",
           \A c \in Party : process[c].pc \in {"announce", "wait"} =>
               Passes(process[c].port, StoreOf[process[c].run])'
    PROVE  WorkbenchInv'
<1>1. WorkbenchTypeOK' /\ \A r \in DebugRun : RunOK(r)'
  BY DEF WorkbenchInv, WorkbenchTypeOK, RunOK
<1>2. \A c \in Party : StarterOK(c)'
  <2> SUFFICES ASSUME NEW c \in Party PROVE StarterOK(c)'
    OBVIOUS
  <2>1. StarterOK(c)
    BY DEF WorkbenchInv
  <2>2. process[c].pc \in {"announce", "wait"} =>
            Passes(process[c].port, StoreOf[process[c].run])'
    OBVIOUS
  <2> QED  BY <2>1, <2>2 DEF StarterOK, StarterIn
<1> QED  BY <1>1, <1>2 DEF WorkbenchInv

\* A server fails or exits; a stranger comes or leaves.
LEMMA HostKeeps ==
    ASSUME WorkbenchInv,
           \/ \E c \in Party : ServerFails(c) \/ ServerExits(c)
           \/ \E p \in Port : StrangerComes(p) \/ StrangerLeaves(p)
    PROVE  WorkbenchInv'
<1>1. /\ UNCHANGED <<manifest, process, traces, reports, uiState, startLock>>
      /\ HostTypeOK /\ ListenerOK /\ StateFileOK
  BY DEF WorkbenchInv, WorkbenchTypeOK, ServerFails, ServerExits, StrangerComes, StrangerLeaves
<1>2. /\ Frees /\ HostTypeOK' /\ ListenerOK'
      /\ \A c \in Party : /\ child'[c].port = child[c].port /\ child'[c].store = child[c].store
                          /\ child[c].state = "none" => child'[c].state = "none"
  <2>1. CASE \E c \in Party : ServerFails(c) \/ ServerExits(c)
    <3>1. PICK c \in Party : Gone(c) /\ child[c].state # "none"
      BY <2>1 DEF ServerFails, ServerExits
    <3> QED  BY <1>1, <3>1, GoneFrees DEF HostTypeOK
  <2>2. CASE \E p \in Port : StrangerComes(p) \/ StrangerLeaves(p)
    <3>1. /\ child' = child /\ listener \in [Port -> Party \cup {Nobody, Stranger}]
          /\ \E p \in Port, who \in {Nobody, Stranger} : listener' = [listener EXCEPT ![p] = who]
      BY <1>1, <2>2 DEF StrangerComes, StrangerLeaves, HostTypeOK
    <3>2. /\ listener' \in [Port -> Party \cup {Nobody, Stranger}]
          /\ \A q \in Port : listener'[q] = listener[q] \/ listener'[q] \in {Nobody, Stranger}
      BY <3>1
    <3>3. Frees
      BY <3>1, <3>2, WorkbenchAssumption DEF Frees, Party
    <3>4. HostTypeOK' /\ ListenerOK'
      BY <1>1, <3>1, <3>2, <3>3 DEF HostTypeOK, ListenerOK, Frees
    <3> QED  BY <3>1, <3>3, <3>4
  <2> QED  BY <2>1, <2>2
<1>3. StateFileOK'
  <2>1. uiState # Nobody => uiState.port \in Port
    BY <1>1 DEF HostTypeOK
  <2>2. ASSUME uiState # Nobody PROVE Passes(uiState.port, uiState.store)'
    <3>1. Passes(uiState.port, uiState.store)
      BY <1>1, <2>2 DEF StateFileOK
    <3> QED  BY <1>1, <1>2, <2>1, <2>2, <3>1 DEF Frees, Passes
  <2> QED  BY <1>1, <2>2 DEF StateFileOK
<1>4. \A c \in Party : process[c].pc \in {"announce", "wait"} =>
          Passes(process[c].port, StoreOf[process[c].run])'
  <2> SUFFICES ASSUME NEW c \in Party, process[c].pc \in {"announce", "wait"}
               PROVE  Passes(process[c].port, StoreOf[process[c].run])'
    OBVIOUS
  <2>1. process[c].port \in Port /\ Passes(process[c].port, StoreOf[process[c].run])
    BY DEF WorkbenchInv, StarterOK, StarterIn
  <2> QED  BY <1>1, <1>2, <2>1 DEF Frees, Passes
<1> QED  BY <1>1, <1>2, <1>3, <1>4, HostStep

\* A server binds its port. If its starter still holds the lock the state file
\* names it, or nothing; if not, it is late.
LEMMA ServerUpKeeps ==
    ASSUME WorkbenchInv, NEW c \in Party, ServerUp(c)
    PROVE  WorkbenchInv'
<1> DEFINE p == child[c].port
           new == [child[c] EXCEPT !.state = IF startLock = c THEN "serving" ELSE "late"]
<1>1. /\ UNCHANGED <<manifest, process, traces, reports, uiState, startLock>>
      /\ HostTypeOK /\ ListenerOK /\ StateFileOK /\ StarterOK(c)
      /\ child[c].state = "starting" /\ listener[p] = Nobody
      /\ child' = [child EXCEPT ![c] = new] /\ listener' = [listener EXCEPT ![p] = c]
  BY DEF WorkbenchInv, WorkbenchTypeOK, ServerUp
<1>2. /\ new \in ChildState /\ new.port = p /\ new.store = child[c].store
      /\ new.state = IF startLock = c THEN "serving" ELSE "late"
  BY <1>1 DEF HostTypeOK, ChildState
<1> HIDE DEF p, new
<1>3. /\ child' \in [Party -> ChildState] /\ child'[c] = new
      /\ \A d \in Party \ {c} : child'[d] = child[d]
  BY <1>1, <1>2 DEF HostTypeOK
<1>4. /\ listener' \in [Port -> Party \cup {Nobody, Stranger}]
      /\ \A q \in Port : listener'[q] = IF q = p THEN c ELSE listener[q]
  BY <1>1 DEF HostTypeOK
<1>5. \A q \in Port : listener[q] # c
  BY <1>1 DEF ListenerOK
<1>6. HostTypeOK' /\ ListenerOK'
  BY <1>1, <1>2, <1>3, <1>4, <1>5 DEF HostTypeOK, ListenerOK
<1>7. ASSUME NEW q \in Port, NEW s, Passes(q, s),
             startLock = c /\ q = p => s = child[c].store
      PROVE  Passes(q, s)'
  <2>1. CASE q = p
    BY <1>2, <1>3, <1>4, <1>7, <2>1 DEF Passes
  <2>2. CASE q # p
    <3>1. listener'[q] = listener[q] /\ listener[q] # c
      BY <1>4, <1>5, <2>2
    <3>2. listener[q] \in Party => child'[listener[q]] = child[listener[q]]
      BY <1>3, <3>1
    <3> QED  BY <1>7, <3>1, <3>2 DEF Passes
  <2> QED  BY <2>1, <2>2
<1>8. startLock = c =>
          /\ process[c].pc \in {"announce", "wait"}
          /\ process[c].port = p /\ child[c].store = StoreOf[process[c].run]
          /\ uiState # Nobody => uiState.port = p /\ uiState.store = child[c].store
  BY <1>1, <1>2 DEF StarterOK, StarterIn, Locked, Started, p
<1>9. StateFileOK'
  <2>1. ASSUME uiState # Nobody PROVE Passes(uiState.port, uiState.store)'
    <3>1. uiState.port \in Port /\ Passes(uiState.port, uiState.store)
      BY <1>1, <2>1 DEF HostTypeOK, StateFileOK
    <3>2. startLock = c /\ uiState.port = p => uiState.store = child[c].store
      BY <1>8, <2>1
    <3> QED  BY <1>1, <1>7, <3>1, <3>2 DEF Passes
  <2> QED  BY <1>1, <2>1 DEF StateFileOK
<1>10. \A d \in Party : process[d].pc \in {"announce", "wait"} =>
          Passes(process[d].port, StoreOf[process[d].run])'
  <2> SUFFICES ASSUME NEW d \in Party, process[d].pc \in {"announce", "wait"}
               PROVE  Passes(process[d].port, StoreOf[process[d].run])'
    OBVIOUS
  <2>1. /\ process[d].port \in Port /\ Passes(process[d].port, StoreOf[process[d].run])
        /\ startLock = d
    BY DEF WorkbenchInv, StarterOK, StarterIn, Locked
  <2>2. startLock = c => d = c
    BY <2>1
  <2> QED  BY <1>1, <1>7, <1>8, <2>1, <2>2 DEF Passes
<1> QED  BY <1>1, <1>2, <1>3, <1>6, <1>9, <1>10, HostStep DEF p

\* The invariant holds at first and is kept by every step.
LEMMA WorkbenchInvHolds == WorkbenchSpec => []WorkbenchInv
<1>1. WorkbenchInit => WorkbenchInv
  <2> SUFFICES ASSUME WorkbenchInit PROVE WorkbenchInv
    OBVIOUS
  <2>1. Absent \in Manifest /\ NoCall \in ProcessState /\ NoChild \in ChildState
    BY DEF Absent, Manifest, NoCall, ProcessState, NoChild, ChildState, Store
  <2>2. WorkbenchTypeOK
    BY <2>1 DEF WorkbenchInit, WorkbenchTypeOK, HostTypeOK
  <2>3. \A r \in DebugRun : RunOK(r)
    BY DEF WorkbenchInit, RunOK, Absent, NoCall, Party
  <2>4. \A c \in Party : StarterOK(c)
    BY WorkbenchAssumption DEF WorkbenchInit, StarterOK, StarterIn, NoCall, NoChild, Locked, Party
  <2>5. ListenerOK /\ StateFileOK
    BY WorkbenchAssumption DEF WorkbenchInit, ListenerOK, StateFileOK, Party
  <2> QED  BY <2>2, <2>3, <2>4, <2>5 DEF WorkbenchInv
<1>2. WorkbenchInv /\ [WorkbenchNext]_wvars => WorkbenchInv'
  <2>1. ASSUME WorkbenchInv, WorkbenchNext PROVE WorkbenchInv'
    <3>1. CASE \E r \in DebugRun : Execute(r)
      BY <2>1, <3>1, ExecuteKeeps
    <3>2. CASE \E v \in Viewer, r \in DebugRun : OpenRun(v, r)
      BY <2>1, <3>2, UnlockedKeeps DEF Party
    <3>3. CASE \E c \in Party : EnsureUi(c) \/ KillProcess(c)
      BY <2>1, <3>3, UnlockedKeeps, LockedKeeps DEF EnsureUi
    <3>4. CASE \E c \in Party : ServerUp(c) \/ ServerFails(c) \/ ServerExits(c)
      BY <2>1, <3>4, ServerUpKeeps, HostKeeps
    <3>5. CASE \E p \in Port : StrangerComes(p) \/ StrangerLeaves(p)
      BY <2>1, <3>5, HostKeeps
    <3> QED  BY <2>1, <3>1, <3>2, <3>3, <3>4, <3>5 DEF WorkbenchNext
  <2>2. ASSUME WorkbenchInv, UNCHANGED wvars PROVE WorkbenchInv'
    BY <2>2 DEF wvars, uiVars, host, WorkbenchInv, WorkbenchTypeOK, HostTypeOK, RunOK, StarterOK,
       StarterIn, Passes, ListenerOK, StateFileOK
  <2> QED  BY <2>1, <2>2
<1> QED  BY <1>1, <1>2, PTL DEF WorkbenchSpec

\* What a manifest refers to is stored, wherever runs fail or are killed
\* (execute_run).
THEOREM ManifestIsBackedHolds == WorkbenchSpec => []ManifestIsBacked
<1>1. WorkbenchInv => ManifestIsBacked
  BY DEF WorkbenchInv, RunOK, ManifestIsBacked
<1> QED  BY <1>1, WorkbenchInvHolds, PTL

\* A UI that is given out for a run answers; if the workbench started it, and it
\* came up before its starter let go of the lock, it serves the store of that run
\* (_ensure_ui_locked).
THEOREM GivenUiServesRunHolds == WorkbenchSpec => GivenUiServesRun
<1>1. WorkbenchInv /\ [WorkbenchNext]_wvars =>
         [\A c \in Party : process[c].pc # "ready" /\ process'[c].pc = "ready" =>
             LET who == listener[process'[c].port]
             IN  \/ who = Stranger
                 \/ who \in Party /\ child[who].state = "late"
                 \/ who \in Party /\ child[who].store = StoreOf[process[c].run]]_wvars
  <2> SUFFICES ASSUME WorkbenchInv, WorkbenchNext, NEW c \in Party,
                      process[c].pc # "ready", process'[c].pc = "ready"
               PROVE  LET who == listener[process'[c].port]
                      IN  \/ who = Stranger
                          \/ who \in Party /\ child[who].state = "late"
                          \/ who \in Party /\ child[who].store = StoreOf[process[c].run]
    BY DEF wvars
  <2>1. /\ process \in [Party -> ProcessState] /\ process[c] \in ProcessState
        /\ HostTypeOK /\ ListenerOK /\ StateFileOK /\ StarterOK(c) /\ DebugRun \subseteq Party
    BY DEF WorkbenchInv, WorkbenchTypeOK, Party
  <2>2. LoadRun(c) \/ AwaitReady(c)
    <3>1. ASSUME NEW d \in Party, EnsureUi(d) PROVE d = c /\ (LoadRun(c) \/ AwaitReady(c))
      <4>1. CASE TakeStartLock(d) \/ LookUp(d) \/ LoadFails(d)
        BY <2>1, <4>1 DEF ProcessState, TakeStartLock, LookUp, LoadFails, EndUi, GoOn
      <4>2. CASE Spawn(d) \/ Announce(d)
        BY <2>1, <4>2, ZenonT(30) DEF ProcessState, Spawn, Announce, EndUi, GoOn
      <4>3. CASE LeaveUi(d)
        BY <2>1, <4>3 DEF ProcessState, LeaveUi, NoCall
      <4>4. CASE LoadRun(d)
        <5>1. d # c => process'[c] = process[c]
          BY <2>1, <4>4 DEF ProcessState, LoadRun, Reuse, GoOn
        <5> QED  BY <4>4, <5>1
      <4>5. CASE AwaitReady(d)
        <5>1. d # c => process'[c] = process[c]
          BY <2>1, <4>5 DEF ProcessState, AwaitReady, EndUi, GoOn
        <5> QED  BY <4>5, <5>1
      <4> QED  BY <3>1, <4>1, <4>2, <4>3, <4>4, <4>5 DEF EnsureUi
    <3>3. ASSUME NEW r \in DebugRun, Execute(r) PROVE FALSE
      <4>1. CASE Create(r) \/ Plan(r) \/ SaveTrace(r) \/ BindSession(r)
        BY <2>1, <4>1 DEF ProcessState, Create, Plan, SaveTrace, BindSession, GoOn
      <4>2. CASE UpdateRun(r) \/ FailRun(r) \/ SaveReport(r) \/ Complete(r)
        BY <2>1, <4>2 DEF ProcessState, UpdateRun, FailRun, SaveReport, Complete, GoOn
      <4> QED  BY <3>3, <4>1, <4>2 DEF Execute
    <3>4. \A v \in Viewer, r \in DebugRun : ~OpenRun(v, r)
      BY <2>1 DEF ProcessState, OpenRun
    <3>5. \A d \in Party : ~KillProcess(d)
      BY <2>1 DEF KillProcess, NoCall
    <3>6. /\ \A d \in Party : ~(ServerUp(d) \/ ServerFails(d) \/ ServerExits(d))
          /\ \A p \in Port : ~(StrangerComes(p) \/ StrangerLeaves(p))
      BY <2>1 DEF ServerUp, ServerFails, ServerExits, StrangerComes, StrangerLeaves
    <3> QED  BY <3>1, <3>3, <3>4, <3>5, <3>6 DEF WorkbenchNext
  <2>3. ASSUME NEW p \in Port, NEW s, listener[p] # Nobody, Passes(p, s)
        PROVE  \/ listener[p] = Stranger
               \/ listener[p] \in Party /\ child[listener[p]].state = "late"
               \/ listener[p] \in Party /\ child[listener[p]].store = s
    BY <2>1, <2>3 DEF HostTypeOK, ListenerOK, Passes
  <2>4. CASE LoadRun(c)
    <3>1. ~GoOn(c, "spawn")
      BY <2>1 DEF ProcessState, GoOn
    <3>2. /\ uiState # Nobody /\ uiState.store = StoreOf[process[c].run]
          /\ listener[uiState.port] # Nobody /\ process'[c].port = uiState.port
      BY <2>1, <2>4, <3>1 DEF ProcessState, LoadRun, Reuse
    <3>3. uiState.port \in Port /\ Passes(uiState.port, StoreOf[process[c].run])
      BY <2>1, <3>2 DEF HostTypeOK, StateFileOK
    <3> QED  BY <2>3, <3>2, <3>3
  <2>5. CASE AwaitReady(c)
    <3>1. ~EndUi(c, "refused")
      BY <2>1 DEF ProcessState, EndUi, GoOn
    <3>2. listener[process[c].port] # Nobody /\ EndUi(c, "ready")
      BY <2>5, <3>1 DEF AwaitReady
    <3>3. process'[c].port = process[c].port
      BY <2>1, <3>2 DEF ProcessState, EndUi, GoOn
    <3>4. process[c].port \in Port /\ Passes(process[c].port, StoreOf[process[c].run])
      BY <2>1, <2>5 DEF AwaitReady, StarterOK, StarterIn
    <3> QED  BY <2>3, <3>2, <3>3, <3>4
  <2> QED  BY <2>2, <2>4, <2>5
<1> QED  BY <1>1, WorkbenchInvHolds, PTL DEF WorkbenchSpec, GivenUiServesRun
=============================================================================
