------------------------ MODULE BrowserSessionProofs ------------------------
(***************************************************************************)
(* Theorems about a browser session, for all sets of tabs, origins and     *)
(* grants and all bounds on queue and changes.                             *)
(***************************************************************************)
EXTENDS BrowserSession, SequenceTheorems, TLAPS

\* A token is a binding made on some page; how far revisions count is not needed.
SomeToken == [tab : Targets, revision : Nat, page : Pages \cup {None}]

SomeRequest ==
  [method : {"start", "stop", "borrow", "return", "observe", "act"},
   tab : Targets, grant : Grants \cup {0}, token : SomeToken \cup {None},
   own : BOOLEAN]

Stages == {"none", "plain", "bind", "observe", "act", "verify"}

\* The types the argument needs.
Types ==
  /\ DispatcherTypeOK
  /\ stage \in Stages
  /\ reply # None => reply.page \in Pages \cup {None}
  /\ seen \in [Targets -> [revision : Nat, page : Pages \cup {None}]]
  /\ binding \in SomeToken \cup {None}
  /\ queue \in Seq(SomeRequest)
  /\ serving \in {"none", "checked", "done"}
  /\ serving # "none" => queue # <<>>
  /\ answer # None => answer.page \in Pages \cup {None}
  /\ page \in [Targets -> Pages]
  /\ IsABag(uses)
  /\ IsABag(acted)

\* The caller waits for the last request of the queue, and when it has its
\* answer the queue is empty: requests are served in their order.
Waiting ==
  /\ stage # "none" <=> phase = "provider"
  /\ reply # None => phase = "provider" /\ queue = <<>>
  /\ \A i \in 1..Len(queue) :
       queue[i].own => phase = "provider" /\ i = Len(queue)

\* The stage of the provider fits the call, and only approved calls have a grant.
CallFits ==
  /\ phase # "idle" => call \in Calls
  /\ call.action \in Approved <=> call.grant # 0
  /\ phase \in {"admitted", "acquired"} => call.action # "bind"
  /\ stage = "bind" => ~resource /\ secrets = {} /\ call.grant = 0
  /\ stage \in {"observe", "act", "verify"} => call.action = "execute"
  /\ stage = "plain" => call.action \notin {"execute", "bind"}

\* What the caller waits for is what its call is about.
OwnRequest ==
  \A i \in 1..Len(queue) : queue[i].own =>
    /\ stage \in {"bind", "observe", "verify"} => queue[i].method = "observe"
    /\ stage = "act" => queue[i].method = "act" /\ queue[i].grant = call.grant
    /\ stage = "plain" => /\ queue[i].method = call.action
                          /\ queue[i].grant = call.grant

\* An action is sent when the queue is empty.
ActIsFirst ==
  /\ \A i \in 1..Len(queue) : queue[i].method = "act" => i = 1
  /\ stage = "act" => \A i \in 1..Len(queue) : queue[i].own
  /\ serving = "checked" => queue[1].method = "act"

\* Request i of the queue has had no effect yet.
Pending(i) == i > 1 \/ serving # "done"

\* A token in the queue is in the ledger and has not been acted on before.
TokensAreFresh ==
  /\ BagToSet(acted) \subseteq attempted
  /\ \A i \in 1..Len(queue) : queue[i].method = "act" /\ queue[i].token # None =>
       /\ queue[i].token \in attempted
       /\ Pending(i) => queue[i].token \notin BagToSet(acted)

\* A grant is spent, and then travels in one place: in the call, in one request
\* of the queue, or in what was done with it.
GrantsTravelOnce ==
  /\ BagToSet(uses) \subseteq consumed
  /\ call.grant # 0 => call.grant \in consumed
  /\ call.grant # 0 /\ (phase \in {"admitted", "acquired"} \/ stage = "observe") =>
       /\ call.grant \notin BagToSet(uses)
       /\ \A i \in 1..Len(queue) : queue[i].grant # call.grant
  /\ \A i \in 1..Len(queue) : queue[i].method \in {"borrow", "act"} =>
       queue[i].grant # 0
  /\ \A i \in 1..Len(queue) : queue[i].grant # 0 =>
       /\ queue[i].grant \in consumed
       /\ Pending(i) => queue[i].grant \notin BagToSet(uses)
  /\ \A i, j \in 1..Len(queue) : i # j /\ queue[i].grant # 0 =>
       queue[i].grant # queue[j].grant

\* A good answer to a borrow or an action comes after its effect.
AnswersTell ==
  /\ serving = "done" /\ answer.ok /\ queue[1].method \in {"borrow", "act"} =>
       queue[1].grant \in BagToSet(uses)
  /\ (reply # None /\ reply.ok /\ stage \in {"act", "plain"} /\ call.grant # 0) =>
       call.grant \in BagToSet(uses)
  /\ stage = "verify" => call.grant \in BagToSet(uses)

\* The inductive invariant.
SessionInv ==
  /\ Types
  /\ Waiting
  /\ CallFits
  /\ OwnRequest
  /\ ActIsFirst
  /\ TokensAreFresh
  /\ GrantsTravelOnce
  /\ AnswersTell
  /\ AtMostOnce
  /\ OneUsePerGrant
  /\ ReceiptIsOwn
  /\ GivenBack

-----------------------------------------------------------------------------
(* The queue.                                                              *)

\* The request that is served is the first of the queue, which stays as it is.
LEMMA BeginServesFirst ==
  ASSUME queue \in Seq(SomeRequest), NEW m, Begin(m)
  PROVE  /\ queue' = queue
         /\ Len(queue) \in Nat \ {0}
         /\ Head(queue) = queue[1]
         /\ queue[1].method = m
         /\ serving = "none"
<1>1. PICK i \in DOMAIN queue : i = 1 /\ queue' = Foremost(i)
  BY DEF Begin, First
<1>2. 1 \in 1..Len(queue) /\ Len(queue) \in Nat
  BY <1>1, LenProperties
<1>3. queue[1] \in SomeRequest
  BY <1>2, ElementOfSeq
<1>4. SubSeq(queue, 1, 1 - 1) = <<>>
  BY SubSeqEmpty, <1>2
<1>5. <<queue[1]>> \o <<>> = <<queue[1]>>
  <2>1. <<queue[1]>> \in Seq(SomeRequest)
    BY <1>3
  <2> QED  BY <2>1, ConcatEmptySeq
<1>6. SubSeq(queue, 1, Len(queue)) = <<queue[1]>> \o SubSeq(queue, 1 + 1, Len(queue))
  BY <1>2, SubSeqRecursiveFirst
<1>7. queue' = queue
  BY <1>1, <1>4, <1>5, <1>6, SubSeqFull DEF Foremost
<1>8. Head(queue) = queue[1]
  BY <1>2
<1> QED  BY <1>2, <1>7, <1>8 DEF Begin

\* A request is sent to the end of the queue.
LEMMA SendAppends ==
  ASSUME queue \in Seq(SomeRequest), NEW method, NEW tab, NEW grant, NEW token,
         Send(method, tab, grant, token),
         [method |-> method, tab |-> tab, grant |-> grant, token |-> token,
          own |-> TRUE] \in SomeRequest
  PROVE  /\ queue' \in Seq(SomeRequest)
         /\ Len(queue) \in Nat
         /\ Len(queue') = Len(queue) + 1
         /\ \A i \in 1..Len(queue) : queue'[i] = queue[i]
         /\ queue'[Len(queue')] = [method |-> method, tab |-> tab, grant |-> grant,
                                   token |-> token, own |-> TRUE]
BY AppendProperties, LenProperties DEF Send

-----------------------------------------------------------------------------
(* The dispatcher.                                                         *)

\* Steps of the dispatcher outside the provider: queue and history stay, no
\* grant is in the call that was not before.
LEMMA OutsideKeeps ==
  ASSUME SessionInv, phase # "provider", phase' \in Phases \ {"provider"},
         UNCHANGED <<stage, reply, seen, binding, queue, serving, answer, page,
                     uses, acted, attempted>>,
         DispatcherTypeOK', consumed \subseteq consumed',
         call'.grant # 0 => call' = call \/ call'.grant \in consumed' \ consumed,
         CallFits',
         phase' = "answered" => phase = "answered" /\ call' = call,
         phase' \in {"admitted", "acquired"} =>
           \/ phase \in {"admitted", "acquired"} /\ call' = call
           \/ call'.grant \notin consumed,
         GivenBack'
  PROVE  SessionInv'
<1>1. Types'
  BY DEF SessionInv, Types
<1>2. Waiting' /\ OwnRequest' /\ ActIsFirst'
  BY DEF SessionInv, Waiting, OwnRequest, ActIsFirst, Phases
<1>3. TokensAreFresh' /\ AtMostOnce' /\ OneUsePerGrant'
  BY DEF SessionInv, TokensAreFresh, AtMostOnce, OneUsePerGrant, Pending
<1>4. GrantsTravelOnce'
  BY DEF SessionInv, GrantsTravelOnce, Pending, Waiting
<1>5. AnswersTell' /\ ReceiptIsOwn'
  BY DEF SessionInv, AnswersTell, ReceiptIsOwn, Waiting
<1> QED  BY <1>1, <1>2, <1>3, <1>4, <1>5 DEF SessionInv

\* Which calls exist, and what approvals they carry.
LEMMA CallFields ==
  ASSUME NEW c \in Calls
  PROVE  /\ c.grant \in Grants \cup {0}
         /\ c.secrets \subseteq Secrets
         /\ c.target \in Targets
         /\ c.action \in Actions
BY DEF Calls

\* The ways of the dispatcher from an admitted call to the releases.
LEMMA DispatcherKeeps ==
  ASSUME SessionInv, DispatcherMoves
  PROVE  SessionInv'
<1>0. UNCHANGED <<stage, reply, seen, binding, queue, serving, answer, page,
                  uses, acted, attempted, consumed>>
  BY DEF DispatcherMoves, callerVars, wireVars, workerVars, tabVars, historyVars,
         DispatcherStep, AcquireResource, DenyResource, DenySecret, Record,
         ReleaseResource, ReleaseRaises, Finish, AcquireSecret, ReleaseSecret
<1>1. /\ phase # "provider"
      /\ \/ /\ phase' \in {"acquired", "unwinding"} /\ call' = call
            /\ phase' = "acquired" => phase \in {"admitted", "acquired"}
         \/ phase' = "idle" /\ call' = NoCall
  BY DEF DispatcherMoves, DispatcherStep, AcquireResource, DenyResource, DenySecret,
         Record, ReleaseResource, ReleaseRaises, Finish, AcquireSecret,
         ReleaseSecret, Raise
<1>2. DispatcherTypeOK
  BY DEF SessionInv, Types
<1>3. DispatcherTypeOK'
  <2>1. resource' \in BOOLEAN
    BY <1>2 DEF DispatcherTypeOK, DispatcherMoves, DispatcherStep, AcquireResource,
         DenyResource, DenySecret, Record, ReleaseResource, ReleaseRaises, Finish,
         AcquireSecret, ReleaseSecret
  <2>2. secrets' \subseteq call'.secrets
    BY <1>2 DEF DispatcherTypeOK, DispatcherMoves, DispatcherStep, AcquireResource,
         DenyResource, DenySecret, Record, ReleaseResource, ReleaseRaises, Finish,
         AcquireSecret, ReleaseSecret, NoCall
  <2> QED  BY <1>0, <1>1, <1>2, <2>1, <2>2 DEF DispatcherTypeOK, Phases
<1>4. CallFits'
  <2>1. stage = "none" /\ stage' = "none"
    BY <1>0, <1>1 DEF SessionInv, Waiting, Types, Stages
  <2>2. CASE phase' \in {"acquired", "unwinding"} /\ call' = call
              /\ (phase' = "acquired" => phase \in {"admitted", "acquired"})
    <3>1. phase # "idle"
      BY <2>2, <1>1 DEF DispatcherMoves, DispatcherStep, AcquireResource, DenyResource,
         DenySecret, Record, ReleaseResource, ReleaseRaises, Finish,
         AcquireSecret, ReleaseSecret, Raise
    <3> QED  BY <2>1, <2>2, <3>1 DEF SessionInv, CallFits
  <2>3. CASE phase' = "idle" /\ call' = NoCall
    BY <2>1, <2>3, BrowserAssumption DEF SessionInv, CallFits, NoCall
  <2> QED  BY <1>1, <2>2, <2>3
<1>5. GivenBack'
  <2>1. phase' = "idle" => ~resource' /\ secrets' = {}
    BY <1>1 DEF DispatcherMoves, DispatcherStep, AcquireResource, DenyResource,
         DenySecret, Record, ReleaseResource, ReleaseRaises, Finish,
         AcquireSecret, ReleaseSecret, Raise
  <2> QED  BY <2>1 DEF GivenBack
<1>6. call'.grant # 0 => call' = call
  BY <1>1 DEF NoCall
<1> QED  BY <1>0, <1>1, <1>3, <1>4, <1>5, <1>6, OutsideKeeps DEF Phases

\* A new call, with a grant that nothing has used.
LEMMA CallKeeps ==
  ASSUME SessionInv, NEW c \in Calls, Call(c) \/ UnservedCall(c)
  PROVE  SessionInv'
<1>0. /\ UNCHANGED <<stage, reply, seen, binding, queue, serving, answer, page,
                     uses, acted, attempted, resource, secrets>>
      /\ phase = "idle"
      /\ Presentable(c)
      /\ Consume(c)
      /\ \/ phase' = "admitted" /\ call' = c
         \/ phase' = "idle" /\ call' = call
  BY DEF Call, UnservedCall, Admit, Unserved, callerVars, wireVars, workerVars,
         tabVars, historyVars
<1>1. /\ c.action \in Approved <=> c.grant # 0
      /\ c.grant # 0 => c.grant \in Grants \ consumed /\ c.grant \in consumed'
      /\ consumed \subseteq consumed'
      /\ consumed' \subseteq Grants
  <2>1. 0 \notin Grants /\ consumed \subseteq Grants
    BY DispatcherAssumption DEF Grants, SessionInv, Types, DispatcherTypeOK
  <2>2. CASE c.action \in Approved
    BY <1>0, <2>1, <2>2 DEF Presentable, Consume
  <2>3. CASE c.action \notin Approved
    BY <1>0, <2>1, <2>3 DEF Presentable, Consume
  <2> QED  BY <2>2, <2>3
<1>2. DispatcherTypeOK'
  <2>1. secrets = {}
    BY <1>0 DEF SessionInv, GivenBack
  <2> QED  BY <1>0, <1>1, <2>1 DEF SessionInv, Types, DispatcherTypeOK, Phases
<1>3. CallFits'
  <2>1. c.action # "bind" \/ phase' = "idle"
    BY DEF Call, UnservedCall, Unserved, Admit
  <2> QED  BY <1>0, <1>1, <2>1 DEF SessionInv, CallFits, Waiting
<1>4. GivenBack'
  BY <1>0 DEF SessionInv, GivenBack
<1>5. call'.grant # 0 => call' = call \/ call'.grant \in consumed' \ consumed
  BY <1>0, <1>1
<1>6. phase' = "admitted" => call'.grant \notin consumed
  <2>1. 0 \notin consumed
    BY DispatcherAssumption DEF Grants, SessionInv, Types, DispatcherTypeOK
  <2> QED  BY <1>0, <1>1, <2>1
<1> QED  BY <1>0, <1>1, <1>2, <1>3, <1>4, <1>5, <1>6, OutsideKeeps DEF Phases

-----------------------------------------------------------------------------
(* The provider.                                                           *)

\* BrowserSessionProvider refuses a call before it sends anything.
LEMMA RefusalKeeps ==
  ASSUME SessionInv, ProviderRefuses
  PROVE  SessionInv'
<1>0. /\ UNCHANGED <<stage, reply, seen, binding, queue, serving, answer, page,
                     uses, acted, attempted, call, consumed, resource, secrets>>
      /\ phase = "acquired"
      /\ phase' = "unwinding"
  BY DEF ProviderRefuses, Equipped, callerVars, wireVars, workerVars, tabVars,
         historyVars
<1>1. DispatcherTypeOK'
  BY <1>0 DEF SessionInv, Types, DispatcherTypeOK, Phases
<1>2. CallFits'
  BY <1>0 DEF SessionInv, CallFits
<1>3. GivenBack'
  BY <1>0 DEF GivenBack
<1> QED  BY <1>0, <1>1, <1>2, <1>3, OutsideKeeps DEF Phases

\* The first request of a call, or the caller's own observation: it is the last
\* of the queue, and the caller waited for nothing before.
LEMMA FirstRequestKeeps ==
  ASSUME SessionInv, ProviderStarts \/ \E t \in Targets : Observe(t)
  PROVE  SessionInv'
<1>0. /\ UNCHANGED <<consumed, resource, secrets, seen, attempted, binding, reply,
                     serving, answer, page, uses, acted>>
      /\ phase # "provider"
      /\ phase' = "provider"
  BY DEF ProviderStarts, Equipped, Observe, wireVars, tabVars, historyVars
<1>1. PICK method \in {"start", "stop", "borrow", "return", "observe"},
           tab \in Targets, grant \in Grants \cup {0} :
        /\ Send(method, tab, grant, None)
        /\ \/ /\ phase = "acquired" /\ call' = call
              /\ \/ /\ stage' = "observe" /\ method = "observe" /\ grant = 0
                    /\ call.action = "execute"
                 \/ /\ stage' = "plain" /\ method = call.action
                    /\ grant = call.grant
                    /\ call.action \notin {"execute", "bind"}
           \/ /\ phase = "idle" /\ stage' = "bind" /\ method = "observe" /\ grant = 0
              /\ call'.action = "bind" /\ call'.grant = 0 /\ call'.secrets = {}
              /\ call' \in Calls
  <2>1. CASE ProviderStarts
    <3>1. phase = "acquired" /\ call' = call /\ call \in Calls /\ call.action # "bind"
      BY <2>1 DEF ProviderStarts, Equipped, SessionInv, CallFits
    <3>2. /\ call.action \in {"start", "stop", "borrow", "return", "execute"}
          /\ call.target \in Targets
          /\ call.grant \in Grants \cup {0}
      BY <3>1, CallFields, BrowserAssumption
    <3> QED  BY <2>1, <3>1, <3>2 DEF ProviderStarts
  <2>2. ASSUME NEW t \in Targets, Observe(t)
        PROVE  /\ Send("observe", t, 0, None)
               /\ phase = "idle" /\ stage' = "bind"
               /\ call'.action = "bind" /\ call'.grant = 0 /\ call'.secrets = {}
               /\ call' \in Calls
    BY <2>2, BrowserAssumption DEF Observe, Calls
  <2> QED  BY <2>1, <2>2
<1>2. /\ queue' \in Seq(SomeRequest)
      /\ Len(queue) \in Nat
      /\ Len(queue') = Len(queue) + 1
      /\ \A i \in 1..Len(queue) : queue'[i] = queue[i]
      /\ queue'[Len(queue')] = [method |-> method, tab |-> tab, grant |-> grant,
                                token |-> None, own |-> TRUE]
  <2>1. queue \in Seq(SomeRequest)
    BY DEF SessionInv, Types
  <2>2. [method |-> method, tab |-> tab, grant |-> grant, token |-> None,
         own |-> TRUE] \in SomeRequest
    BY DEF SomeRequest
  <2> QED  BY <1>1, <2>1, <2>2, SendAppends
<1>3. /\ reply = None
      /\ \A i \in 1..Len(queue) : ~queue[i].own
      /\ stage' \in {"observe", "plain", "bind"}
  BY <1>0, <1>1 DEF SessionInv, Waiting
<1>a. \A i \in 1..Len(queue') : i \in 1..Len(queue) \/ i = Len(queue')
  BY <1>2
<1>4. Types'
  <2>1. queue' # <<>>
    BY <1>2
  <2>2. DispatcherTypeOK'
    BY <1>0, <1>1 DEF SessionInv, Types, DispatcherTypeOK, Phases, CallFits, GivenBack
  <2> QED  BY <1>0, <1>2, <1>3, <2>1, <2>2 DEF SessionInv, Types, Stages
<1>5. Waiting'
  BY <1>0, <1>2, <1>3, <1>a DEF SessionInv, Waiting
<1>6. CallFits'
  BY <1>0, <1>1, BrowserAssumption DEF SessionInv, CallFits, GivenBack
<1>7. OwnRequest'
  BY <1>1, <1>2, <1>3, <1>a DEF OwnRequest
<1>b. serving # "none" => 1 \in 1..Len(queue) /\ queue'[1] = queue[1]
  <2>1. serving # "none" => queue # <<>>
    BY DEF SessionInv, Types
  <2> QED  BY <1>2, <2>1, EmptySeq DEF SessionInv, Types
<1>8. ActIsFirst'
  <2>1. \A i \in 1..Len(queue') : queue'[i].method = "act" => i = 1
    BY <1>1, <1>2, <1>a DEF SessionInv, ActIsFirst
  <2>2. serving' = "checked" => queue'[1].method = "act"
    BY <1>0, <1>b DEF SessionInv, ActIsFirst
  <2> QED  BY <1>3, <2>1, <2>2 DEF ActIsFirst
<1>9. TokensAreFresh'
  BY <1>0, <1>1, <1>2, <1>a DEF SessionInv, TokensAreFresh, Pending
<1>c. /\ grant # 0 => /\ grant = call.grant /\ call' = call /\ stage' = "plain"
                       /\ grant \in consumed
                       /\ grant \notin BagToSet(uses)
                       /\ \A i \in 1..Len(queue) : queue[i].grant # grant
      /\ method = "borrow" => grant # 0
  <2>1. grant # 0 => grant = call.grant /\ phase = "acquired" /\ call' = call
                     /\ stage' = "plain"
    BY <1>1
  <2>2. method = "borrow" => grant = call.grant /\ call.action = "borrow"
    BY <1>1
  <2>3. "borrow" \in Approved
    BY BrowserAssumption
  <2> QED  BY <2>1, <2>2, <2>3 DEF SessionInv, GrantsTravelOnce, CallFits
<1>10. GrantsTravelOnce'
  <2>1. /\ BagToSet(uses') \subseteq consumed'
        /\ call'.grant # 0 => call'.grant \in consumed'
    BY <1>0, <1>1 DEF SessionInv, GrantsTravelOnce
  <2>2. call'.grant # 0 /\ stage' = "observe" =>
          /\ call'.grant \notin BagToSet(uses')
          /\ \A i \in 1..Len(queue') : queue'[i].grant # call'.grant
    BY <1>0, <1>1, <1>2, <1>a DEF SessionInv, GrantsTravelOnce
  <2>3. \A i \in 1..Len(queue') : queue'[i].method \in {"borrow", "act"} =>
          queue'[i].grant # 0
    BY <1>1, <1>2, <1>a, <1>c DEF SessionInv, GrantsTravelOnce
  <2>4. \A i \in 1..Len(queue') : queue'[i].grant # 0 =>
          /\ queue'[i].grant \in consumed'
          /\ Pending(i)' => queue'[i].grant \notin BagToSet(uses')
    BY <1>0, <1>2, <1>a, <1>c DEF SessionInv, GrantsTravelOnce, Pending
  <2>5. \A i, j \in 1..Len(queue') : i # j /\ queue'[i].grant # 0 =>
          queue'[i].grant # queue'[j].grant
    BY <1>2, <1>a, <1>c DEF SessionInv, GrantsTravelOnce
  <2>6. phase' \notin {"admitted", "acquired"}
    BY <1>0
  <2> QED  BY <2>1, <2>2, <2>3, <2>4, <2>5, <2>6 DEF GrantsTravelOnce
<1>11. AnswersTell' /\ ReceiptIsOwn'
  <2> QED  BY <1>0, <1>3, <1>b DEF SessionInv, AnswersTell, ReceiptIsOwn
<1>12. AtMostOnce' /\ OneUsePerGrant' /\ GivenBack'
  BY <1>0 DEF SessionInv, AtMostOnce, OneUsePerGrant, GivenBack
<1> QED  BY <1>4, <1>5, <1>6, <1>7, <1>8, <1>9, <1>10, <1>11, <1>12 DEF SessionInv

\* A provider that stops waiting, with an answer or without one: what is still in
\* the queue is nobody's.
LEMMA ProviderEnds ==
  ASSUME SessionInv, phase = "provider", phase' \in {"unwinding", "answered", "idle"},
         stage' = "none", reply' = None,
         queue' \in Seq(SomeRequest), Len(queue') = Len(queue),
         \A i \in 1..Len(queue) :
           /\ queue'[i].method = queue[i].method
           /\ queue'[i].grant = queue[i].grant
           /\ queue'[i].token = queue[i].token
           /\ ~queue'[i].own,
         UNCHANGED <<serving, answer, page, uses, acted, consumed, resource, secrets>>,
         attempted \subseteq attempted',
         seen' \in [Targets -> [revision : Nat, page : Pages \cup {None}]],
         binding' \in SomeToken \cup {None},
         \/ phase' # "idle" /\ call' = call
         \/ phase' = "idle" /\ call' = NoCall /\ stage = "bind",
         phase' = "answered" /\ call.grant # 0 => call.grant \in BagToSet(uses)
  PROVE  SessionInv'
<1>1. call.action \in Approved <=> call.grant # 0
  BY DEF SessionInv, CallFits
<1>2. DispatcherTypeOK'
  <2>1. call' = NoCall => secrets = {}
    BY DEF SessionInv, CallFits, Types, DispatcherTypeOK, NoCall
  <2>2. phase' \in Phases
    BY DEF Phases
  <2>3. secrets' \subseteq call'.secrets
    BY <2>1 DEF SessionInv, Types, DispatcherTypeOK
  <2> QED  BY <2>2, <2>3 DEF SessionInv, Types, DispatcherTypeOK
<1>3. Len(queue) \in Nat /\ queue \in Seq(SomeRequest)
  BY LenProperties DEF SessionInv, Types
<1>4. Types'
  <2>1. serving' # "none" => queue' # <<>>
    BY <1>3, EmptySeq DEF SessionInv, Types
  <2> QED  BY <1>2, <2>1 DEF SessionInv, Types, Stages
<1>5. Waiting'
  BY DEF Waiting
<1>6. CallFits'
  BY <1>1, BrowserAssumption DEF SessionInv, CallFits, NoCall, Waiting
<1>7. OwnRequest'
  BY DEF OwnRequest
<1>8. ActIsFirst'
  <2>1. serving # "none" => 1 \in 1..Len(queue)
    BY <1>3, EmptySeq DEF SessionInv, Types
  <2> QED  BY <2>1 DEF SessionInv, ActIsFirst
<1>9. TokensAreFresh'
  BY DEF SessionInv, TokensAreFresh, Pending
<1>10. GrantsTravelOnce'
  <2>1. call'.grant # 0 => call'.grant \in consumed
    BY DEF SessionInv, GrantsTravelOnce, NoCall
  <2> QED  BY <2>1 DEF SessionInv, GrantsTravelOnce, Pending
<1>11. AnswersTell'
  <2>1. serving # "none" => 1 \in 1..Len(queue)
    BY <1>3, EmptySeq DEF SessionInv, Types
  <2> QED  BY <2>1 DEF SessionInv, AnswersTell
<1>12. ReceiptIsOwn' /\ AtMostOnce' /\ OneUsePerGrant'
  BY DEF SessionInv, ReceiptIsOwn, AtMostOnce, OneUsePerGrant, BagIn
<1>13. GivenBack'
  BY DEF SessionInv, GivenBack, CallFits
<1> QED  BY <1>4, <1>5, <1>6, <1>7, <1>8, <1>9, <1>10, <1>11, <1>12, <1>13
         DEF SessionInv

\* What a provider that has its answer knows.
LEMMA AnswerInHand ==
  ASSUME SessionInv, reply # None
  PROVE  /\ phase = "provider" /\ queue = <<>> /\ Len(queue) = 0
         /\ queue \in Seq(SomeRequest)
         /\ serving = "none"
         /\ call \in Calls /\ call.target \in Targets
         /\ reply.page \in Pages \cup {None}
<1>1. phase = "provider" /\ queue = <<>> /\ serving = "none" /\ call \in Calls
  BY DEF SessionInv, Waiting, Types, CallFits
<1>2. reply.page \in Pages \cup {None}
  BY DEF SessionInv, Types
<1> QED  BY <1>1, <1>2, CallFields, EmptySeq DEF SessionInv, Types

\* What is noted of a page, and bound on it, has its type.
LEMMA NotedType ==
  ASSUME SessionInv, NEW t \in Targets, NEW p \in Pages \cup {None}
  PROVE  /\ [seen EXCEPT ![t] = Noted(t, p)]
              \in [Targets -> [revision : Nat, page : Pages \cup {None}]]
         /\ Observation(t, p) \in SomeToken
<1>1. seen[t] \in [revision : Nat, page : Pages \cup {None}]
  BY DEF SessionInv, Types
<1>2. Noted(t, p) \in [revision : Nat, page : Pages \cup {None}]
  BY <1>1 DEF Noted
<1>3. Noted(t, p).revision \in Nat
  BY <1>2
<1>4. Observation(t, p) \in SomeToken
  BY <1>3 DEF Observation, SomeToken
<1> QED  BY <1>2, <1>4 DEF SessionInv, Types

\* The answers that end the call, or the caller's own observation.
LEMMA AnswerKeeps ==
  ASSUME SessionInv,
         RequestDenied \/ SessionActionDone \/ ActionBound \/ Stale \/ Verified
  PROVE  SessionInv'
<1>1. /\ reply # None /\ reply' = None /\ stage' = "none"
      /\ queue' = queue /\ attempted' = attempted
      /\ UNCHANGED <<serving, answer, page, uses, acted, consumed, resource, secrets>>
  BY DEF RequestDenied, SessionActionDone, ActionBound, Stale, Verified, Answered,
         ProviderRaises, tabVars, historyVars
<1>2. /\ phase = "provider" /\ Len(queue) = 0 /\ queue \in Seq(SomeRequest)
      /\ call.target \in Targets /\ reply.page \in Pages \cup {None}
  BY <1>1, AnswerInHand
<1>3. seen' \in [Targets -> [revision : Nat, page : Pages \cup {None}]]
  <2>1. \/ seen' = seen
        \/ seen' = [seen EXCEPT ![call.target] = Noted(call.target, reply.page)]
    BY DEF RequestDenied, SessionActionDone, ActionBound, Stale, Verified
  <2> QED  BY <1>2, <2>1, NotedType DEF SessionInv, Types
<1>4. binding' \in SomeToken \cup {None}
  <2>1. binding' = binding \/ binding' = Observation(call.target, reply.page)
    BY DEF RequestDenied, SessionActionDone, ActionBound, Stale, Verified
  <2> QED  BY <1>2, <2>1, NotedType DEF SessionInv, Types
<1>5. /\ phase' \in {"unwinding", "answered", "idle"}
      /\ \/ phase' # "idle" /\ call' = call
         \/ phase' = "idle" /\ call' = NoCall /\ stage = "bind"
  BY DEF RequestDenied, SessionActionDone, ActionBound, Stale, Verified, Answered,
         ProviderRaises
<1>6. phase' = "answered" => reply.ok /\ stage \in {"plain", "verify"}
  BY DEF RequestDenied, SessionActionDone, ActionBound, Stale, Verified, Answered,
         ProviderRaises
<1>7. phase' = "answered" /\ call.grant # 0 => call.grant \in BagToSet(uses)
  BY <1>1, <1>6 DEF SessionInv, AnswersTell
<1> QED  BY <1>1, <1>2, <1>3, <1>4, <1>5, <1>7, ProviderEnds

\* The provider goes on to its next request, or the connection is gone.
LEMMA NextRequestKeeps ==
  ASSUME SessionInv, Act \/ Verify
  PROVE  SessionInv'
<1>1. /\ reply # None /\ reply' = None
      /\ attempted \subseteq attempted' /\ binding' = binding
      /\ UNCHANGED <<serving, answer, page, uses, acted, consumed, resource, secrets>>
  BY DEF Act, Verify, Answered, tabVars, historyVars
<1>2. /\ phase = "provider" /\ Len(queue) = 0 /\ queue \in Seq(SomeRequest)
      /\ call.target \in Targets /\ reply.page \in Pages \cup {None}
      /\ call \in Calls /\ serving = "none"
  BY <1>1, AnswerInHand
<1>3. seen' \in [Targets -> [revision : Nat, page : Pages \cup {None}]]
  <2>1. \/ seen' = seen
        \/ seen' = [seen EXCEPT ![call.target] = Noted(call.target, reply.page)]
    BY DEF Act, Verify
  <2> QED  BY <1>2, <2>1, NotedType DEF SessionInv, Types
<1>4. CASE ~linked
  <2>1. queue' = queue /\ ProviderRaises
    BY <1>4 DEF Act, Verify, SendNext
  <2>2. stage # "bind"
    BY DEF Act, Verify, Answered
  <2>3. phase' = "unwinding" /\ call' = call /\ stage' = "none"
    BY <2>1, <2>2 DEF ProviderRaises
  <2>4. binding' \in SomeToken \cup {None}
    BY <1>1 DEF SessionInv, Types
  <2> QED  BY <1>1, <1>2, <1>3, <2>1, <2>3, <2>4, ProviderEnds
<1>5. CASE linked
  <2>1. /\ UNCHANGED <<phase, call>>
        /\ \/ /\ stage = "observe" /\ stage' = "act"
              /\ Send("act", call.target, call.grant, binding)
              /\ attempted' = attempted \cup {binding}
              /\ binding \notin attempted
           \/ /\ stage = "act" /\ stage' = "verify" /\ reply.ok
              /\ Send("observe", call.target, 0, None)
              /\ attempted' = attempted
    BY <1>5 DEF Act, Verify, Answered, SendNext, Revalidated, MayBegin
  <2>2. /\ call.grant \in Grants \cup {0} /\ call.grant # 0
        /\ call.grant \in consumed
    <3>1. "execute" \in Approved
      BY BrowserAssumption
    <3>2. call.action = "execute"
      BY <2>1 DEF SessionInv, CallFits
    <3> QED  BY <1>2, <3>1, <3>2, CallFields DEF SessionInv, CallFits, GrantsTravelOnce
  <2>3. binding \in SomeToken \cup {None}
    BY DEF SessionInv, Types
  <2>4. PICK r \in SomeRequest :
          /\ queue' \in Seq(SomeRequest) /\ Len(queue') = 1 /\ queue'[1] = r
          /\ r.own
          /\ \/ /\ stage = "observe" /\ stage' = "act" /\ r.method = "act"
                /\ r.grant = call.grant /\ r.token = binding
             \/ /\ stage = "act" /\ stage' = "verify" /\ r.method = "observe"
                /\ r.grant = 0 /\ r.token = None
    <3>1. CASE stage = "observe"
      <4> DEFINE r == [method |-> "act", tab |-> call.target, grant |-> call.grant,
                       token |-> binding, own |-> TRUE]
      <4>1. r \in SomeRequest
        BY <1>2, <2>2, <2>3 DEF SomeRequest
      <4> QED  BY <1>2, <2>1, <3>1, <4>1, SendAppends
    <3>2. CASE stage = "act"
      <4> DEFINE r == [method |-> "observe", tab |-> call.target, grant |-> 0,
                       token |-> None, own |-> TRUE]
      <4>1. r \in SomeRequest
        BY <1>2 DEF SomeRequest
      <4> QED  BY <1>2, <2>1, <3>2, <4>1, SendAppends
    <3> QED  BY <2>1, <3>1, <3>2
  <2>5. \A i \in 1..Len(queue') : i = 1 /\ queue'[i] = r
    BY <2>4
  <2>6. Types'
    <3>1. DispatcherTypeOK'
      BY <1>1, <2>1 DEF SessionInv, Types, DispatcherTypeOK
    <3> QED  BY <1>1, <1>2, <1>3, <2>4, <3>1 DEF SessionInv, Types, Stages
  <2>7. Waiting'
    BY <1>1, <1>2, <2>1, <2>4, <2>5 DEF Waiting
  <2>8. CallFits'
    BY <1>1, <2>1 DEF SessionInv, CallFits
  <2>9. OwnRequest'
    BY <2>1, <2>4, <2>5 DEF OwnRequest
  <2>10. ActIsFirst'
    BY <1>1, <1>2, <2>4, <2>5 DEF ActIsFirst
  <2>11. TokensAreFresh'
    BY <1>1, <2>1, <2>4, <2>5 DEF SessionInv, TokensAreFresh
  <2>12. GrantsTravelOnce'
    BY <1>1, <1>2, <2>1, <2>2, <2>4, <2>5 DEF SessionInv, GrantsTravelOnce
  <2>13. AnswersTell' /\ ReceiptIsOwn'
    BY <1>1, <1>2, <2>1, <2>2 DEF SessionInv, AnswersTell, ReceiptIsOwn
  <2>14. AtMostOnce' /\ OneUsePerGrant' /\ GivenBack'
    BY <1>1, <2>1 DEF SessionInv, AtMostOnce, OneUsePerGrant, GivenBack
  <2> QED  BY <2>6, <2>7, <2>8, <2>9, <2>10, <2>11, <2>12, <2>13, <2>14 DEF SessionInv
<1> QED  BY <1>4, <1>5

\* A timeout, after which nobody waits for what is in the queue.
LEMMA TimeoutKeeps ==
  ASSUME SessionInv, RequestTimeout
  PROVE  SessionInv'
<1>1. /\ phase = "provider" /\ reply = None
      /\ UNCHANGED <<seen, attempted, binding, reply, serving, answer, page, uses,
                     acted, consumed, resource, secrets>>
      /\ queue' = Forget(queue)
  BY DEF RequestTimeout, wireVars, tabVars, historyVars
<1>2. /\ queue' \in Seq(SomeRequest)
      /\ Len(queue') = Len(queue)
      /\ \A i \in 1..Len(queue) :
           /\ queue'[i].method = queue[i].method
           /\ queue'[i].grant = queue[i].grant
           /\ queue'[i].token = queue[i].token
           /\ ~queue'[i].own
  <2>1. queue \in Seq(SomeRequest) /\ Len(queue) \in Nat /\ DOMAIN queue = 1..Len(queue)
    BY LenProperties DEF SessionInv, Types
  <2>2. \A i \in 1..Len(queue) : queue[i] \in SomeRequest
    BY <2>1, ElementOfSeq
  <2>3. \A i \in 1..Len(queue) : [queue[i] EXCEPT !.own = FALSE] \in SomeRequest
    BY <2>2 DEF SomeRequest
  <2>4. queue' = [i \in 1..Len(queue) |-> [queue[i] EXCEPT !.own = FALSE]]
    BY <1>1, <2>1 DEF Forget
  <2>5. queue' \in Seq(SomeRequest) /\ Len(queue') = Len(queue)
    BY <2>1, <2>3, <2>4
  <2>6. \A i \in 1..Len(queue) : queue'[i] = [queue[i] EXCEPT !.own = FALSE]
    BY <2>4
  <2> QED  BY <2>2, <2>5, <2>6 DEF SomeRequest
<1>3. /\ stage' = "none"
      /\ phase' \in {"unwinding", "idle"}
      /\ \/ phase' # "idle" /\ call' = call
         \/ phase' = "idle" /\ call' = NoCall /\ stage = "bind"
  BY DEF RequestTimeout, ProviderRaises
<1>4. /\ seen' \in [Targets -> [revision : Nat, page : Pages \cup {None}]]
      /\ binding' \in SomeToken \cup {None}
  BY <1>1 DEF SessionInv, Types
<1> QED  BY <1>1, <1>2, <1>3, <1>4, ProviderEnds

-----------------------------------------------------------------------------
(* Connections and pages.                                                  *)

\* What shortens the queue from its end, takes tokens out of it with the ledger
\* they are in, or changes a page.
LEMMA OutsideWorldKeeps ==
  ASSUME SessionInv,
         queue' \in Seq(SomeRequest), Len(queue') \in 0..Len(queue),
         serving # "none" => Len(queue') # 0,
         \A i \in 1..Len(queue') :
           /\ queue'[i].method = queue[i].method
           /\ queue'[i].grant = queue[i].grant
           /\ queue'[i].own = queue[i].own
           /\ queue'[i].token = queue[i].token \/ queue'[i].token = None,
         UNCHANGED <<phase, call, consumed, resource, secrets, stage, binding, reply,
                     serving, answer, uses>>,
         seen' \in [Targets -> [revision : Nat, page : Pages \cup {None}]],
         page' \in [Targets -> Pages],
         \/ UNCHANGED <<attempted, acted>>
         \/ attempted' = {} /\ acted' = EmptyBag
            /\ \A i \in 1..Len(queue') : queue'[i].token = None
  PROVE  SessionInv'
<1>1. /\ queue \in Seq(SomeRequest) /\ Len(queue) \in Nat
      /\ \A i \in 1..Len(queue') : i \in 1..Len(queue)
  BY LenProperties DEF SessionInv, Types
<1>2. serving # "none" => 1 \in 1..Len(queue')
  BY <1>1
<1>3. /\ IsABag(acted') /\ BagToSet(acted') \subseteq attempted'
      /\ acted' = acted \/ BagToSet(acted') = {}
  <2>1. CASE acted' = EmptyBag
    <3>1. IsABag(EmptyBag) /\ BagToSet(EmptyBag) = {}
      BY DEF IsABag, EmptyBag, SetToBag, BagToSet
    <3> QED  BY <2>1, <3>1
  <2>2. CASE UNCHANGED <<attempted, acted>>
    BY <2>2 DEF SessionInv, Types, TokensAreFresh
  <2> QED  BY <2>1, <2>2
<1>4. Types'
  <2>1. serving' # "none" => queue' # <<>>
    BY <1>2, EmptySeq
  <2>2. DispatcherTypeOK'
    BY DEF SessionInv, Types, DispatcherTypeOK
  <2> QED  BY <1>3, <2>1, <2>2 DEF SessionInv, Types
<1>5. Waiting'
  <2>1. reply' # None => queue' = <<>>
    <3>1. reply' # None => Len(queue') = 0
      BY <1>1, EmptySeq DEF SessionInv, Waiting
    <3> QED  BY <3>1, EmptySeq
  <2>2. \A i \in 1..Len(queue') : queue'[i].own => phase' = "provider" /\ i = Len(queue')
    BY <1>1 DEF SessionInv, Waiting
  <2> QED  BY <2>1, <2>2 DEF SessionInv, Waiting
<1>6. CallFits'
  BY DEF SessionInv, CallFits
<1>7. OwnRequest'
  BY <1>1 DEF SessionInv, OwnRequest
<1>8. ActIsFirst'
  BY <1>1, <1>2 DEF SessionInv, ActIsFirst
<1>9. TokensAreFresh'
  BY <1>1, <1>3 DEF SessionInv, TokensAreFresh, Pending
<1>10. GrantsTravelOnce'
  BY <1>1 DEF SessionInv, GrantsTravelOnce, Pending
<1>11. AnswersTell' /\ ReceiptIsOwn' /\ OneUsePerGrant' /\ GivenBack'
  BY <1>2 DEF SessionInv, AnswersTell, ReceiptIsOwn, OneUsePerGrant, GivenBack
<1>12. AtMostOnce'
  BY <1>3 DEF SessionInv, AtMostOnce
<1> QED  BY <1>4, <1>5, <1>6, <1>7, <1>8, <1>9, <1>10, <1>11, <1>12 DEF SessionInv

\* A new bridge and a new provider.
LEMMA RenewKeeps ==
  ASSUME SessionInv, Renew
  PROVE  SessionInv'
<1>1. /\ UNCHANGED <<phase, call, consumed, resource, secrets, stage, binding, reply,
                     serving, answer, uses, page>>
      /\ attempted' = {} /\ acted' = EmptyBag
      /\ seen' = [t \in Targets |-> [revision |-> 0, page |-> None]]
  BY DEF Renew, dispatcherVars, tabVars
<1>2. /\ queue' \in Seq(SomeRequest)
      /\ Len(queue') = Len(queue)
      /\ Len(queue) \in Nat
      /\ \A i \in 1..Len(queue) :
           /\ queue'[i].method = queue[i].method
           /\ queue'[i].grant = queue[i].grant
           /\ queue'[i].own = queue[i].own
           /\ queue'[i].token = None
  <2>1. queue \in Seq(SomeRequest) /\ Len(queue) \in Nat /\ DOMAIN queue = 1..Len(queue)
    BY LenProperties DEF SessionInv, Types
  <2>2. \A i \in 1..Len(queue) : queue[i] \in SomeRequest
    BY <2>1, ElementOfSeq
  <2>3. \A i \in 1..Len(queue) : [queue[i] EXCEPT !.token = None] \in SomeRequest
    BY <2>2 DEF SomeRequest
  <2>4. queue' = [i \in 1..Len(queue) |-> [queue[i] EXCEPT !.token = None]]
    BY <2>1 DEF Renew
  <2>5. queue' \in Seq(SomeRequest) /\ Len(queue') = Len(queue)
    BY <2>1, <2>3, <2>4
  <2>6. \A i \in 1..Len(queue) : queue'[i] = [queue[i] EXCEPT !.token = None]
    BY <2>4
  <2> QED  BY <2>1, <2>2, <2>5, <2>6 DEF SomeRequest
<1>3. seen' \in [Targets -> [revision : Nat, page : Pages \cup {None}]]
  BY <1>1
<1>4. serving # "none" => Len(queue') # 0
  BY <1>2, EmptySeq DEF SessionInv, Types
<1>5. page' \in [Targets -> Pages]
  BY <1>1 DEF SessionInv, Types
<1> QED  BY <1>1, <1>2, <1>3, <1>4, <1>5, OutsideWorldKeeps

\* The connection goes, with the end of the queue.
LEMMA DisconnectKeeps ==
  ASSUME SessionInv, Disconnect
  PROVE  SessionInv'
<1>1. /\ UNCHANGED <<phase, call, consumed, resource, secrets, stage, seen, attempted,
                     binding, reply, serving, answer, uses, acted, page>>
      /\ \E n \in (IF serving = "none" THEN 0 ELSE 1)..Len(queue) :
           queue' = SubSeq(queue, 1, n)
  BY DEF Disconnect, dispatcherVars, callerVars, tabVars, historyVars
<1>2. PICK n \in (IF serving = "none" THEN 0 ELSE 1)..Len(queue) :
        queue' = SubSeq(queue, 1, n)
  BY <1>1
<1>3. queue \in Seq(SomeRequest) /\ Len(queue) \in Nat
  BY LenProperties DEF SessionInv, Types
<1>4. n \in 0..Len(queue) /\ (serving # "none" => n # 0)
  BY <1>2, <1>3
<1>5. \A i \in 1..n : queue[i] \in SomeRequest
  BY <1>3, <1>4, ElementOfSeq
<1>6. /\ queue' \in Seq(SomeRequest)
      /\ Len(queue') = n
      /\ \A i \in 1..n : queue'[i] = queue[i]
  BY <1>2, <1>3, <1>4, <1>5, SubSeqProperties
<1>7. /\ seen' \in [Targets -> [revision : Nat, page : Pages \cup {None}]]
      /\ page' \in [Targets -> Pages]
  BY <1>1 DEF SessionInv, Types
<1> QED  BY <1>1, <1>4, <1>6, <1>7, OutsideWorldKeeps

\* A page changes, or a borrow ends.
LEMMA TabsKeep ==
  ASSUME SessionInv,
         \/ \E t \in Targets, p \in Pages : Navigate(t, p)
         \/ \E t \in Targets : Expire(t)
  PROVE  SessionInv'
<1>1. /\ UNCHANGED <<phase, call, consumed, resource, secrets, stage, seen, attempted,
                     binding, reply, queue, serving, answer, uses, acted>>
      /\ page' \in [Targets -> Pages]
  BY DEF Navigate, Expire, Change, SessionInv, Types, dispatcherVars, callerVars,
         wireVars, workerVars, historyVars
<1>2. queue \in Seq(SomeRequest) /\ Len(queue) \in Nat /\ (serving # "none" => Len(queue) # 0)
  BY LenProperties, EmptySeq DEF SessionInv, Types
<1>3. seen' \in [Targets -> [revision : Nat, page : Pages \cup {None}]]
  BY <1>1 DEF SessionInv, Types
<1> QED  BY <1>1, <1>2, <1>3, OutsideWorldKeeps

-----------------------------------------------------------------------------
(* The service worker.                                                     *)

\* What is in a bag B, and e once more.
With(B, e) == B (+) SetToBag({e})

\* A grant or a token that is used for the first time has been used once.
LEMMA FirstUse ==
  ASSUME NEW B, IsABag(B), NEW e, e \notin BagToSet(B)
  PROVE  /\ IsABag(With(B, e))
         /\ BagToSet(With(B, e)) = BagToSet(B) \cup {e}
         /\ With(B, e)[e] = 1
         /\ \A x \in BagToSet(B) : With(B, e)[x] = B[x]
<1> DEFINE C == With(B, e)
<1>1. C = [x \in DOMAIN B \cup {e} |->
             (IF x \in DOMAIN B THEN B[x] ELSE 0) + (IF x \in {e} THEN 1 ELSE 0)]
  BY DEF SetToBag, (+), With
<1>2. \A x \in DOMAIN B : B[x] \in Nat /\ B[x] > 0
  BY DEF IsABag
<1>3. DOMAIN C = DOMAIN B \cup {e} /\ e \notin DOMAIN B
  BY <1>1 DEF BagToSet
<1>4. C[e] = 1
  BY <1>1, <1>3
<1>5. \A x \in DOMAIN B : C[x] = B[x]
  BY <1>1, <1>2, <1>3
<1>6. IsABag(C)
  <2>1. \A x \in DOMAIN C : C[x] \in {n \in Nat : n > 0}
    BY <1>2, <1>3, <1>4, <1>5
  <2>2. C = [x \in DOMAIN C |-> C[x]]
    BY <1>1
  <2> QED  BY <2>1, <2>2 DEF IsABag
<1> HIDE DEF C
<1>7. BagToSet(C) = BagToSet(B) \cup {e}
  BY <1>3 DEF BagToSet
<1>8. \A x \in BagToSet(B) : C[x] = B[x]
  BY <1>5 DEF BagToSet
<1> QED  BY <1>4, <1>6, <1>7, <1>8 DEF C

\* A request is checked, or answered without an effect.
LEMMA ServedWithoutEffect ==
  ASSUME SessionInv, queue' = queue, queue # <<>>, serving # "done",
         serving' \in {"checked", "done"},
         answer' # None => answer'.page \in Pages \cup {None},
         serving' = "checked" => queue[1].method = "act",
         serving' = "done" /\ answer'.ok => queue[1].method \notin {"borrow", "act"},
         UNCHANGED <<phase, call, consumed, resource, secrets, stage, seen, attempted,
                     binding, reply, uses, acted, page>>
  PROVE  SessionInv'
<1>1. Types'
  BY DEF SessionInv, Types, DispatcherTypeOK
<1>2. Waiting' /\ CallFits' /\ OwnRequest' /\ ActIsFirst'
  BY DEF SessionInv, Waiting, CallFits, OwnRequest, ActIsFirst
<1>3. TokensAreFresh' /\ GrantsTravelOnce'
  BY DEF SessionInv, TokensAreFresh, GrantsTravelOnce, Pending
<1>4. AnswersTell' /\ ReceiptIsOwn'
  BY DEF SessionInv, AnswersTell, ReceiptIsOwn
<1>5. AtMostOnce' /\ OneUsePerGrant' /\ GivenBack'
  BY DEF SessionInv, AtMostOnce, OneUsePerGrant, GivenBack
<1> QED  BY <1>1, <1>2, <1>3, <1>4, <1>5 DEF SessionInv

\* A borrow or an effect on a page: the first that its grant, and its token, are
\* used for.
LEMMA ServedWithEffect ==
  ASSUME SessionInv, queue' = queue, queue # <<>>, serving # "done",
         serving' = "done", answer'.page \in Pages \cup {None},
         queue[1].method \in {"borrow", "act"},
         uses' = uses (+) SetToBag({queue[1].grant}),
         \/ acted' = acted
         \/ /\ queue[1].method = "act" /\ queue[1].token # None
            /\ acted' = acted (+) SetToBag({queue[1].token}),
         page' \in [Targets -> Pages],
         UNCHANGED <<phase, call, consumed, resource, secrets, stage, seen, attempted,
                     binding, reply>>
  PROVE  SessionInv'
<1> DEFINE g == queue[1].grant
           k == queue[1].token
<1>1. /\ queue \in Seq(SomeRequest) /\ Len(queue) \in Nat /\ 1 \in 1..Len(queue)
  BY LenProperties, EmptySeq DEF SessionInv, Types
<1>2. /\ g # 0 /\ g \in consumed /\ g \notin BagToSet(uses)
      /\ \A i \in 1..Len(queue) : i # 1 => queue[i].grant # g
  BY <1>1 DEF SessionInv, GrantsTravelOnce, Pending
<1>3. /\ IsABag(uses') /\ BagToSet(uses') = BagToSet(uses) \cup {g}
      /\ uses'[g] = 1 /\ \A x \in BagToSet(uses) : uses'[x] = uses[x]
  <2>1. IsABag(uses)
    BY DEF SessionInv, Types
  <2>2. uses' = With(uses, g)
    BY DEF With
  <2>3. g \notin BagToSet(uses)
    BY <1>2
  <2> HIDE DEF g
  <2>4. /\ IsABag(With(uses, g))
        /\ BagToSet(With(uses, g)) = BagToSet(uses) \cup {g}
        /\ With(uses, g)[g] = 1
        /\ \A x \in BagToSet(uses) : With(uses, g)[x] = uses[x]
    BY <2>1, <2>3, FirstUse
  <2> QED  BY <2>2, <2>4
<1>4. \/ acted' = acted
      \/ /\ queue[1].method = "act" /\ k \in attempted
         /\ IsABag(acted') /\ BagToSet(acted') = BagToSet(acted) \cup {k}
         /\ acted'[k] = 1 /\ \A x \in BagToSet(acted) : acted'[x] = acted[x]
  <2>1. queue[1].method = "act" /\ k # None => k \in attempted /\ k \notin BagToSet(acted)
    BY <1>1 DEF SessionInv, TokensAreFresh, Pending
  <2>2. IsABag(acted)
    BY DEF SessionInv, Types
  <2>3. \/ acted' = acted
        \/ /\ queue[1].method = "act" /\ k # None
           /\ acted' = With(acted, k)
    BY DEF With
  <2> HIDE DEF k
  <2> QED  BY <2>1, <2>2, <2>3, FirstUse
<1>5. Types'
  <2>1. IsABag(acted')
    BY <1>4 DEF SessionInv, Types
  <2> QED  BY <1>3, <2>1 DEF SessionInv, Types, DispatcherTypeOK
<1>6. Waiting' /\ CallFits' /\ OwnRequest' /\ ActIsFirst'
  BY DEF SessionInv, Waiting, CallFits, OwnRequest, ActIsFirst
<1>7. TokensAreFresh'
  <2>1. BagToSet(acted') \subseteq attempted'
    BY <1>4 DEF SessionInv, TokensAreFresh
  <2>2. \A i \in 1..Len(queue') : queue'[i].method = "act" /\ queue'[i].token # None =>
          /\ queue'[i].token \in attempted'
          /\ ~Pending(i)'
    <3>1. \A i \in 1..Len(queue) : queue[i].method = "act" => i = 1
      BY DEF SessionInv, ActIsFirst
    <3>2. ~Pending(1)'
      BY DEF Pending
    <3> QED  BY <3>1, <3>2 DEF SessionInv, TokensAreFresh
  <2> QED  BY <2>1, <2>2 DEF TokensAreFresh
<1>8. GrantsTravelOnce'
  <2>1. /\ BagToSet(uses') \subseteq consumed'
        /\ call'.grant # 0 => call'.grant \in consumed'
    BY <1>2, <1>3 DEF SessionInv, GrantsTravelOnce
  <2>2. call'.grant # 0 /\ (phase' \in {"admitted", "acquired"} \/ stage' = "observe") =>
          /\ call'.grant \notin BagToSet(uses')
          /\ \A i \in 1..Len(queue') : queue'[i].grant # call'.grant
    BY <1>1, <1>3 DEF SessionInv, GrantsTravelOnce
  <2>3. \A i \in 1..Len(queue') : queue'[i].grant # 0 =>
          /\ queue'[i].grant \in consumed'
          /\ Pending(i)' => queue'[i].grant \notin BagToSet(uses')
    <3>1. \A i \in 1..Len(queue) : Pending(i)' => Pending(i) /\ i # 1
      BY <1>1 DEF Pending
    <3> QED  BY <1>2, <1>3, <3>1 DEF SessionInv, GrantsTravelOnce
  <2>4. /\ \A i \in 1..Len(queue') : queue'[i].method \in {"borrow", "act"} =>
             queue'[i].grant # 0
        /\ \A i, j \in 1..Len(queue') : i # j /\ queue'[i].grant # 0 =>
             queue'[i].grant # queue'[j].grant
    BY DEF SessionInv, GrantsTravelOnce
  <2> QED  BY <2>1, <2>2, <2>3, <2>4 DEF GrantsTravelOnce
<1>9. AnswersTell' /\ ReceiptIsOwn'
  BY <1>3 DEF SessionInv, AnswersTell, ReceiptIsOwn, BagIn
<1>10. AtMostOnce' /\ OneUsePerGrant' /\ GivenBack'
  BY <1>3, <1>4 DEF SessionInv, AtMostOnce, OneUsePerGrant, GivenBack
<1> QED  BY <1>5, <1>6, <1>7, <1>8, <1>9, <1>10 DEF SessionInv

\* The requests that the worker starts and, most of them, finishes.
LEMMA BeginKeeps ==
  ASSUME SessionInv,
         \/ SessionStart \/ SessionStop \/ TabBorrow \/ BorrowDenied \/ TabReturn
         \/ PageObserve \/ PageExecute
  PROVE  SessionInv'
<1>0. PICK m \in {"start", "stop", "borrow", "return", "observe", "act"} :
        /\ Begin(m)
        /\ m = "act" <=> PageExecute
        /\ m = "borrow" <=> TabBorrow \/ BorrowDenied
  <2>1. ASSUME NEW m, NEW n, Begin(m), Begin(n)
        PROVE  m = n
    BY <2>1 DEF Begin
  <2>2. \E m \in {"start", "stop", "borrow", "return", "observe", "act"} : Begin(m)
    BY DEF SessionStart, SessionStop, TabBorrow, BorrowDenied, TabReturn, PageObserve,
           PageExecute
  <2>3. PICK m \in {"start", "stop", "borrow", "return", "observe", "act"} : Begin(m)
    BY <2>2
  <2>4. /\ PageExecute => Begin("act")
        /\ TabBorrow \/ BorrowDenied => Begin("borrow")
        /\ \/ Begin("start") \/ Begin("stop") \/ Begin("return") \/ Begin("observe")
           \/ PageExecute \/ TabBorrow \/ BorrowDenied
    BY DEF SessionStart, SessionStop, TabBorrow, BorrowDenied, TabReturn, PageObserve,
           PageExecute
  <2> QED  BY <2>1, <2>3, <2>4
<1>1. queue \in Seq(SomeRequest)
  BY DEF SessionInv, Types
<1>2. /\ queue' = queue /\ Len(queue) \in Nat \ {0} /\ Head(queue) = queue[1]
      /\ queue[1].method = m /\ serving = "none"
  BY <1>0, <1>1, BeginServesFirst
<1>3. queue # <<>>
  BY <1>2, EmptySeq
<1>4. queue[1] \in SomeRequest
  BY <1>1, <1>2, ElementOfSeq
<1>5. /\ UNCHANGED <<phase, call, consumed, resource, secrets, stage, seen, attempted,
                     binding, reply, acted, page>>
  BY DEF SessionStart, SessionStop, TabBorrow, BorrowDenied, TabReturn, PageObserve,
         PageExecute, dispatcherVars, callerVars, wireVars, tabVars, historyVars
<1>6. CASE TabBorrow
  <2>1. /\ serving' = "done" /\ answer' = [ok |-> TRUE, page |-> None]
        /\ uses' = uses (+) SetToBag({queue[1].grant})
    BY <1>2, <1>6 DEF TabBorrow, Done
  <2>2. answer'.page \in Pages \cup {None}
    BY <2>1
  <2>3. queue[1].method = "borrow"
    BY <1>0, <1>2, <1>6
  <2>4. page' \in [Targets -> Pages]
    BY <1>5 DEF SessionInv, Types
  <2> QED  BY <1>2, <1>3, <1>5, <2>1, <2>2, <2>3, <2>4, ServedWithEffect
<1>7. CASE PageExecute
  <2>1. /\ UNCHANGED uses
        /\ \/ serving' = "checked" /\ answer' = answer
           \/ serving' = "done" /\ answer' = [ok |-> FALSE, page |-> None]
    BY <1>7 DEF PageExecute, Done, historyVars
  <2>2. answer' # None => answer'.page \in Pages \cup {None}
    BY <2>1 DEF SessionInv, Types
  <2>3. serving' = "done" => ~answer'.ok
    BY <2>1
  <2> QED  BY <1>0, <1>2, <1>3, <1>5, <1>7, <2>1, <2>2, <2>3, ServedWithoutEffect
<1>8. CASE BorrowDenied
  <2>1. UNCHANGED uses /\ serving' = "done" /\ answer' = [ok |-> FALSE, page |-> None]
    BY <1>8 DEF BorrowDenied, Done, historyVars
  <2>2. answer'.page \in Pages \cup {None}
    BY <2>1
  <2> QED  BY <1>2, <1>3, <1>5, <2>1, <2>2, ServedWithoutEffect
<1>9. CASE SessionStart \/ SessionStop \/ TabReturn \/ PageObserve
  <2>1. UNCHANGED uses /\ serving' = "done"
    BY <1>9 DEF SessionStart, SessionStop, TabReturn, PageObserve, Done, historyVars
  <2>2. answer'.page \in Pages \cup {None}
    <3>1. page \in [Targets -> Pages] /\ queue[1].tab \in Targets
      BY <1>4 DEF SessionInv, Types, SomeRequest
    <3>2. answer'.page = None \/ answer'.page = page[queue[1].tab]
      BY <1>2, <1>9 DEF SessionStart, SessionStop, TabReturn, PageObserve, Done
    <3> QED  BY <3>1, <3>2
  <2>3. queue[1].method \notin {"borrow", "act"}
    <3>1. /\ SessionStart => Begin("start")
          /\ SessionStop => Begin("stop")
          /\ TabReturn => Begin("return")
          /\ PageObserve => Begin("observe")
      BY DEF SessionStart, SessionStop, TabReturn, PageObserve
    <3> QED  BY <1>2, <1>9, <3>1 DEF Begin
  <2> QED  BY <1>2, <1>3, <1>5, <2>1, <2>2, <2>3, ServedWithoutEffect
<1> QED  BY <1>6, <1>7, <1>8, <1>9

\* An action that was checked reaches its page, or finds no target there.
LEMMA ActionKeeps ==
  ASSUME SessionInv, PageEffect \/ TargetMissing
  PROVE  SessionInv'
<1>1. /\ UNCHANGED <<phase, call, consumed, resource, secrets, stage, seen, attempted,
                     binding, reply, queue>>
      /\ serving = "checked" /\ serving' = "done"
      /\ answer'.page \in Pages \cup {None}
  BY DEF PageEffect, TargetMissing, Done, dispatcherVars, callerVars, wireVars
<1>2. queue \in Seq(SomeRequest) /\ queue # <<>> /\ queue[1].method = "act"
  BY <1>1 DEF SessionInv, Types, ActIsFirst
<1>3. Head(queue) = queue[1]
  BY <1>2, EmptySeq
<1>4. CASE PageEffect
  <2>1. /\ uses' = uses (+) SetToBag({queue[1].grant})
        /\ \/ acted' = acted
           \/ /\ queue[1].token # None
              /\ acted' = acted (+) SetToBag({queue[1].token})
    BY <1>3, <1>4 DEF PageEffect
  <2>2. page' \in [Targets -> Pages]
    BY <1>4 DEF PageEffect, Change, SessionInv, Types
  <2> QED  BY <1>1, <1>2, <2>1, <2>2, ServedWithEffect
<1>5. CASE TargetMissing
  <2>1. UNCHANGED <<uses, acted, page>> /\ answer' = [ok |-> FALSE, page |-> None]
    BY <1>5 DEF TargetMissing, Done, tabVars, historyVars
  <2> QED  BY <1>1, <1>2, <2>1, ServedWithoutEffect
<1> QED  BY <1>4, <1>5

\* The answer to the first request goes to the caller who waits for it, if there
\* is one, and the next request is the first.
LEMMA PostKeeps ==
  ASSUME SessionInv, PostReply
  PROVE  SessionInv'
<1>1. /\ UNCHANGED <<phase, call, consumed, resource, secrets, stage, seen, attempted,
                     binding, uses, acted, page>>
      /\ serving = "done" /\ serving' = "none" /\ answer' = None
      /\ queue' = Tail(queue)
  BY DEF PostReply, dispatcherVars, callerVars, tabVars, historyVars
<1>2. queue \in Seq(SomeRequest) /\ queue # <<>>
  BY <1>1 DEF SessionInv, Types
<1>3. /\ Len(queue) \in Nat \ {0}
      /\ queue' \in Seq(SomeRequest)
      /\ Len(queue') = Len(queue) - 1
      /\ \A i \in 1..Len(queue') : queue'[i] = queue[i + 1]
      /\ Head(queue) = queue[1]
  BY <1>1, <1>2, EmptySeq, HeadTailProperties
<1>4. \A i \in 1..Len(queue') : i + 1 \in 1..Len(queue) /\ i + 1 > 1
  BY <1>3
<1>5. reply = None
  BY <1>2 DEF SessionInv, Waiting
<1>6. reply' # None => reply' = answer /\ queue[1].own
  BY <1>3, <1>5 DEF PostReply, Awaited
<1>7. Types'
  <2>1. DispatcherTypeOK'
    BY <1>1 DEF SessionInv, Types, DispatcherTypeOK
  <2>2. reply' # None => reply'.page \in Pages \cup {None}
    BY <1>6 DEF SessionInv, Types
  <2> QED  BY <1>1, <1>3, <2>1, <2>2 DEF SessionInv, Types
<1>8. Waiting'
  <2>1. reply' # None => phase' = "provider" /\ queue' = <<>>
    <3>1. reply' # None => phase = "provider" /\ Len(queue) = 1
      BY <1>3, <1>6 DEF SessionInv, Waiting
    <3> QED  BY <1>1, <1>3, <3>1, EmptySeq
  <2>2. ASSUME NEW i \in 1..Len(queue'), queue'[i].own
        PROVE  phase' = "provider" /\ i = Len(queue')
    <3>1. queue'[i] = queue[i + 1] /\ i + 1 \in 1..Len(queue)
      BY <1>3, <1>4
    <3>2. phase = "provider" /\ i + 1 = Len(queue)
      BY <2>2, <3>1 DEF SessionInv, Waiting
    <3>3. i \in Int
      BY <1>3
    <3>4. i = Len(queue')
      BY <1>3, <3>2, <3>3
    <3> QED  BY <1>1, <3>2, <3>4
  <2> QED  BY <1>1, <2>1, <2>2 DEF SessionInv, Waiting
<1>9. CallFits'
  BY <1>1 DEF SessionInv, CallFits
<1>10. OwnRequest'
  BY <1>1, <1>3, <1>4 DEF SessionInv, OwnRequest
<1>11. ActIsFirst'
  BY <1>1, <1>3, <1>4 DEF SessionInv, ActIsFirst
<1>12. TokensAreFresh'
  BY <1>1, <1>3, <1>4 DEF SessionInv, TokensAreFresh, Pending
<1>13. GrantsTravelOnce'
  <2>1. /\ BagToSet(uses') \subseteq consumed'
        /\ call'.grant # 0 => call'.grant \in consumed'
        /\ call'.grant # 0 /\ (phase' \in {"admitted", "acquired"} \/ stage' = "observe") =>
             /\ call'.grant \notin BagToSet(uses')
             /\ \A i \in 1..Len(queue') : queue'[i].grant # call'.grant
    BY <1>1, <1>3, <1>4 DEF SessionInv, GrantsTravelOnce
  <2>2. \A i \in 1..Len(queue') :
          /\ queue'[i].method \in {"borrow", "act"} => queue'[i].grant # 0
          /\ queue'[i].grant # 0 => /\ queue'[i].grant \in consumed'
                                    /\ queue'[i].grant \notin BagToSet(uses')
    <3> TAKE i \in 1..Len(queue')
    <3>1. queue'[i] = queue[i + 1] /\ i + 1 \in 1..Len(queue) /\ Pending(i + 1)
      BY <1>3, <1>4 DEF Pending
    <3> QED  BY <1>1, <3>1 DEF SessionInv, GrantsTravelOnce
  <2>3. \A i, j \in 1..Len(queue') : i # j => i + 1 # j + 1
    OBVIOUS
  <2>4. \A i, j \in 1..Len(queue') : i # j /\ queue'[i].grant # 0 =>
          queue'[i].grant # queue'[j].grant
    BY <1>3, <1>4, <2>3 DEF SessionInv, GrantsTravelOnce
  <2> QED  BY <2>1, <2>2, <2>4 DEF GrantsTravelOnce
<1>14. AnswersTell'
  <2>1. reply' # None /\ reply'.ok /\ stage' \in {"act", "plain"} /\ call'.grant # 0 =>
          call'.grant \in BagToSet(uses')
    <3> SUFFICES ASSUME reply' # None, reply'.ok, stage' \in {"act", "plain"},
                        call'.grant # 0
                 PROVE  call'.grant \in BagToSet(uses')
      OBVIOUS
    <3>1. 1 \in 1..Len(queue) /\ queue[1].own /\ answer.ok
      BY <1>3, <1>6
    <3>2. queue[1].grant = call.grant
      BY <1>1, <3>1 DEF SessionInv, OwnRequest
    <3>3. queue[1].method \in {"borrow", "act"}
      <4>1. CASE stage = "act"
        BY <3>1, <4>1 DEF SessionInv, OwnRequest
      <4>2. CASE stage = "plain"
        <5>1. call.action \in Approved /\ call.action # "execute"
          BY <1>1, <4>2 DEF SessionInv, CallFits
        <5> QED  BY <3>1, <4>2, <5>1, BrowserAssumption DEF SessionInv, OwnRequest
      <4> QED  BY <1>1, <4>1, <4>2
    <3> QED  BY <1>1, <3>1, <3>2, <3>3 DEF SessionInv, AnswersTell
  <2> QED  BY <1>1, <2>1 DEF SessionInv, AnswersTell
<1>15. ReceiptIsOwn' /\ AtMostOnce' /\ OneUsePerGrant' /\ GivenBack'
  BY <1>1 DEF SessionInv, ReceiptIsOwn, AtMostOnce, OneUsePerGrant, GivenBack
<1> QED  BY <1>7, <1>8, <1>9, <1>10, <1>11, <1>12, <1>13, <1>14, <1>15 DEF SessionInv

-----------------------------------------------------------------------------
(* The specification.                                                      *)

\* At first there is nothing in the queue and nothing has been done.
LEMMA SessionBegins ==
  ASSUME Init
  PROVE  SessionInv
<1>1. IsABag(EmptyBag) /\ BagToSet(EmptyBag) = {}
  BY DEF IsABag, EmptyBag, SetToBag, BagToSet
<1>2. uses = EmptyBag /\ acted = EmptyBag /\ queue = <<>> /\ Len(queue) = 0
  BY EmptySeq DEF Init
<1>3. /\ stage = "none" /\ reply = None /\ binding = None /\ serving = "none"
      /\ answer = None /\ phase = "idle" /\ call = NoCall /\ consumed = {}
      /\ resource = FALSE /\ secrets = {}
  BY DEF Init, DispatcherInit
<1>4. seen \in [Targets -> [revision : Nat, page : Pages \cup {None}]]
  BY DEF Init
<1>5. page \in [Targets -> Pages]
  <2>1. \E p \in Pages : TRUE
    <3>1. PICK o \in Origins, c \in Contents : TRUE
      BY BrowserAssumption
    <3>2. [origin |-> o, content |-> c] \in Pages
      BY DEF Pages
    <3> QED  BY <3>2
  <2>2. (CHOOSE p \in Pages : TRUE) \in Pages
    BY <2>1
  <2> QED  BY <2>2 DEF Init
<1>6. Types
  <2>1. DispatcherTypeOK
    BY <1>3 DEF DispatcherTypeOK, Phases
  <2> QED  BY <1>1, <1>2, <1>3, <1>4, <1>5, <2>1, EmptySeq DEF Types, Stages
<1>7. Waiting /\ OwnRequest /\ ActIsFirst
  BY <1>2, <1>3 DEF Waiting, OwnRequest, ActIsFirst
<1>8. CallFits
  BY <1>3, BrowserAssumption DEF CallFits, NoCall
<1>9. TokensAreFresh /\ GrantsTravelOnce
  BY <1>1, <1>2, <1>3 DEF TokensAreFresh, GrantsTravelOnce, NoCall
<1>10. AnswersTell /\ ReceiptIsOwn /\ GivenBack
  BY <1>3 DEF AnswersTell, ReceiptIsOwn, GivenBack
<1>11. AtMostOnce /\ OneUsePerGrant
  BY <1>1, <1>2 DEF AtMostOnce, OneUsePerGrant
<1> QED  BY <1>6, <1>7, <1>8, <1>9, <1>10, <1>11 DEF SessionInv

\* Every step keeps the invariant.
LEMMA SessionGoesOn ==
  ASSUME SessionInv, [Next]_vars
  PROVE  SessionInv'
<1>1. CASE UNCHANGED vars
  <2>1. UNCHANGED <<phase, call, consumed, resource, secrets, stage, seen, attempted,
                    binding, reply, queue, serving, answer, page, uses, acted>>
    BY <1>1 DEF vars, dispatcherVars, callerVars, wireVars, workerVars, tabVars,
                historyVars
  <2>2. queue \in Seq(SomeRequest) /\ Len(queue) \in Nat
        /\ (serving # "none" => Len(queue) # 0)
    BY LenProperties, EmptySeq DEF SessionInv, Types
  <2>3. /\ seen' \in [Targets -> [revision : Nat, page : Pages \cup {None}]]
        /\ page' \in [Targets -> Pages]
    BY <2>1 DEF SessionInv, Types
  <2> QED  BY <2>1, <2>2, <2>3, OutsideWorldKeeps
<1>2. CASE CallerStep
  BY <1>2, DispatcherKeeps, RefusalKeeps, FirstRequestKeeps, AnswerKeeps,
     NextRequestKeeps, TimeoutKeeps DEF CallerStep
<1>3. CASE WorkerStep
  BY <1>3, BeginKeeps, ActionKeeps, PostKeeps DEF WorkerStep
<1>4. CASE Renew \/ Disconnect
  BY <1>4, RenewKeeps, DisconnectKeeps
<1>5. CASE \E c \in Calls : Call(c) \/ UnservedCall(c)
  BY <1>5, CallKeeps
<1>6. CASE \E t \in Targets : Observe(t) \/ \E p \in Pages : Navigate(t, p)
  BY <1>6, FirstRequestKeeps, TabsKeep
<1>7. CASE \E t \in Targets : Expire(t)
  BY <1>7, TabsKeep
<1> QED  BY <1>1, <1>2, <1>3, <1>4, <1>5, <1>6, <1>7 DEF Next

\* SessionInv holds of every behaviour of calling process and extension.
THEOREM SessionInvariance == Spec => []SessionInv
<1>1. Init => SessionInv
  BY SessionBegins
<1>2. SessionInv /\ [Next]_vars => SessionInv'
  BY SessionGoesOn
<1> QED  BY <1>1, <1>2, PTL DEF Spec

\* After execute_action has revalidated a binding no earlier action of the caller
\* can reach a page before the new one: when the caller has an observation in its
\* hand, the requestSerial chain has nothing left to serve.
THEOREM EffectsAreSeen == Spec => []SeesOwnEffects
<1>1. SessionInv => SeesOwnEffects
  <2>1. SessionInv => DOMAIN queue = 1..Len(queue)
    BY LenProperties DEF SessionInv, Types
  <2> QED  BY <2>1 DEF SessionInv, ActIsFirst, SeesOwnEffects
<1> QED  BY <1>1, SessionInvariance, PTL

\* A bound action reaches its page at most once, whatever times out and is tried
\* again: MutationLedger.begin.
THEOREM ActionsHappenOnce == Spec => []AtMostOnce
<1>1. SessionInv => AtMostOnce
  BY DEF SessionInv
<1> QED  BY <1>1, SessionInvariance, PTL

\* A single-use approval makes at most one borrow or one effect, late ones
\* included: verify_approval of ActionDispatcher.execute.
THEOREM GrantsAreUsedOnce == Spec => []OneUsePerGrant
<1>1. SessionInv => OneUsePerGrant
  BY DEF SessionInv
<1> QED  BY <1>1, SessionInvariance, PTL

\* A receipt is about what was done under the grant of its own call.
THEOREM ReceiptsAreTrue == Spec => []ReceiptIsOwn
<1>1. SessionInv => ReceiptIsOwn
  BY DEF SessionInv
<1> QED  BY <1>1, SessionInvariance, PTL

\* A call that ended holds neither its resource lease nor a secret: the finally
\* block of ActionDispatcher.execute.
THEOREM LeasesAreGivenBack == Spec => []GivenBack
<1>1. SessionInv => GivenBack
  BY DEF SessionInv
<1> QED  BY <1>1, SessionInvariance, PTL
=============================================================================
