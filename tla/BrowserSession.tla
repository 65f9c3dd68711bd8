--------------------------- MODULE BrowserSession ---------------------------
(***************************************************************************)
(* The browser session bridge, end to end: BrowserSessionProvider and      *)
(* BrowserSessionBridgeServer in the calling process                       *)
(* (src/src/fa3_browser_session_provider.py, fa3_browser_session_bridge.py *)
(* and revalidate, MutationLedger of fa3_browser_action_runtime.py), the   *)
(* service worker of the extension in the browser                          *)
(* (src/browser/fa3-session-extension/service_worker.js), and the calls of *)
(* ActionDispatcher that use them.                                         *)
(*                                                                         *)
(* A request is tagged `own` while the caller waits for its answer, which  *)
(* stands for its id being in `_pending`.  A page is its origin and its    *)
(* content, which also stands for the fingerprint the provider takes of    *)
(* them.  The targets of calls are tabs of the user, which have to be      *)
(* borrowed; tabs of the agent window, human assistance and the inventory  *)
(* of tabs are left out.                                                   *)
(***************************************************************************)
EXTENDS ActionDispatcher, Sequences, Bags

CONSTANTS Origins, Contents,
          None,
          MaxQueue,     \* bound on the requests waiting in the extension
          MaxChanges    \* bound on the changes of pages

ASSUME BrowserAssumption ==
  /\ Actions = {"start", "stop", "borrow", "return", "execute", "bind"}
  /\ Approved = {"borrow", "execute"}
  /\ Origins # {}
  /\ Contents # {}
  /\ MaxQueue \in Nat \ {0}
  /\ MaxChanges \in Nat

VARIABLES stage,      \* what the request in flight is for
          linked,     \* bridge, native host and port are connected
          reply,      \* the answer in the waiter of the current request
          seen,       \* seen[t]: page of the last observation, its revision
          attempted,  \* the tokens in the MutationLedger
          binding,    \* the bound action the caller keeps
          queue,      \* requests chained on requestSerial
          serving,    \* how far the first of them has come
          answer,     \* what it is going to be answered
          wedged,     \* requestSerial is rejected: nothing chained on it runs
          session,    \* a session is active
          lease,      \* lease[t]: the origin a user tab is borrowed in
          page,       \* page[t]: what is in the tab
          changes,    \* changes of pages so far
          uses,       \* bag of the grants that borrows and effects came from
          acted       \* bag of the tokens acted on (both are history)

callerVars == <<stage, seen, attempted, binding>>
wireVars == <<linked, reply>>
workerVars == <<queue, serving, answer, wedged>>
tabVars == <<session, lease, page, changes>>
historyVars == <<uses, acted>>
vars == <<dispatcherVars, callerVars, wireVars, workerVars, tabVars, historyVars>>

Pages == [origin : Origins, content : Contents]

Token == [tab : Targets, revision : 1..(MaxChanges + 1), page : Pages]

Request == [method : {"start", "stop", "borrow", "return", "observe", "act"},
            tab : Targets, grant : Grants \cup {0}, token : Token \cup {None},
            own : BOOLEAN]

Answer == [ok : BOOLEAN, page : Pages \cup {None}]

\* Types, and: a caller that waits has sent exactly one request it still waits
\* for or has lost it with the connection, and no request is answered twice.
TypeOK ==
  /\ DispatcherTypeOK
  /\ stage \in {"none", "plain", "bind", "observe", "act", "verify"}
  /\ linked \in BOOLEAN
  /\ reply \in Answer \cup {None}
  /\ seen \in [Targets -> [revision : 0..(MaxChanges + 1), page : Pages \cup {None}]]
  /\ attempted \subseteq Token
  /\ binding \in Token \cup {None}
  /\ Len(queue) <= MaxQueue
  /\ \A i \in DOMAIN queue : queue[i] \in Request
  /\ serving \in {"none", "checked", "done"}
  /\ (serving # "none") => queue # <<>>
  /\ answer \in Answer \cup {None}
  /\ wedged \in BOOLEAN
  /\ session \in BOOLEAN
  /\ lease \in [Targets -> Origins \cup {None}]
  /\ page \in [Targets -> Pages]
  /\ changes \in 0..MaxChanges
  /\ BagToSet(uses) \subseteq consumed
  /\ BagToSet(acted) \subseteq attempted

Init ==
  /\ DispatcherInit
  /\ stage = "none"
  /\ linked = TRUE
  /\ reply = None
  /\ seen = [t \in Targets |-> [revision |-> 0, page |-> None]]
  /\ attempted = {}
  /\ binding = None
  /\ queue = <<>>
  /\ serving = "none"
  /\ answer = None
  /\ wedged = FALSE
  /\ session = FALSE
  /\ lease = [t \in Targets |-> None]
  /\ page = [t \in Targets |-> CHOOSE p \in Pages : TRUE]
  /\ changes = 0
  /\ uses = EmptyBag
  /\ acted = EmptyBag

-----------------------------------------------------------------------------
\* The calling process

\* BrowserSessionBridgeServer.request, up to the wait for the answer.
Send(method, tab, grant, token) ==
  /\ linked
  /\ queue' = Append(queue, [method |-> method, tab |-> tab, grant |-> grant,
                             token |-> token, own |-> TRUE])

\* request's finally block takes the id out of _pending: an answer that comes
\* later finds no waiter.
Forget(requests) ==
  [i \in DOMAIN requests |-> [requests[i] EXCEPT !.own = FALSE]]

\* The provider raises, or the caller's own observation fails.
ProviderRaises ==
  /\ phase' = IF stage = "bind" THEN "idle" ELSE "unwinding"
  /\ call' = IF stage = "bind" THEN NoCall ELSE call
  /\ stage' = "none"

\* A call of the caller to the dispatcher; the caller refers to the action it
\* bound last.  The bound on the queue stops new calls only.
Call(c) ==
  /\ c.action # "bind"
  /\ Len(queue) < MaxQueue
  /\ c.action = "execute" => binding # None /\ c.target = binding.tab
  /\ Admit(c)
  /\ UNCHANGED <<callerVars, wireVars, workerVars, tabVars, historyVars>>

UnservedCall(c) ==
  /\ c.action # "bind"
  /\ Unserved(c)
  /\ UNCHANGED <<callerVars, wireVars, workerVars, tabVars, historyVars>>

\* BrowserSessionProvider.execute: _require_resource, then the first request.
ProviderRefuses ==
  /\ Equipped
  /\ call.secrets # {} \/ ~linked
  /\ phase' = "unwinding"
  /\ UNCHANGED <<call, consumed, resource, secrets,
                 callerVars, wireVars, workerVars, tabVars, historyVars>>

ProviderStarts ==
  /\ Equipped
  /\ call.secrets = {}
  /\ IF call.action = "execute"
       THEN stage' = "observe" /\ Send("observe", call.target, 0, None)
       ELSE stage' = "plain" /\ Send(call.action, call.target, call.grant, None)
  /\ phase' = "provider"
  /\ UNCHANGED <<call, consumed, resource, secrets,
                 seen, attempted, binding, wireVars, serving, answer, wedged,
                 tabVars, historyVars>>

\* The caller observes a tab itself, to bind an action on what it sees.
Observe(t) ==
  /\ phase = "idle"
  /\ Len(queue) < MaxQueue
  /\ call' = [action |-> "bind", target |-> t, grant |-> 0, secrets |-> {}]
  /\ phase' = "provider"
  /\ stage' = "bind"
  /\ Send("observe", t, 0, None)
  /\ UNCHANGED <<consumed, resource, secrets, seen,
                 attempted, binding, wireVars, serving, answer, wedged,
                 tabVars, historyVars>>

\* What request returns or raises, to a provider that waits for it in stage st.
Answered(st) ==
  /\ reply # None
  /\ stage = st
  /\ reply' = None
  /\ UNCHANGED <<consumed, resource, secrets, linked, serving, answer, wedged,
                 tabVars, historyVars>>

RequestDenied ==
  /\ \E st \in {"plain", "bind", "observe", "act", "verify"} : Answered(st)
  /\ ~reply.ok
  /\ ProviderRaises
  /\ UNCHANGED <<seen, attempted, binding, queue>>

SessionActionDone ==
  /\ Answered("plain")
  /\ reply.ok
  /\ phase' = "answered"
  /\ stage' = "none"
  /\ UNCHANGED <<call, seen, attempted, binding, queue>>

\* observe: a page that differs from the last one is a new revision.
Noted(t, p) ==
  IF seen[t].page = p THEN seen[t]
                      ELSE [revision |-> seen[t].revision + 1, page |-> p]

Observation(t, p) ==
  [tab |-> t, revision |-> Noted(t, p).revision, page |-> p]

ActionBound ==
  /\ Answered("bind")
  /\ reply.ok
  /\ seen' = [seen EXCEPT ![call.target] = Noted(call.target, reply.page)]
  /\ binding' = Observation(call.target, reply.page)
  /\ phase' = "idle"
  /\ call' = NoCall
  /\ stage' = "none"
  /\ UNCHANGED <<attempted, queue>>

\* MutationLedger.begin refuses a token for the second time; the mutant leaves
\* that to revalidate.
MutMayBegin(token) == TRUE
MayBegin(token) == token \notin attempted

Revalidated ==
  /\ reply.ok
  /\ Observation(call.target, reply.page) = binding
  /\ MayBegin(binding)

\* The next request of the provider, or BRIDGE_NOT_CONNECTED.
SendNext(st, method, grant, token) ==
  IF linked THEN /\ Send(method, call.target, grant, token)
                 /\ stage' = st
                 /\ UNCHANGED <<phase, call>>
            ELSE ProviderRaises /\ UNCHANGED queue

\* execute_action: the token is in the ledger before the executor runs.
Act ==
  /\ Answered("observe")
  /\ Revalidated
  /\ seen' = [seen EXCEPT ![call.target] = Noted(call.target, reply.page)]
  /\ attempted' = attempted \cup {binding}
  /\ SendNext("act", "act", call.grant, binding)
  /\ UNCHANGED binding

Stale ==
  /\ Answered("observe")
  /\ reply.ok
  /\ ~Revalidated
  /\ seen' = [seen EXCEPT ![call.target] = Noted(call.target, reply.page)]
  /\ ProviderRaises
  /\ UNCHANGED <<attempted, binding, queue>>

\* The action was executed; the outcome is verified on a new observation.
Verify ==
  /\ Answered("act")
  /\ reply.ok
  /\ SendNext("verify", "observe", 0, None)
  /\ UNCHANGED <<seen, attempted, binding>>

Verified ==
  /\ Answered("verify")
  /\ reply.ok
  /\ seen' = [seen EXCEPT ![call.target] = Noted(call.target, reply.page)]
  /\ phase' = "answered"
  /\ stage' = "none"
  /\ UNCHANGED <<call, attempted, binding, queue>>

\* waiter.get(timeout): the time may run out at any moment, connected or not;
\* the mutant waits for a connection that is gone.
MutMayTimeOut == linked
MayTimeOut == TRUE

RequestTimeout ==
  /\ phase = "provider"
  /\ reply = None
  /\ MayTimeOut
  /\ queue' = Forget(queue)
  /\ ProviderRaises
  /\ UNCHANGED <<consumed, resource, secrets,
                 seen, attempted, binding, wireVars, serving, answer, wedged,
                 tabVars, historyVars>>

\* A bridge that lost its connection refuses every request: the caller builds a
\* new bridge and a new provider, to which the extension reconnects.  Revisions
\* and ledger start again, what the extension has queued stays queued.
Renew ==
  /\ phase = "idle"
  /\ ~linked
  /\ linked' = TRUE
  /\ seen' = [t \in Targets |-> [revision |-> 0, page |-> None]]
  /\ attempted' = {}
  /\ acted' = EmptyBag
  /\ queue' = [i \in DOMAIN queue |-> [queue[i] EXCEPT !.token = None]]
  /\ UNCHANGED <<dispatcherVars, stage, binding, reply, serving, answer, wedged,
                 tabVars, uses>>

-----------------------------------------------------------------------------
\* The service worker

\* handleRequest chains each request on requestSerial, so that one is served
\* at a time, the first one first; the mutant starts any of them.
MutFirst(i) == TRUE
First(i) == i = 1

\* The request that starts comes to the head of the queue.
Foremost(i) ==
  <<queue[i]>> \o SubSeq(queue, 1, i - 1) \o SubSeq(queue, i + 1, Len(queue))

Begin(method) ==
  /\ serving = "none"
  /\ ~wedged
  /\ \E i \in DOMAIN queue :
       /\ First(i)
       /\ queue' = Foremost(i)
  /\ Head(queue').method = method

Done(ok, p) ==
  /\ serving' = "done"
  /\ answer' = [ok |-> ok, page |-> p]

\* controlledTab: a borrowed tab, in the origin it was borrowed in.
Controlled(t) == session /\ lease[t] = page[t].origin

SessionStart ==
  /\ Begin("start")
  /\ Done(~session, None)
  /\ session' = TRUE
  /\ UNCHANGED <<dispatcherVars, callerVars, wireVars, wedged, lease, page,
                 changes, historyVars>>

\* sessionStop gives back every lease before it forgets the session.
SessionStop ==
  /\ Begin("stop")
  /\ Done(session, None)
  /\ session' = FALSE
  /\ lease' = [t \in Targets |-> None]
  /\ UNCHANGED <<dispatcherVars, callerVars, wireVars, wedged, page, changes,
                 historyVars>>

\* tabBorrow takes the origin the request names only if the tab is in it.
TabBorrow ==
  /\ Begin("borrow")
  /\ LET r == Head(queue') IN
       /\ session
       /\ lease[r.tab] = None
       /\ lease' = [lease EXCEPT ![r.tab] = page[r.tab].origin]
       /\ uses' = uses (+) SetToBag({r.grant})
  /\ Done(TRUE, None)
  /\ UNCHANGED <<dispatcherVars, callerVars, wireVars, wedged, session, page,
                 changes, acted>>

\* No session, borrowed already, another origin, or a scope
\* or a TTL that is not allowed.
BorrowDenied ==
  /\ Begin("borrow")
  /\ Done(FALSE, None)
  /\ UNCHANGED <<dispatcherVars, callerVars, wireVars, wedged, tabVars,
                 historyVars>>

TabReturn ==
  /\ Begin("return")
  /\ LET t == Head(queue').tab IN
       /\ Done(session /\ lease[t] # None, None)
       /\ lease' = [u \in Targets |-> IF u = t THEN None ELSE lease[u]]
  /\ UNCHANGED <<dispatcherVars, callerVars, wireVars, wedged, session, page,
                 changes, historyVars>>

PageObserve ==
  /\ Begin("observe")
  /\ LET t == Head(queue').tab IN
       IF Controlled(t) THEN Done(TRUE, page[t]) ELSE Done(FALSE, None)
  /\ UNCHANGED <<dispatcherVars, callerVars, wireVars, wedged, tabVars,
                 historyVars>>

\* pageExecute checks the tab and then awaits the injection of its script.
PageExecute ==
  /\ Begin("act")
  /\ IF Controlled(Head(queue').tab)
       THEN serving' = "checked" /\ UNCHANGED answer
       ELSE Done(FALSE, None)
  /\ UNCHANGED <<dispatcherVars, callerVars, wireVars, wedged, tabVars,
                 historyVars>>

Change(t, p) ==
  /\ page' = [page EXCEPT ![t] = p]
  /\ changes' = IF p = page[t] THEN changes ELSE changes + 1
  /\ changes' <= MaxChanges

\* executePageAction finds the target by its index; the page may show the
\* effect or not, and may go elsewhere because of it.
PageEffect ==
  /\ serving = "checked"
  /\ LET r == Head(queue) IN
       /\ \E p \in Pages : Change(r.tab, p)
       /\ uses' = uses (+) SetToBag({r.grant})
       /\ acted' = IF r.token = None THEN acted
                                     ELSE acted (+) SetToBag({r.token})
  /\ Done(TRUE, None)
  /\ UNCHANGED <<dispatcherVars, callerVars, wireVars, queue, wedged, session,
                 lease>>

\* The action is not in the scope of the borrow, or there is no element at the
\* index, or one that is hidden or disabled.
TargetMissing ==
  /\ serving = "checked"
  /\ Done(FALSE, None)
  /\ UNCHANGED <<dispatcherVars, callerVars, wireVars, queue, wedged, tabVars,
                 historyVars>>

\* _reader_loop puts an answer in the waiter of its request, and drops it when
\* nobody waits; the mutant gives it to whoever waits.
MutAwaited(request) == phase = "provider"
Awaited(request) == request.own

\* postMessage: without a port it throws, and so does the one in the catch
\* block, which leaves requestSerial rejected for good.  Between two ports the
\* extension may also hold one to a native host that found no bridge: the
\* answer is lost then.
PostReply ==
  /\ serving = "done"
  /\ serving' = "none"
  /\ answer' = None
  /\ queue' = Tail(queue)
  /\ reply' = IF linked /\ Awaited(Head(queue)) THEN answer ELSE reply
  /\ wedged' \in IF linked THEN {FALSE} ELSE BOOLEAN
  /\ UNCHANGED <<dispatcherVars, callerVars, linked, tabVars, historyVars>>

\* The timer of a borrow, which needs no connection; leaseForTab treats a lease
\* whose time is over like one whose timer has fired.
MutMayExpire == linked
MayExpire == TRUE

Expire(t) ==
  /\ lease[t] # None
  /\ MayExpire
  /\ lease' = [lease EXCEPT ![t] = None]
  /\ UNCHANGED <<dispatcherVars, callerVars, wireVars, workerVars, session,
                 page, changes, historyVars>>

-----------------------------------------------------------------------------
\* The environment

\* The native host or the bridge ends.  The requests that the extension had not
\* received yet are lost.
Disconnect ==
  /\ linked
  /\ linked' = FALSE
  /\ \E n \in (IF serving = "none" THEN 0 ELSE 1)..Len(queue) :
       queue' = SubSeq(queue, 1, n)
  /\ UNCHANGED <<dispatcherVars, callerVars, reply, serving, answer, wedged,
                 tabVars, historyVars>>

Navigate(t, p) ==
  /\ p # page[t]
  /\ Change(t, p)
  /\ UNCHANGED <<dispatcherVars, callerVars, wireVars, workerVars, session,
                 lease, historyVars>>

-----------------------------------------------------------------------------
DispatcherMoves ==
  /\ DispatcherStep
  /\ UNCHANGED <<callerVars, wireVars, workerVars, tabVars, historyVars>>

CallerStep ==
  \/ DispatcherMoves \/ ProviderRefuses \/ ProviderStarts
  \/ RequestDenied \/ SessionActionDone \/ ActionBound
  \/ Act \/ Stale \/ Verify \/ Verified
  \/ RequestTimeout

WorkerStep ==
  \/ SessionStart \/ SessionStop \/ TabBorrow \/ BorrowDenied \/ TabReturn
  \/ PageObserve \/ PageExecute \/ PageEffect \/ TargetMissing \/ PostReply

Next ==
  \/ CallerStep
  \/ WorkerStep
  \/ Renew
  \/ Disconnect
  \/ \E c \in Calls : Call(c) \/ UnservedCall(c)
  \/ \E t \in Targets : Observe(t) \/ \E p \in Pages : Navigate(t, p)
  \/ \E t \in Targets : Expire(t)

\* A thread that can go on does, a promise that can settle does, and a timer
\* fires.  Nothing makes callers call, pages change or a connection come back.
Fairness ==
  /\ WF_vars(CallerStep)
  /\ WF_vars(WorkerStep)
  /\ \A t \in Targets : WF_vars(Expire(t))

Spec == Init /\ [][Next]_vars /\ Fairness

-----------------------------------------------------------------------------
\* When execute_action has revalidated its binding, no earlier action of this
\* caller, not even one it gave up waiting for, can still reach a page before
\* the new one does: the requestSerial chain of handleRequest.
SeesOwnEffects ==
  stage = "act" => \A i \in DOMAIN queue : queue[i].method = "act" => queue[i].own

\* A bound action reaches its page once, however often the caller retries after
\* a timeout: MutationLedger.begin before the executor runs.
AtMostOnce == \A token \in BagToSet(acted) : acted[token] = 1

\* A single-use approval makes at most one borrow or one effect on a page, late
\* ones included: verify_approval of ActionDispatcher.execute, and requests that
\* are never sent twice.
OneUsePerGrant == \A grant \in BagToSet(uses) : uses[grant] = 1

\* A call that is about to get its receipt did what the receipt will say, under
\* its own grant: the answers that BrowserSessionBridgeServer.request returns are
\* those to its own requests.
ReceiptIsOwn == phase = "answered" /\ call.grant # 0 => BagIn(call.grant, uses)

\* Every call of the dispatcher or the provider ends, whatever becomes of the
\* connection and the worker: the timeout of BrowserSessionBridgeServer.request.
CallEnds == phase # "idle" ~> phase = "idle"

\* No user tab stays borrowed for ever, even when nobody returns it, the bridge
\* is gone or the worker serves nothing any more: the timer of tabBorrow.
BorrowEnds == \A t \in Targets : lease[t] # None ~> lease[t] = None

=============================================================================
