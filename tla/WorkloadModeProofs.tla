------------------------- MODULE WorkloadModeProofs -------------------------
(***************************************************************************)
(* Theorems about the Workload Mode daemon and its clients, for all        *)
(* workloads, domains, lives of the bridge and every bound.                *)
(***************************************************************************)
EXTENDS WorkloadMode, TLAPS, SequenceTheorems

Modes == {"AI", "RENDER", "GAME"}

Current == [mode |-> mode, authority |-> authority]

\* A message is from a program that has been started, or about a bridge.
Addressed ==
  {m \in Messages :
     /\ m.op \in {"REGISTER", "RELEASE"} => m.of \in Ids /\ proc[m.of] # "none"
     /\ m.op \in {"HELLO", "LEFT"} => m.of \in Bridges}

Deliverable == inbox \in Seq(Addressed)

\* A program has a process as soon as it does anything.
ProcessesStart == \A i \in Ids : pc[i] = "off" <=> proc[i] = "none"

\* The registry: one watch for each workload, unless it could not be opened.
Registry ==
  /\ watch \subseteq workloads
  /\ blind = workloads \ watch

\* The indicator: the last signal it has not read is the daemon's state, and so
\* is what it shows once it has read all; signals come after it subscribed.
Shown ==
  /\ tray = "off" => signals = <<>> /\ ~told
  /\ tray = "asking" => (told <=> signals # <<>>)
  /\ signals # <<>> /\ told => Last(signals) = Current
  /\ signals = <<>> /\ told => tray = "ready" /\ view = Current

State ==
  /\ mode = ModeOf(workloads, game)
  /\ authority = "FA3_HRB" <=> peers # {}

\* The inductive invariant of daemon and clients.
ModeInv ==
  /\ TypeOK
  /\ Deliverable
  /\ ProcessesStart
  /\ Registry
  /\ State
  /\ Shown

-----------------------------------------------------------------------------
(* Lemmas about the helpers of the handlers.                               *)

\* The mode is a set of the three domains.
LEMMA ModeOfType ==
  ASSUME NEW ids \in SUBSET Ids, NEW g
  PROVE  ModeOf(ids, g) \in SUBSET Modes
  BY WorkloadAssumption DEF ModeOf, Modes

\* A message that a handler takes is well addressed, and so are those it leaves.
LEMMA TakesEffect ==
  ASSUME ModeInv, NEW op, Takes(op)
  PROVE  /\ Head(inbox) \in Addressed
         /\ Head(inbox).op = op
         /\ inbox' \in Seq(Addressed)
         /\ inbox' \in Seq(Messages)
  BY HeadTailProperties DEF Takes, ModeInv, Deliverable, TypeOK

\* A call adds its message, and only that.
LEMMA CallEffect ==
  ASSUME ModeInv, NEW op, NEW of, Call(op, of),
         [op |-> op, of |-> of] \in Messages,
         [op |-> op, of |-> of] \in Addressed'
  PROVE  /\ inbox' \in Seq(Messages)
         /\ Addressed \subseteq Addressed' => inbox' \in Seq(Addressed')
<1>1. inbox' = Append(inbox, [op |-> op, of |-> of])
  BY DEF Call
<1>2. inbox' \in Seq(Messages)
  BY <1>1, AppendProperties DEF ModeInv, TypeOK
<1>3. ASSUME Addressed \subseteq Addressed'
      PROVE  inbox' \in Seq(Addressed')
  <2>1. inbox \in Seq(Addressed')
    BY <1>3, SeqMonotonic DEF ModeInv, Deliverable
  <2> QED  BY <1>1, <2>1, AppendProperties
<1> QED  BY <1>2, <1>3

\* A message stays well addressed as programs start and end.
LEMMA StaysAddressed ==
  ASSUME \A i \in Ids : proc[i] # "none" => proc'[i] # "none"
  PROVE  Addressed \subseteq Addressed'
  BY DEF Addressed

\* Publish: what an indicator comes to show is what was published.
LEMMA PublishEffect ==
  ASSUME ModeInv, NEW m \in SUBSET Modes, NEW a \in Authorities,
         Publish(m, a), UNCHANGED <<tray, view>>
  PROVE  /\ mode' = m
         /\ authority' = a
         /\ signals' \in Seq(Views) /\ Len(signals') <= MaxSignals
         /\ told' \in BOOLEAN
         /\ Shown'
<1> DEFINE news == [mode |-> m, authority |-> a]
<1>1. mode' = m /\ authority' = a /\ Current' = news
  BY DEF Publish, Current
<1>2. news \in Views
  BY DEF Views, Modes
<1>3. CASE tray = "off"
  BY <1>1, <1>3 DEF Publish, ModeInv, TypeOK, Shown
<1>4. CASE tray # "off" /\ signals # <<>> /\ Last(signals) = news
  BY <1>1, <1>4 DEF Publish, ModeInv, TypeOK, Shown
<1>5. CASE tray # "off" /\ ~(signals # <<>> /\ Last(signals) = news)
  <2>1. signals' = Append(signals, news) /\ Len(signals) < MaxSignals /\ told'
    BY <1>5 DEF Publish
  <2>2. /\ signals \in Seq(Views)
        /\ Len(signals) \in Nat
        /\ MaxSignals \in Nat
    BY WorkloadAssumption, LenProperties DEF ModeInv, TypeOK
  <2> HIDE DEF news
  <2>3. /\ signals' \in Seq(Views)
        /\ Len(signals') = Len(signals) + 1
        /\ signals'[Len(signals) + 1] = news
    BY <1>2, <2>1, <2>2, AppendProperties
  <2>4. signals' # <<>> /\ Last(signals') = news
    BY <2>2, <2>3 DEF Last
  <2>5. Shown'
    BY <1>1, <1>5, <2>1, <2>4 DEF Shown
  <2> QED  BY <1>1, <2>1, <2>2, <2>3, <2>5
<1> QED  BY <1>3, <1>4, <1>5

\* A handler that publishes nothing shows nothing new.
LEMMA QuietEffect ==
  ASSUME ModeInv, Quiet, UNCHANGED <<tray, view>>
  PROVE  /\ mode' \in SUBSET Modes
         /\ authority' \in Authorities
         /\ signals' \in Seq(Views) /\ Len(signals') <= MaxSignals
         /\ told' \in BOOLEAN
         /\ Shown'
<1>1. UNCHANGED <<mode, authority, signals, told, tray, view>>
  BY DEF Quiet
<1> QED  BY <1>1 DEF ModeInv, TypeOK, Shown, Current, Modes

-----------------------------------------------------------------------------
(* Every step keeps the invariant: the daemon.                             *)

\* The daemon, the programs and the indicator begin in the invariant.
LEMMA ModeBegins == Init => ModeInv
<1> SUFFICES ASSUME Init PROVE ModeInv
  OBVIOUS
<1>1. TypeOK
  <2>1. MaxSignals \in Nat /\ MaxEvents \in Nat
    BY WorkloadAssumption
  <2>2. <<>> \in Seq(Messages) /\ <<>> \in Seq(Views) /\ Len(<<>>) = 0
    BY EmptySeq
  <2>3. [mode |-> {"DEGRADED"}, authority |-> "UNAVAILABLE"] \in Views
    BY DEF Views, Authorities
  <2>4. /\ inbox \in Seq(Messages)
        /\ signals \in Seq(Views) /\ Len(signals) <= MaxSignals
        /\ view \in Views
        /\ budget \in 0..MaxEvents
    BY <2>1, <2>2, <2>3 DEF Init
  <2>5. /\ pc \in [Ids -> {"off", "registering", "running", "releasing", "over"}]
        /\ proc \in [Ids -> {"none", "alive", "ended"}]
    BY DEF Init
  <2> QED  BY <2>4, <2>5 DEF Init, TypeOK, Authorities
<1>2. Deliverable
  BY EmptySeq DEF Init, Deliverable
<1>3. ProcessesStart /\ Registry /\ Shown
  BY DEF Init, ProcessesStart, Registry, Shown
<1>4. State
  BY DEF Init, State, ModeOf
<1> QED  BY <1>1, <1>2, <1>3, <1>4 DEF ModeInv

\* registerService changes nothing that the daemon keeps.
LEMMA TakeNameKeeps == ModeInv /\ TakeName => ModeInv'
  BY DEF TakeName, ModeInv, TypeOK, Deliverable, Addressed, ProcessesStart,
         Registry, State, Shown, Current, daemonVars, clientVars, bridgeVars,
         trayVars, outsideVars

\* The first poll of GameMode recomputes the mode if it finds another one.
LEMMA WatchBusKeeps == ModeInv /\ WatchBus => ModeInv'
<1> SUFFICES ASSUME ModeInv, WatchBus PROVE ModeInv'
  OBVIOUS
<1>1. UNCHANGED <<inbox, workloads, watch, peers, pc, proc, bridge, greeting, lives,
                  tray, view, realGame, budget, blind, missed>>
  BY DEF WatchBus, clientVars, bridgeVars, outsideVars
<1>2. phase' = "running" /\ game' = realGame
  BY DEF WatchBus
<1>3. /\ mode' = ModeOf(workloads, realGame)
      /\ mode' \in SUBSET Modes
      /\ authority' = authority
      /\ signals' \in Seq(Views) /\ Len(signals') <= MaxSignals
      /\ told' \in BOOLEAN
      /\ Shown'
  <2>1. CASE realGame # game
    <3>1. ModeOf(workloads, realGame) \in SUBSET Modes
      BY ModeOfType DEF ModeInv, TypeOK
    <3>2. Publish(ModeOf(workloads, realGame), authority) /\ authority \in Authorities
      BY <2>1 DEF WatchBus, Recompute, ModeInv, TypeOK
    <3> QED  BY <1>1, <3>1, <3>2, PublishEffect
  <2>2. CASE realGame = game
    <3>1. Quiet
      BY <2>2 DEF WatchBus
    <3> QED  BY <1>1, <2>2, <3>1, QuietEffect DEF Quiet, ModeInv, State
  <2> QED  BY <2>1, <2>2
<1>4. TypeOK'
  BY <1>1, <1>2, <1>3 DEF ModeInv, TypeOK, Modes
<1>5. Deliverable' /\ ProcessesStart' /\ Registry'
  BY <1>1 DEF ModeInv, Deliverable, Addressed, ProcessesStart, Registry
<1>6. State'
  BY <1>1, <1>2, <1>3 DEF ModeInv, State, ModeOf
<1> QED  BY <1>3, <1>4, <1>5, <1>6 DEF ModeInv

\* RegisterWorkload drops the old watch before it tries to open a new one.
LEMMA RegisterWorkloadKeeps == ModeInv /\ RegisterWorkload => ModeInv'
<1> SUFFICES ASSUME ModeInv, RegisterWorkload PROVE ModeInv'
  OBVIOUS
<1> DEFINE i == Head(inbox).of
<1>1. UNCHANGED <<phase, peers, game, proc, bridge, greeting, lives, tray, view,
                  realGame, budget, missed>>
  BY DEF RegisterWorkload, bridgeVars, outsideVars
<1>2. /\ i \in Ids
      /\ proc[i] # "none"
      /\ inbox' \in Seq(Messages)
      /\ inbox' \in Seq(Addressed)
  BY TakesEffect DEF RegisterWorkload, Addressed
<1>3. PICK opened \in BOOLEAN :
        /\ watch' = Watched(i, opened)
        /\ blind' = IF opened THEN blind \ {i} ELSE blind \cup {i}
  BY DEF RegisterWorkload
<1>4. workloads' = workloads \cup {i} /\ workloads' \in SUBSET Ids
  BY <1>2 DEF RegisterWorkload, ModeInv, TypeOK
<1>5. /\ mode' = ModeOf(workloads', game)
      /\ mode' \in SUBSET Modes
      /\ authority' = authority
      /\ signals' \in Seq(Views) /\ Len(signals') <= MaxSignals
      /\ told' \in BOOLEAN
      /\ Shown'
  <2>1. Publish(ModeOf(workloads', game), authority)
    BY DEF RegisterWorkload, Recompute
  <2>2. ModeOf(workloads', game) \in SUBSET Modes /\ authority \in Authorities
    BY <1>4, ModeOfType DEF ModeInv, TypeOK
  <2> QED  BY <1>1, <2>1, <2>2, PublishEffect
<1>6. pc' = IF pc[i] = "registering" THEN [pc EXCEPT ![i] = "running"] ELSE pc
  BY DEF RegisterWorkload
<1> HIDE DEF i
<1>8. Registry'
  BY <1>1, <1>3, <1>4 DEF ModeInv, Registry, Watched
<1>9. pc' \in [Ids -> {"off", "registering", "running", "releasing", "over"}]
  BY <1>2, <1>6 DEF ModeInv, TypeOK
<1>10. ProcessesStart'
  BY <1>1, <1>2, <1>6 DEF ModeInv, TypeOK, ProcessesStart
<1>11. watch' \subseteq Ids /\ blind' \subseteq Ids
  BY <1>4, <1>8 DEF Registry
<1>12. TypeOK'
  BY <1>1, <1>2, <1>4, <1>5, <1>9, <1>11 DEF ModeInv, TypeOK, Modes
<1>13. Deliverable'
  BY <1>1, <1>2 DEF Deliverable, Addressed
<1>14. State'
  BY <1>1, <1>5 DEF ModeInv, State
<1> QED  BY <1>5, <1>8, <1>10, <1>12, <1>13, <1>14 DEF ModeInv

\* What dropping a workload does, by a release or by the notifier.
LEMMA DroppedEffect ==
  ASSUME ModeInv, NEW i \in Ids, Dropped(i),
         UNCHANGED <<peers, game, proc, tray, view>>
  PROVE  /\ workloads' \in SUBSET Ids
         /\ watch' \subseteq Ids /\ blind' \subseteq Ids
         /\ mode' \in SUBSET Modes
         /\ authority' \in Authorities
         /\ signals' \in Seq(Views) /\ Len(signals') <= MaxSignals
         /\ told' \in BOOLEAN
         /\ Registry' /\ State' /\ Shown'
<1>1. /\ workloads' = workloads \ {i}
      /\ watch' = watch \ {i}
      /\ blind' = blind \ {i}
  BY DEF Dropped, Unwatched
<1>2. workloads' \in SUBSET Ids /\ watch' \subseteq Ids /\ blind' \subseteq Ids
  BY <1>1 DEF ModeInv, TypeOK
<1>3. Publish(ModeOf(workloads', game), authority)
  BY DEF Dropped, Recompute
<1>4. ModeOf(workloads', game) \in SUBSET Modes /\ authority \in Authorities
  BY <1>2, ModeOfType DEF ModeInv, TypeOK
<1>5. /\ mode' = ModeOf(workloads', game)
      /\ authority' = authority
      /\ signals' \in Seq(Views) /\ Len(signals') <= MaxSignals
      /\ told' \in BOOLEAN
      /\ Shown'
  BY <1>3, <1>4, PublishEffect
<1>6. Registry'
  BY <1>1 DEF ModeInv, Registry
<1>7. State'
  BY <1>5 DEF ModeInv, State
<1> QED  BY <1>2, <1>4, <1>5, <1>6, <1>7

\* ReleaseWorkload drops what it is asked to drop, registered or not.
LEMMA ReleaseWorkloadKeeps == ModeInv /\ ReleaseWorkload => ModeInv'
<1> SUFFICES ASSUME ModeInv, ReleaseWorkload PROVE ModeInv'
  OBVIOUS
<1> DEFINE i == Head(inbox).of
<1>1. UNCHANGED <<phase, peers, game, proc, bridge, greeting, lives, tray, view,
                  realGame, budget, missed>>
  BY DEF ReleaseWorkload, bridgeVars, outsideVars
<1>2. i \in Ids /\ inbox' \in Seq(Messages) /\ inbox' \in Seq(Addressed)
  BY TakesEffect DEF ReleaseWorkload, Addressed
<1>3. Dropped(i)
  BY DEF ReleaseWorkload
<1>4. pc' = IF pc[i] = "releasing" THEN [pc EXCEPT ![i] = "over"] ELSE pc
  BY DEF ReleaseWorkload
<1> HIDE DEF i
<1>5. /\ pc' \in [Ids -> {"off", "registering", "running", "releasing", "over"}]
      /\ ProcessesStart'
  BY <1>1, <1>2, <1>4 DEF ModeInv, TypeOK, ProcessesStart
<1>6. TypeOK'
  BY <1>1, <1>2, <1>3, <1>5, DroppedEffect DEF ModeInv, TypeOK, Modes
<1>7. Deliverable'
  BY <1>1, <1>2 DEF Deliverable, Addressed
<1> QED  BY <1>1, <1>2, <1>3, <1>5, <1>6, <1>7, DroppedEffect DEF ModeInv

\* The notifier of a pidfd drops the workload of the process.
LEMMA ProcessGoneKeeps ==
  ASSUME ModeInv, NEW i \in Ids, ProcessGone(i)
  PROVE  ModeInv'
<1>1. UNCHANGED <<phase, inbox, peers, game, pc, proc, bridge, greeting, lives, tray,
                  view, realGame, budget, missed>>
  BY DEF ProcessGone, clientVars, bridgeVars, outsideVars
<1>2. Dropped(i)
  BY DEF ProcessGone
<1>3. TypeOK'
  BY <1>1, <1>2, DroppedEffect DEF ModeInv, TypeOK, Modes
<1>4. Deliverable' /\ ProcessesStart'
  BY <1>1 DEF ModeInv, Deliverable, Addressed, ProcessesStart
<1> QED  BY <1>1, <1>2, <1>3, <1>4, DroppedEffect DEF ModeInv

\* Hello: the daemon follows FA3 as soon as it knows a peer.
LEMMA HelloKeeps == ModeInv /\ Hello => ModeInv'
<1> SUFFICES ASSUME ModeInv, Hello PROVE ModeInv'
  OBVIOUS
<1>1. UNCHANGED <<phase, workloads, watch, game, pc, proc, bridge, lives, tray, view,
                  realGame, budget, blind, missed>>
  BY DEF Hello, clientVars, outsideVars
<1>2. /\ Head(inbox).of \in Bridges
      /\ inbox' \in Seq(Messages)
      /\ inbox' \in Seq(Addressed)
  BY TakesEffect DEF Hello, Addressed
<1>3. peers' = peers \cup {Head(inbox).of}
  BY DEF Hello
<1>4. /\ mode' = mode
      /\ authority' = "FA3_HRB"
      /\ signals' \in Seq(Views) /\ Len(signals') <= MaxSignals
      /\ told' \in BOOLEAN
      /\ Shown'
  BY <1>1, PublishEffect DEF Hello, Authorities, ModeInv, TypeOK, Modes
<1>5. greeting' => greeting
  BY DEF Hello
<1>6. TypeOK'
  BY <1>1, <1>2, <1>3, <1>4, <1>5 DEF ModeInv, TypeOK, Authorities
<1>7. Deliverable' /\ ProcessesStart' /\ Registry'
  BY <1>1, <1>2 DEF ModeInv, Deliverable, Addressed, ProcessesStart, Registry
<1>8. State'
  BY <1>1, <1>3, <1>4 DEF ModeInv, State, ModeOf
<1> QED  BY <1>4, <1>6, <1>7, <1>8 DEF ModeInv

\* serviceOwnerChanged: the last peer that leaves takes the authority with it.
LEMMA ServiceOwnerChangedKeeps == ModeInv /\ ServiceOwnerChanged => ModeInv'
<1> SUFFICES ASSUME ModeInv, ServiceOwnerChanged PROVE ModeInv'
  OBVIOUS
<1> DEFINE left == peers \ {Head(inbox).of}
<1>1. UNCHANGED <<phase, workloads, watch, game, pc, proc, bridge, greeting, lives,
                  tray, view, realGame, budget, blind, missed>>
  BY DEF ServiceOwnerChanged, clientVars, bridgeVars, outsideVars
<1>2. inbox' \in Seq(Messages) /\ inbox' \in Seq(Addressed)
  BY TakesEffect DEF ServiceOwnerChanged
<1>3. peers' = left /\ left \subseteq peers
  BY DEF ServiceOwnerChanged
<1>4. /\ mode' = mode
      /\ authority' \in Authorities
      /\ authority' = "FA3_HRB" <=> left # {}
      /\ signals' \in Seq(Views) /\ Len(signals') <= MaxSignals
      /\ told' \in BOOLEAN
      /\ Shown'
  <2>1. CASE left # peers /\ left = {}
    <3>1. Publish(mode, "WORKLOAD_MODE_LOCAL")
      BY <2>1 DEF ServiceOwnerChanged, AuthorityOf
    <3> QED
      BY <1>1, <2>1, <3>1, PublishEffect DEF Authorities, ModeInv, TypeOK, Modes
  <2>2. CASE ~(left # peers /\ left = {})
    <3>1. Quiet
      BY <2>2 DEF ServiceOwnerChanged
    <3>2. left # {} <=> peers # {}
      BY <2>2
    <3> QED  BY <1>1, <3>1, <3>2, QuietEffect DEF Quiet, ModeInv, State
  <2> QED  BY <2>1, <2>2
<1>5. TypeOK'
  BY <1>1, <1>2, <1>3, <1>4 DEF ModeInv, TypeOK
<1>6. Deliverable' /\ ProcessesStart' /\ Registry'
  BY <1>1, <1>2 DEF ModeInv, Deliverable, Addressed, ProcessesStart, Registry
<1>7. State'
  BY <1>1, <1>3, <1>4 DEF ModeInv, State, ModeOf
<1> QED  BY <1>4, <1>5, <1>6, <1>7 DEF ModeInv

\* Status: the answer is the state, and so is the last of the signals that were
\* sent before it.
LEMMA StatusKeeps == ModeInv /\ Status => ModeInv'
<1> SUFFICES ASSUME ModeInv, Status PROVE ModeInv'
  OBVIOUS
<1>1. UNCHANGED <<phase, workloads, watch, peers, game, mode, authority, pc, proc,
                  bridge, greeting, lives, signals, realGame, budget, blind, missed>>
  BY DEF Status, daemonVars, clientVars, bridgeVars, outsideVars
<1>2. inbox' \in Seq(Messages) /\ inbox' \in Seq(Addressed)
  BY TakesEffect DEF Status
<1>3. /\ tray' \in {"off", "asking", "ready"}
      /\ view' \in Views
      /\ told' \in BOOLEAN
      /\ Shown'
  <2>1. Current \in Views
    BY DEF Current, Views, ModeInv, TypeOK
  <2>2. CASE tray = "asking"
    BY <1>1, <2>1, <2>2 DEF Status, ModeInv, Shown, Current
  <2>3. CASE tray # "asking"
    BY <1>1, <2>3 DEF Status, ModeInv, TypeOK, Shown, Current
  <2> QED  BY <2>2, <2>3
<1>4. TypeOK'
  BY <1>1, <1>2, <1>3 DEF ModeInv, TypeOK
<1>5. Deliverable' /\ ProcessesStart' /\ Registry' /\ State'
  BY <1>1, <1>2 DEF ModeInv, Deliverable, Addressed, ProcessesStart, Registry, State,
                    ModeOf
<1> QED  BY <1>3, <1>4, <1>5 DEF ModeInv

\* Whatever GameMode looks like, the mode is recomputed with it.
LEMMA SeeGameKeeps ==
  ASSUME ModeInv, NEW g \in {"UNAVAILABLE", "AVAILABLE", "ACTIVE"}, SeeGame(g),
         budget' \in 0..MaxEvents
  PROVE  ModeInv'
<1>1. UNCHANGED <<phase, inbox, workloads, watch, peers, pc, proc, bridge, greeting,
                  lives, tray, view, realGame, blind, missed>>
  BY DEF SeeGame, clientVars, bridgeVars
<1>2. game' = g /\ Publish(ModeOf(workloads, g), authority)
  BY DEF SeeGame, Recompute
<1>3. ModeOf(workloads, g) \in SUBSET Modes /\ authority \in Authorities
  BY ModeOfType DEF ModeInv, TypeOK
<1>4. /\ mode' = ModeOf(workloads, g)
      /\ authority' = authority
      /\ signals' \in Seq(Views) /\ Len(signals') <= MaxSignals
      /\ told' \in BOOLEAN
      /\ Shown'
  BY <1>1, <1>2, <1>3, PublishEffect
<1>5. TypeOK'
  BY <1>1, <1>2, <1>3, <1>4 DEF ModeInv, TypeOK, Modes
<1>6. Deliverable' /\ ProcessesStart' /\ Registry'
  BY <1>1 DEF ModeInv, Deliverable, Addressed, ProcessesStart, Registry
<1>7. State'
  BY <1>1, <1>2, <1>4 DEF ModeInv, State, ModeOf
<1> QED  BY <1>4, <1>5, <1>6, <1>7 DEF ModeInv

\* GameMode is polled, well or not.
LEMMA GamePollKeeps == ModeInv /\ (RefreshGameMode \/ QueryFails) => ModeInv'
<1>1. ASSUME ModeInv, RefreshGameMode PROVE ModeInv'
  BY <1>1, SeeGameKeeps DEF RefreshGameMode, ModeInv, TypeOK
<1>2. ASSUME ModeInv, QueryFails PROVE ModeInv'
  <2>1. budget' \in 0..MaxEvents
    BY <1>2, WorkloadAssumption DEF QueryFails, ModeInv, TypeOK
  <2> QED  BY <1>2, <2>1, SeeGameKeeps DEF QueryFails
<1> QED  BY <1>1, <1>2

\* A change of the tuners publishes the state as it is.
LEMMA RefreshCoexistencePeersKeeps == ModeInv /\ RefreshCoexistencePeers => ModeInv'
<1> SUFFICES ASSUME ModeInv, RefreshCoexistencePeers PROVE ModeInv'
  OBVIOUS
<1>1. UNCHANGED <<phase, inbox, workloads, watch, peers, game, pc, proc, bridge,
                  greeting, lives, tray, view, realGame, blind, missed>>
  BY DEF RefreshCoexistencePeers, clientVars, bridgeVars
<1>2. budget' \in 0..MaxEvents
  BY WorkloadAssumption DEF RefreshCoexistencePeers, ModeInv, TypeOK
<1>3. /\ mode' = mode
      /\ authority' = authority
      /\ signals' \in Seq(Views) /\ Len(signals') <= MaxSignals
      /\ told' \in BOOLEAN
      /\ Shown'
  BY <1>1, PublishEffect DEF RefreshCoexistencePeers, ModeInv, TypeOK, Modes
<1>4. TypeOK'
  BY <1>1, <1>2, <1>3 DEF ModeInv, TypeOK
<1>5. Deliverable' /\ ProcessesStart' /\ Registry' /\ State'
  BY <1>1, <1>3 DEF ModeInv, Deliverable, Addressed, ProcessesStart, Registry, State,
                    ModeOf
<1> QED  BY <1>3, <1>4, <1>5 DEF ModeInv

\* A crash takes the messages, the registrations and what was told; the signals
\* already sent are read, and tell of a daemon that is no more.
LEMMA CrashKeeps == ModeInv /\ Crash => ModeInv'
<1> SUFFICES ASSUME ModeInv, Crash PROVE ModeInv'
  OBVIOUS
<1>1. UNCHANGED <<bridge, lives, view, signals, realGame>>
  BY DEF Crash
<1>2. /\ phase' = "down" /\ inbox' = <<>> /\ workloads' = {} /\ watch' = {}
      /\ peers' = {} /\ mode' = {} /\ game' = "UNAVAILABLE"
      /\ authority' = "WORKLOAD_MODE_LOCAL" /\ blind' = {} /\ missed' = {}
      /\ told' = FALSE /\ greeting' = FALSE
      /\ tray' = IF tray = "asking" THEN "ready" ELSE tray
  BY DEF Crash
<1>3. budget' \in 0..MaxEvents
  BY WorkloadAssumption DEF Crash, ModeInv, TypeOK
<1>4. \A i \in Ids :
        /\ pc'[i] = CASE pc[i] = "registering" -> IF i \in Wrapped THEN "over"
                                                ELSE "running"
                      [] pc[i] = "releasing" -> "over"
                      [] OTHER -> pc[i]
        /\ proc'[i] = IF i \in Wrapped /\ pc[i] = "registering"
                      THEN "ended" ELSE proc[i]
  BY DEF Crash
<1>5. /\ pc' \in [Ids -> {"off", "registering", "running", "releasing", "over"}]
      /\ proc' \in [Ids -> {"none", "alive", "ended"}]
  BY DEF Crash, ModeInv, TypeOK
<1>6. ProcessesStart'
  BY <1>4 DEF ModeInv, ProcessesStart
<1>7. inbox' \in Seq(Messages) /\ Deliverable'
  BY <1>2, EmptySeq DEF Deliverable
<1>8. TypeOK'
  BY <1>1, <1>2, <1>3, <1>5, <1>7 DEF ModeInv, TypeOK, Authorities
<1>9. Registry' /\ State'
  BY <1>2 DEF Registry, State, ModeOf
<1>10. Shown'
  BY <1>1, <1>2 DEF ModeInv, TypeOK, Shown
<1> QED  BY <1>6, <1>7, <1>8, <1>9, <1>10 DEF ModeInv

-----------------------------------------------------------------------------
(* Every step keeps the invariant: the programs.                           *)

\* What a step of a program has to keep: the daemon and the others see its
\* messages and its process only, and a process that ended stays so.
LEMMA ProgramKeeps ==
  ASSUME ModeInv, UNCHANGED Others,
         inbox' \in Seq(Messages),
         Addressed \subseteq Addressed' => inbox' \in Seq(Addressed'),
         pc' \in [Ids -> {"off", "registering", "running", "releasing", "over"}],
         proc' \in [Ids -> {"none", "alive", "ended"}],
         \A i \in Ids : /\ proc[i] # "none" => proc'[i] # "none"
                        /\ proc[i] = "ended" => proc'[i] = "ended"
                        /\ pc'[i] = "off" <=> proc'[i] = "none"
  PROVE  ModeInv'
<1>1. UNCHANGED <<phase, workloads, watch, peers, game, mode, authority, bridge,
                  greeting, lives, tray, view, signals, told, realGame, budget, blind,
                  missed>>
  BY DEF Others, daemonVars, bridgeVars, trayVars, outsideVars
<1>2. TypeOK'
  BY <1>1 DEF ModeInv, TypeOK
<1>3. Deliverable'
  BY StaysAddressed DEF Deliverable
<1>4. ProcessesStart'
  BY DEF ProcessesStart
<1>5. Registry'
  BY <1>1 DEF ModeInv, TypeOK, Registry
<1>6. State' /\ Shown'
  BY <1>1 DEF ModeInv, State, ModeOf, Shown, Current
<1> QED  BY <1>2, <1>3, <1>4, <1>5, <1>6 DEF ModeInv

\* The inbox as it is satisfies what ProgramKeeps asks of it.
LEMMA InboxStays ==
  ASSUME ModeInv, UNCHANGED inbox
  PROVE  /\ inbox' \in Seq(Messages)
         /\ Addressed \subseteq Addressed' => inbox' \in Seq(Addressed')
<1>1. inbox \in Seq(Addressed)
  BY DEF ModeInv, Deliverable
<1>2. ASSUME Addressed \subseteq Addressed' PROVE inbox' \in Seq(Addressed')
  BY <1>1, <1>2, SeqMonotonic
<1> QED  BY <1>2 DEF ModeInv, TypeOK

\* A call of a program that has a process is well addressed.
LEMMA ProgramCalls ==
  ASSUME ModeInv, NEW i \in Ids, NEW op \in {"REGISTER", "RELEASE"}, Call(op, i),
         proc'[i] # "none"
  PROVE  /\ inbox' \in Seq(Messages)
         /\ Addressed \subseteq Addressed' => inbox' \in Seq(Addressed')
<1>1. [op |-> op, of |-> i] \in Messages
  BY DEF Messages
<1>2. [op |-> op, of |-> i] \in Addressed'
  BY <1>1 DEF Addressed, Messages
<1> QED  BY <1>1, <1>2, CallEffect

\* RegisterWorkload is called with the pid of a child that was just started.
LEMMA StartKeeps ==
  ASSUME ModeInv, NEW i \in Ids, Start(i)
  PROVE  ModeInv'
<1>1. UNCHANGED Others /\ pc[i] = "off" /\ proc[i] = "none"
  BY DEF Start, ModeInv, ProcessesStart
<1>2. CASE /\ Call("REGISTER", i)
           /\ pc' = [pc EXCEPT ![i] = "registering"]
           /\ proc' = [proc EXCEPT ![i] = "alive"]
  <2>1. /\ pc' \in [Ids -> {"off", "registering", "running", "releasing", "over"}]
        /\ proc' \in [Ids -> {"none", "alive", "ended"}]
        /\ \A j \in Ids : /\ pc'[j] = IF j = i THEN "registering" ELSE pc[j]
                          /\ proc'[j] = IF j = i THEN "alive" ELSE proc[j]
    BY <1>2 DEF ModeInv, TypeOK
  <2>2. /\ inbox' \in Seq(Messages)
        /\ Addressed \subseteq Addressed' => inbox' \in Seq(Addressed')
    BY <1>2, <2>1, ProgramCalls
  <2> QED  BY <1>1, <2>1, <2>2, ProgramKeeps DEF ModeInv, ProcessesStart
<1>3. CASE Refused(i) /\ UNCHANGED inbox
  <2>1. PICK at \in {"over", "running"}, life \in {"ended", "alive"} :
          pc' = [pc EXCEPT ![i] = at] /\ proc' = [proc EXCEPT ![i] = life]
    BY <1>3 DEF Refused
  <2>2. /\ pc' \in [Ids -> {"off", "registering", "running", "releasing", "over"}]
        /\ proc' \in [Ids -> {"none", "alive", "ended"}]
        /\ \A j \in Ids : /\ pc'[j] = IF j = i THEN at ELSE pc[j]
                          /\ proc'[j] = IF j = i THEN life ELSE proc[j]
    BY <2>1 DEF ModeInv, TypeOK
  <2> QED  BY <1>1, <1>3, <2>2, InboxStays, ProgramKeeps DEF ModeInv, ProcessesStart
<1> QED  BY <1>2, <1>3 DEF Start

\* The other steps of a program move its pc, end its process or release.
LEMMA ProgramGoesOn ==
  ASSUME ModeInv, NEW i \in Ids,
         \/ RegisterTimesOut(i) \/ ProcessEnds(i) \/ Finish(i)
         \/ ReleaseTimesOut(i) \/ Killed(i)
  PROVE  ModeInv'
<1>1. UNCHANGED Others
  BY DEF RegisterTimesOut, ProcessEnds, Finish, ReleaseTimesOut, Killed
<1>2. pc[i] # "off" /\ proc[i] # "none"
  BY DEF RegisterTimesOut, ProcessEnds, Finish, ReleaseTimesOut, Killed, ModeInv,
         ProcessesStart
<1>3. \E at \in {"running", "releasing", "over"} :
        pc' = pc \/ pc' = [pc EXCEPT ![i] = at]
  BY DEF RegisterTimesOut, ProcessEnds, Finish, ReleaseTimesOut, Killed
<1>4. proc' = proc \/ proc' = [proc EXCEPT ![i] = "ended"]
  BY DEF RegisterTimesOut, ProcessEnds, Finish, ReleaseTimesOut, Killed
<1>5. UNCHANGED inbox \/ Call("RELEASE", i)
  BY DEF RegisterTimesOut, ProcessEnds, Finish, ReleaseTimesOut, Killed
<1>6. /\ pc' \in [Ids -> {"off", "registering", "running", "releasing", "over"}]
      /\ proc' \in [Ids -> {"none", "alive", "ended"}]
      /\ \A j \in Ids : /\ j # i => pc'[j] = pc[j] /\ proc'[j] = proc[j]
                        /\ j = i => pc'[j] # "off" /\ proc'[j] # "none"
                        /\ proc[j] = "ended" => proc'[j] = "ended"
  BY <1>2, <1>3, <1>4 DEF ModeInv, TypeOK
<1>7. /\ inbox' \in Seq(Messages)
      /\ Addressed \subseteq Addressed' => inbox' \in Seq(Addressed')
  BY <1>5, <1>6, InboxStays, ProgramCalls
<1> QED  BY <1>1, <1>6, <1>7, ProgramKeeps DEF ModeInv, ProcessesStart

-----------------------------------------------------------------------------
(* Every step keeps the invariant: the bridge, the indicator and GameMode. *)

\* The bridge touches only its own state and the inbox.
LEMMA BridgeKeeps ==
  ASSUME ModeInv,
         UNCHANGED <<phase, daemonVars, clientVars, trayVars, outsideVars, blind>>,
         inbox' \in Seq(Messages),
         Addressed \subseteq Addressed' => inbox' \in Seq(Addressed'),
         missed' \subseteq Bridges,
         bridge' \in lives' \cup {None}, lives' \subseteq Bridges,
         greeting' => bridge' # None
  PROVE  ModeInv'
<1>1. UNCHANGED <<phase, workloads, watch, peers, game, mode, authority, pc, proc,
                  tray, view, signals, told, realGame, budget, blind>>
  BY DEF daemonVars, clientVars, trayVars, outsideVars
<1>2. TypeOK'
  BY <1>1 DEF ModeInv, TypeOK
<1>3. Deliverable' /\ ProcessesStart' /\ Registry'
  BY <1>1, StaysAddressed DEF ModeInv, Deliverable, ProcessesStart, Registry
<1>4. State' /\ Shown'
  BY <1>1 DEF ModeInv, State, ModeOf, Shown, Current
<1> QED  BY <1>2, <1>3, <1>4 DEF ModeInv

\* A bridge starts under a name of its own.
LEMMA BridgeStartsKeeps == ModeInv /\ BridgeStarts => ModeInv'
<1> SUFFICES ASSUME ModeInv, BridgeStarts PROVE ModeInv'
  OBVIOUS
<1>1. PICK b \in Bridges \ lives : bridge' = b /\ lives' = lives \cup {b}
  BY DEF BridgeStarts
<1>2. /\ UNCHANGED <<phase, inbox, daemonVars, clientVars, trayVars, outsideVars,
                     blind, missed>>
      /\ UNCHANGED greeting /\ bridge = None
  BY DEF BridgeStarts
<1>3. bridge' \in lives' \cup {None} /\ lives' \subseteq Bridges /\ ~greeting'
  BY <1>1, <1>2 DEF ModeInv, TypeOK
<1> QED  BY <1>2, <1>3, InboxStays, BridgeKeeps DEF ModeInv, TypeOK

\* hello, and what ends the wait for its reply.
LEMMA BridgeGreetsKeeps == ModeInv /\ (BridgeGreets \/ HelloTimesOut) => ModeInv'
<1>1. ASSUME ModeInv, BridgeGreets PROVE ModeInv'
  <2>1. /\ UNCHANGED <<phase, bridge, lives, daemonVars, clientVars, trayVars,
                       outsideVars, blind, missed>>
        /\ bridge # None /\ Call("HELLO", bridge)
    BY <1>1 DEF BridgeGreets
  <2>2. bridge \in Bridges
    BY <1>1, <2>1 DEF ModeInv, TypeOK
  <2>3. [op |-> "HELLO", of |-> bridge] \in Messages
    BY <2>2 DEF Messages
  <2>4. [op |-> "HELLO", of |-> bridge] \in Addressed'
    BY <2>2, <2>3 DEF Addressed, Messages
  <2>5. /\ inbox' \in Seq(Messages)
        /\ Addressed \subseteq Addressed' => inbox' \in Seq(Addressed')
    BY <1>1, <2>1, <2>3, <2>4, CallEffect
  <2> QED  BY <1>1, <2>1, <2>5, BridgeKeeps DEF ModeInv, TypeOK
<1>2. ASSUME ModeInv, HelloTimesOut PROVE ModeInv'
  <2>1. /\ UNCHANGED <<phase, inbox, bridge, lives, daemonVars, clientVars, trayVars,
                       outsideVars, blind, missed>>
        /\ ~greeting'
    BY <1>2 DEF HelloTimesOut
  <2> QED  BY <1>2, <2>1, InboxStays, BridgeKeeps DEF ModeInv, TypeOK
<1> QED  BY <1>1, <1>2

\* The bus tells the daemon of the bridge that had the name.
LEMMA BridgeDiesKeeps == ModeInv /\ BridgeDies => ModeInv'
<1> SUFFICES ASSUME ModeInv, BridgeDies PROVE ModeInv'
  OBVIOUS
<1>1. /\ UNCHANGED <<phase, lives, daemonVars, clientVars, trayVars, outsideVars,
                     blind>>
      /\ bridge' = None /\ ~greeting'
      /\ missed' \subseteq missed \cup {bridge}
      /\ bridge \in Bridges
  BY DEF BridgeDies, ModeInv, TypeOK
<1>2. CASE UNCHANGED inbox
  BY <1>1, <1>2, InboxStays, BridgeKeeps DEF ModeInv, TypeOK
<1>3. CASE inbox' = Append(inbox, [op |-> "LEFT", of |-> bridge])
  <2>1. [op |-> "LEFT", of |-> bridge] \in Messages
    BY <1>1 DEF Messages
  <2>2. [op |-> "LEFT", of |-> bridge] \in Addressed'
    BY <1>1, <2>1 DEF Addressed, Messages
  <2>3. inbox' \in Seq(Messages)
    BY <1>3, <2>1, AppendProperties DEF ModeInv, TypeOK
  <2>4. ASSUME Addressed \subseteq Addressed' PROVE inbox' \in Seq(Addressed')
    <3>1. inbox \in Seq(Addressed')
      BY <2>4, SeqMonotonic DEF ModeInv, Deliverable
    <3> QED  BY <1>3, <2>2, <3>1, AppendProperties
  <2> QED  BY <1>1, <2>3, <2>4, BridgeKeeps DEF ModeInv, TypeOK
<1> QED  BY <1>2, <1>3 DEF BridgeDies

\* An indicator that has just subscribed knows nothing; one that is answered by
\* nobody goes on with the signals.
LEMMA TrayStartsKeeps == ModeInv /\ (TrayStarts \/ StatusTimesOut) => ModeInv'
<1> SUFFICES ASSUME ModeInv, TrayStarts \/ StatusTimesOut PROVE ModeInv'
  OBVIOUS
<1>1. UNCHANGED <<phase, workloads, watch, peers, game, mode, authority, pc, proc,
                  bridge, greeting, lives, view, signals, told, realGame, budget,
                  blind, missed>>
  BY DEF TrayStarts, StatusTimesOut, daemonVars, clientVars, bridgeVars, outsideVars
<1>2. UNCHANGED inbox \/ Call("STATUS", None)
  BY DEF TrayStarts, StatusTimesOut
<1>3. /\ inbox' \in Seq(Messages)
      /\ Addressed \subseteq Addressed' => inbox' \in Seq(Addressed')
  <2>1. [op |-> "STATUS", of |-> None] \in Messages
    BY DEF Messages
  <2>2. [op |-> "STATUS", of |-> None] \in Addressed'
    BY <2>1 DEF Addressed, Messages
  <2> QED  BY <1>2, <2>1, <2>2, InboxStays, CallEffect
<1>4. tray' \in {"asking", "ready"} /\ (tray' = "asking" => tray = "off")
  BY DEF TrayStarts, StatusTimesOut
<1>5. TypeOK'
  BY <1>1, <1>3, <1>4 DEF ModeInv, TypeOK
<1>6. Deliverable' /\ ProcessesStart' /\ Registry' /\ State'
  BY <1>1, <1>3, StaysAddressed DEF ModeInv, Deliverable, ProcessesStart, Registry,
                                    State, ModeOf
<1>7. Shown'
  <2>1. tray = "off" \/ (tray = "asking" /\ tray' = "ready")
    BY DEF TrayStarts, StatusTimesOut
  <2> QED  BY <1>1, <1>4, <2>1 DEF ModeInv, Shown, Current
<1> QED  BY <1>5, <1>6, <1>7 DEF ModeInv

\* The indicator reads a signal: after the last one it shows the state.
LEMMA UpdateStateKeeps == ModeInv /\ UpdateState => ModeInv'
<1> SUFFICES ASSUME ModeInv, UpdateState PROVE ModeInv'
  OBVIOUS
<1>1. UNCHANGED <<phase, inbox, workloads, watch, peers, game, mode, authority, pc,
                  proc, bridge, greeting, lives, tray, told, realGame, budget, blind,
                  missed>>
  BY DEF UpdateState, daemonVars, clientVars, bridgeVars, outsideVars
<1>2. /\ signals # <<>> /\ signals \in Seq(Views)
      /\ view' = Head(signals)
      /\ signals' = Tail(signals)
      /\ tray = "ready"
  BY DEF UpdateState, ModeInv, TypeOK
<1>3. /\ Head(signals) = signals[1] /\ Head(signals) \in Views
      /\ signals' \in Seq(Views)
      /\ Len(signals) \in Nat \ {0}
      /\ Len(signals') = Len(signals) - 1
      /\ \A n \in 1..Len(signals') : signals'[n] = signals[n + 1]
  BY <1>2, HeadTailProperties, EmptySeq
<1>4. Len(signals') <= MaxSignals
  BY <1>3, WorkloadAssumption DEF ModeInv, TypeOK
<1>5. TypeOK'
  BY <1>1, <1>2, <1>3, <1>4 DEF ModeInv, TypeOK
<1>6. Deliverable' /\ ProcessesStart' /\ Registry' /\ State'
  BY <1>1 DEF ModeInv, Deliverable, Addressed, ProcessesStart, Registry, State, ModeOf
<1>7. Shown'
  <2>1. CASE signals' # <<>>
    <3>1. Len(signals') \in Nat \ {0}
      BY <1>3, <2>1, EmptySeq
    <3>2. Last(signals') = Last(signals)
      BY <1>3, <3>1 DEF Last
    <3> QED  BY <1>1, <1>2, <2>1, <3>2 DEF ModeInv, Shown, Current
  <2>2. CASE signals' = <<>>
    <3>1. Len(signals) = 1
      BY <1>3, <2>2, EmptySeq
    <3>2. Last(signals) = Head(signals)
      BY <1>3, <3>1 DEF Last
    <3> QED  BY <1>1, <1>2, <2>2, <3>2 DEF ModeInv, Shown, Current
  <2> QED  BY <2>1, <2>2
<1> QED  BY <1>5, <1>6, <1>7 DEF ModeInv

\* GameMode changes where the daemon does not see it yet.
LEMMA GameChangesKeeps == ModeInv /\ GameChanges => ModeInv'
<1> SUFFICES ASSUME ModeInv, GameChanges PROVE ModeInv'
  OBVIOUS
<1>1. UNCHANGED <<phase, inbox, workloads, watch, peers, game, mode, authority, pc,
                  proc, bridge, greeting, lives, tray, view, signals, told, blind,
                  missed>>
  BY DEF GameChanges, daemonVars, clientVars, bridgeVars, trayVars
<1>2. budget' \in 0..MaxEvents /\ realGame' \in {"UNAVAILABLE", "AVAILABLE", "ACTIVE"}
  BY WorkloadAssumption DEF GameChanges, ModeInv, TypeOK
<1>3. TypeOK'
  BY <1>1, <1>2 DEF ModeInv, TypeOK
<1> QED
  BY <1>1, <1>3 DEF ModeInv, Deliverable, Addressed, ProcessesStart, Registry, State,
                    ModeOf, Shown, Current

-----------------------------------------------------------------------------
(* The theorems.                                                           *)

\* Every step of the daemon, the programs, the bridge and the indicator keeps the
\* invariant.
LEMMA ModeGoesOn == ModeInv /\ [Next]_vars => ModeInv'
<1> SUFFICES ASSUME ModeInv, [Next]_vars PROVE ModeInv'
  OBVIOUS
<1>1. CASE UNCHANGED vars
  BY <1>1 DEF vars, daemonVars, clientVars, bridgeVars, trayVars, outsideVars, ModeInv,
              TypeOK, Deliverable, Addressed, ProcessesStart, Registry, State, ModeOf,
              Shown, Current
<1>2. CASE TakeName \/ WatchBus \/ Crash
  BY <1>2, TakeNameKeeps, WatchBusKeeps, CrashKeeps
<1>3. CASE Handle
  BY <1>3, RegisterWorkloadKeeps, ReleaseWorkloadKeeps, HelloKeeps,
     ServiceOwnerChangedKeeps, StatusKeeps DEF Handle
<1>4. CASE RefreshGameMode \/ QueryFails \/ RefreshCoexistencePeers
  BY <1>4, GamePollKeeps, RefreshCoexistencePeersKeeps
<1>5. CASE \E i \in Ids : \/ ProcessGone(i) \/ Start(i) \/ RegisterTimesOut(i)
                          \/ ProcessEnds(i) \/ Finish(i) \/ ReleaseTimesOut(i)
                          \/ Killed(i)
  BY <1>5, ProcessGoneKeeps, StartKeeps, ProgramGoesOn
<1>6. CASE BridgeStarts \/ BridgeGreets \/ HelloTimesOut \/ BridgeDies
  BY <1>6, BridgeStartsKeeps, BridgeGreetsKeeps, BridgeDiesKeeps
<1>7. CASE TrayStarts \/ StatusTimesOut \/ UpdateState \/ GameChanges
  BY <1>7, TrayStartsKeeps, UpdateStateKeeps, GameChangesKeeps
<1> QED  BY <1>1, <1>2, <1>3, <1>4, <1>5, <1>6, <1>7 DEF Next

\* ModeInv holds of every behaviour of daemon, programs, bridge and indicator.
THEOREM ModeInvariance == Spec => []ModeInv
<1>1. Init => ModeInv
  BY ModeBegins
<1>2. ModeInv /\ [Next]_vars => ModeInv'
  BY ModeGoesOn
<1> QED  BY <1>1, <1>2, PTL DEF Spec

\* The types of WorkloadMode.
THEOREM ModeTypeCorrectness == Spec => []TypeOK
<1>1. ModeInv => TypeOK
  BY DEF ModeInv
<1> QED  BY <1>1, ModeInvariance, PTL

\* After every handler of ModeManager the registry, the watches, the mode, the
\* authority and what the indicator has been told fit together.
THEOREM DaemonStaysCoherent == Spec => []DaemonIsCoherent
<1>1. ModeInv => DaemonIsCoherent
  BY DEF ModeInv, Registry, State, Shown, Current, Newest, DaemonIsCoherent
<1> QED  BY <1>1, ModeInvariance, PTL
=============================================================================
