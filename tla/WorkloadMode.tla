---------------------------- MODULE WorkloadMode ----------------------------
(***************************************************************************)
(* Workload Mode (src/apps/workload-mode): the daemon workmoded with its   *)
(* ModeManager, the programs that register workloads with it (workmoderun  *)
(* and the Blender add-on, which calls workmodectl), the FA3 bridge and    *)
(* the tray indicator, over the session bus.                               *)
(*                                                                         *)
(* The daemon is one event loop: it takes the messages of the bus in their *)
(* order, one handler at a time.  Its clients wait for the reply, but not  *)
(* for ever, and may be killed; it may crash and is started again (systemd *)
(* Restart=on-failure) with nothing of what it knew.                       *)
(*                                                                         *)
(* A mode is the set of its domains.  The list of coexisting tuners is not *)
(* kept, only that a change of it publishes the state.  Every workload is  *)
(* registered with the pid of its process, and no pid is used again.       *)
(***************************************************************************)
EXTENDS Integers, Sequences, SequencesExt, FiniteSets

CONSTANTS Ids,            \* workload ids, one for each program
          Wrapped,        \* those of workmoderun; the others are Blender's
          Domain,         \* Domain[i]: the domain i registers
          Bridges,        \* unique bus names of the bridge, one for each life
          MaxInbox,       \* calls waiting for the daemon
          MaxSignals,     \* signals waiting for the indicator
          MaxEvents,      \* crashes of the daemon, changes of GameMode and
                          \* of the tuners, and failed queries
          None

ASSUME WorkloadAssumption ==
  /\ Wrapped \subseteq Ids
  /\ Domain \in [Ids -> {"AI", "RENDER", "GAME"}]
  /\ None \notin Bridges
  /\ {MaxInbox, MaxSignals, MaxEvents} \subseteq Nat

VARIABLES phase,      \* of the daemon: has it the name, does it watch the bus
          inbox,      \* messages the daemon has not handled
          workloads,  \* m_workloads: the registered ids
          watch,      \* m_pidFds: the ids whose process it watches
          peers,      \* m_fa3Peers
          game,       \* m_gameModeState
          mode,       \* m_effectiveMode
          authority,  \* m_authority
          pc,         \* pc[i]: where the program of workload i is
          proc,       \* proc[i]: the process whose pid it registers
          bridge,     \* the bus name of the living bridge
          greeting,   \* the bridge waits for the reply to Hello
          lives,      \* bus names the bridge has had
          tray,       \* the indicator
          view,       \* what it shows
          signals,    \* StateChanged signals it has not read
          realGame,   \* the state of GameMode
          budget,     \* the events of MaxEvents so far
          blind,      \* history: registered ids whose pidfd_open failed
          missed,     \* history: peers whose end the daemon could not see
          told        \* history: this daemon has told the indicator its state

daemonVars == <<workloads, watch, peers, game, mode, authority>>
clientVars == <<pc, proc>>
bridgeVars == <<bridge, greeting, lives>>
trayVars == <<tray, view, signals, told>>
outsideVars == <<realGame, budget>>
vars == <<phase, inbox, daemonVars, clientVars, bridgeVars, trayVars,
          outsideVars, blind, missed>>

Authorities == {"WORKLOAD_MODE_LOCAL", "FA3_HRB", "UNAVAILABLE"}
Views == [mode : SUBSET {"AI", "RENDER", "GAME", "DEGRADED"}, authority : Authorities]
Messages == [op : {"REGISTER", "RELEASE", "HELLO", "LEFT", "STATUS"},
             of : Ids \cup Bridges \cup {None}]

\* The types.
TypeOK ==
  /\ phase \in {"down", "named", "running"}
  /\ inbox \in Seq(Messages)
  /\ workloads \subseteq Ids
  /\ watch \subseteq Ids
  /\ blind \subseteq Ids
  /\ peers \subseteq Bridges
  /\ game \in {"UNAVAILABLE", "AVAILABLE", "ACTIVE"}
  /\ realGame \in {"UNAVAILABLE", "AVAILABLE", "ACTIVE"}
  /\ mode \subseteq {"AI", "RENDER", "GAME"}
  /\ authority \in Authorities
  /\ pc \in [Ids -> {"off", "registering", "running", "releasing", "over"}]
  /\ proc \in [Ids -> {"none", "alive", "ended"}]
  /\ bridge \in lives \cup {None}
  /\ lives \subseteq Bridges
  /\ greeting => bridge # None
  /\ tray \in {"off", "asking", "ready"}
  /\ view \in Views
  /\ signals \in Seq(Views) /\ Len(signals) <= MaxSignals
  /\ missed \subseteq Bridges
  /\ told \in BOOLEAN
  /\ budget \in 0..MaxEvents

Init ==
  /\ phase = "down"
  /\ inbox = <<>> /\ workloads = {} /\ watch = {} /\ peers = {} /\ mode = {}
  /\ game = "UNAVAILABLE" /\ authority = "WORKLOAD_MODE_LOCAL"
  /\ blind = {} /\ missed = {} /\ told = FALSE
  /\ pc = [i \in Ids |-> "off"]
  /\ proc = [i \in Ids |-> "none"]
  /\ bridge = None /\ greeting = FALSE /\ lives = {}
  /\ tray = "off"
  /\ view = [mode |-> {"DEGRADED"}, authority |-> "UNAVAILABLE"]
  /\ signals = <<>>
  /\ realGame \in {"UNAVAILABLE", "AVAILABLE", "ACTIVE"}
  /\ budget = 0

-----------------------------------------------------------------------------
\* publish: the signal goes to an indicator that has subscribed.  One that says
\* the same as the signal before it is not kept: it shows nothing new.
Publish(m, a) ==
  /\ mode' = m
  /\ authority' = a
  /\ IF tray = "off"
     THEN UNCHANGED <<signals, told>>
     ELSE LET news == [mode |-> m, authority |-> a]
          IN /\ told' = TRUE
             /\ IF signals # <<>> /\ Last(signals) = news
                THEN UNCHANGED signals
                ELSE /\ Len(signals) < MaxSignals
                     /\ signals' = Append(signals, news)

\* The mode recompute arrives at; the mutant leaves GameMode out.
MutModeOf(ids, g) == {Domain[i] : i \in ids}
ModeOf(ids, g) ==
  {Domain[i] : i \in ids} \cup (IF g = "ACTIVE" THEN {"GAME"} ELSE {})

Recompute(ids, g) == Publish(ModeOf(ids, g), authority)

Quiet == UNCHANGED <<mode, authority, signals, told>>

-----------------------------------------------------------------------------
(* The daemon.  *)

\* main: registerService, and later serviceOwnerChanged is connected and both
\* states are polled once before the event loop runs (a tuner that is found then
\* is a RefreshCoexistencePeers soon after).
TakeName ==
  /\ phase = "down"
  /\ phase' = "named"
  /\ UNCHANGED <<inbox, daemonVars, clientVars, bridgeVars, trayVars,
                 outsideVars, blind, missed>>

WatchBus ==
  /\ phase = "named"
  /\ phase' = "running"
  /\ game' = realGame
  /\ IF realGame # game THEN Recompute(workloads, realGame) ELSE Quiet
  /\ UNCHANGED <<inbox, workloads, watch, peers, clientVars, bridgeVars, tray,
                 view, outsideVars, blind, missed>>

Takes(op) ==
  /\ phase = "running"
  /\ inbox # <<>>
  /\ Head(inbox).op = op
  /\ inbox' = Tail(inbox)

\* dropPidWatch and trackPid in RegisterWorkload; the mutant has them the other
\* way round.  pidfd_open may find a process that ended, if nobody reaped it, and
\* may fail on one that lives (EMFILE, ENOMEM): the workload is then registered
\* and not watched.
MutWatched(i, opened) == watch \ {i}
Watched(i, opened) == (watch \ {i}) \cup (IF opened THEN {i} ELSE {})

RegisterWorkload ==
  /\ Takes("REGISTER")
  /\ LET i == Head(inbox).of
     IN /\ workloads' = workloads \cup {i}
        /\ \E opened \in BOOLEAN :
             /\ watch' = Watched(i, opened)
             /\ blind' = IF opened THEN blind \ {i} ELSE blind \cup {i}
        /\ Recompute(workloads', game)
        /\ pc' = IF pc[i] = "registering" THEN [pc EXCEPT ![i] = "running"] ELSE pc
  /\ UNCHANGED <<phase, peers, game, proc, bridgeVars, tray, view, outsideVars,
                 missed>>

\* The mutant keeps the descriptor of the process.
MutUnwatched(i) == watch
Unwatched(i) == watch \ {i}

Dropped(i) ==
  /\ workloads' = workloads \ {i}
  /\ watch' = Unwatched(i)
  /\ blind' = blind \ {i}
  /\ Recompute(workloads', game)

ReleaseWorkload ==
  /\ Takes("RELEASE")
  /\ LET i == Head(inbox).of
     IN /\ Dropped(i)
        /\ pc' = IF pc[i] = "releasing" THEN [pc EXCEPT ![i] = "over"] ELSE pc
  /\ UNCHANGED <<phase, peers, game, proc, bridgeVars, tray, view, outsideVars,
                 missed>>

\* The notifier of the pidfd.
ProcessGone(i) ==
  /\ phase = "running"
  /\ i \in watch
  /\ proc[i] = "ended"
  /\ Dropped(i)
  /\ UNCHANGED <<phase, inbox, peers, game, clientVars, bridgeVars, tray, view,
                 outsideVars, missed>>

Hello ==
  /\ Takes("HELLO")
  /\ peers' = peers \cup {Head(inbox).of}
  /\ Publish(mode, "FA3_HRB")
  /\ greeting' = (greeting /\ bridge # Head(inbox).of)
  /\ UNCHANGED <<phase, workloads, watch, game, clientVars, bridge, lives, tray,
                 view, outsideVars, blind, missed>>

\* What the authority is when the peers are `left`; the mutant does not give it
\* up.
MutAuthorityOf(left) == authority
AuthorityOf(left) == IF left = {} THEN "WORKLOAD_MODE_LOCAL" ELSE authority

ServiceOwnerChanged ==
  /\ Takes("LEFT")
  /\ LET left == peers \ {Head(inbox).of}
     IN /\ peers' = left
        /\ IF left # peers /\ left = {}
           THEN Publish(mode, AuthorityOf(left))
           ELSE Quiet
  /\ UNCHANGED <<phase, workloads, watch, game, clientVars, bridgeVars, tray,
                 view, outsideVars, blind, missed>>

Status ==
  /\ Takes("STATUS")
  /\ IF tray = "asking"
     THEN /\ tray' = "ready"
          /\ view' = [mode |-> mode, authority |-> authority]
          /\ told' = TRUE
     ELSE UNCHANGED <<tray, view, told>>
  /\ UNCHANGED <<phase, daemonVars, clientVars, bridgeVars, signals,
                 outsideVars, blind, missed>>

SeeGame(g) ==
  /\ phase = "running"
  /\ g # game
  /\ game' = g
  /\ Recompute(workloads, g)
  /\ UNCHANGED <<phase, inbox, workloads, watch, peers, clientVars, bridgeVars,
                 tray, view, realGame, blind, missed>>

RefreshGameMode == SeeGame(realGame) /\ UNCHANGED budget

\* QueryStatus fails: an active GameMode looks available only.
QueryFails ==
  /\ realGame = "ACTIVE"
  /\ budget < MaxEvents
  /\ SeeGame("AVAILABLE")
  /\ budget' = budget + 1

\* A tuner was started or has ended.
RefreshCoexistencePeers ==
  /\ phase = "running"
  /\ budget < MaxEvents
  /\ budget' = budget + 1
  /\ Publish(mode, authority)
  /\ UNCHANGED <<phase, inbox, workloads, watch, peers, game, clientVars,
                 bridgeVars, tray, view, realGame, blind, missed>>

\* The bus answers the calls that wait with an error.
Crash ==
  /\ phase # "down"
  /\ budget < MaxEvents
  /\ budget' = budget + 1
  /\ phase' = "down"
  /\ inbox' = <<>> /\ workloads' = {} /\ watch' = {} /\ peers' = {} /\ mode' = {}
  /\ game' = "UNAVAILABLE" /\ authority' = "WORKLOAD_MODE_LOCAL"
  /\ blind' = {} /\ missed' = {} /\ told' = FALSE
  /\ pc' = [i \in Ids |-> CASE pc[i] = "registering" ->
                                 IF i \in Wrapped THEN "over" ELSE "running"
                            [] pc[i] = "releasing" -> "over"
                            [] OTHER -> pc[i]]
  /\ proc' = [i \in Ids |-> IF i \in Wrapped /\ pc[i] = "registering"
                            THEN "ended" ELSE proc[i]]
  /\ greeting' = FALSE
  /\ tray' = IF tray = "asking" THEN "ready" ELSE tray
  /\ UNCHANGED <<bridge, lives, view, signals, realGame>>

-----------------------------------------------------------------------------
(* The programs.  *)

\* A call, if somebody has the name; it is refused at once otherwise.
Call(op, of) ==
  /\ phase # "down"
  /\ Len(inbox) < MaxInbox
  /\ inbox' = Append(inbox, [op |-> op, of |-> of])

Others == <<phase, daemonVars, bridgeVars, trayVars, outsideVars, blind, missed>>

\* workmoderun gives up without the daemon and ends its child; the add-on does
\* not look.
Refused(i) ==
  IF i \in Wrapped
  THEN pc' = [pc EXCEPT ![i] = "over"] /\ proc' = [proc EXCEPT ![i] = "ended"]
  ELSE pc' = [pc EXCEPT ![i] = "running"] /\ proc' = [proc EXCEPT ![i] = "alive"]

Start(i) ==
  /\ pc[i] = "off"
  /\ \/ /\ Call("REGISTER", i)
        /\ pc' = [pc EXCEPT ![i] = "registering"]
        /\ proc' = [proc EXCEPT ![i] = "alive"]
     \/ phase = "down" /\ Refused(i) /\ UNCHANGED inbox
  /\ UNCHANGED Others

\* The reply to RegisterWorkload does not come in time.
RegisterTimesOut(i) ==
  /\ pc[i] = "registering"
  /\ IF i \in Wrapped
     THEN pc' = [pc EXCEPT ![i] = "over"] /\ proc' = [proc EXCEPT ![i] = "ended"]
     ELSE pc' = [pc EXCEPT ![i] = "running"] /\ UNCHANGED proc
  /\ UNCHANGED <<inbox, Others>>

\* The process ends: the child of workmoderun, or Blender with the add-on.
ProcessEnds(i) ==
  /\ proc[i] = "alive"
  /\ proc' = [proc EXCEPT ![i] = "ended"]
  /\ pc' = IF i \in Wrapped THEN pc ELSE [pc EXCEPT ![i] = "over"]
  /\ UNCHANGED <<inbox, Others>>

\* waitForFinished returns; the render is complete or cancelled.
Finish(i) ==
  /\ pc[i] = "running"
  /\ i \in Wrapped => proc[i] = "ended"
  /\ \/ Call("RELEASE", i) /\ pc' = [pc EXCEPT ![i] = "releasing"]
     \/ phase = "down" /\ pc' = [pc EXCEPT ![i] = "over"] /\ UNCHANGED inbox
  /\ UNCHANGED <<proc, Others>>

ReleaseTimesOut(i) ==
  /\ pc[i] = "releasing"
  /\ pc' = [pc EXCEPT ![i] = "over"]
  /\ UNCHANGED <<proc, inbox, Others>>

\* workmoderun is killed; its child goes on.
Killed(i) ==
  /\ i \in Wrapped
  /\ pc[i] \in {"registering", "running", "releasing"}
  /\ pc' = [pc EXCEPT ![i] = "over"]
  /\ UNCHANGED <<proc, inbox, Others>>

-----------------------------------------------------------------------------
(* The bridge, the indicator and GameMode.  *)

BridgeStarts ==
  /\ bridge = None
  /\ \E b \in Bridges \ lives :
       bridge' = b /\ lives' = lives \cup {b}
  /\ UNCHANGED <<phase, inbox, greeting, daemonVars, clientVars, trayVars,
                 outsideVars, blind, missed>>

\* hello, when the bridge starts, when the name appears and every five seconds.
BridgeGreets ==
  /\ bridge # None
  /\ ~greeting
  /\ Call("HELLO", bridge)
  /\ greeting' = TRUE
  /\ UNCHANGED <<phase, bridge, lives, daemonVars, clientVars, trayVars,
                 outsideVars, blind, missed>>

HelloTimesOut ==
  /\ greeting
  /\ greeting' = FALSE
  /\ UNCHANGED <<phase, inbox, bridge, lives, daemonVars, clientVars, trayVars,
                 outsideVars, blind, missed>>

\* The bus tells a daemon that watches it; what a daemon that does not yet will
\* find in its inbox is the greeting only.
BridgeDies ==
  /\ bridge # None
  /\ bridge' = None
  /\ greeting' = FALSE
  /\ inbox' = IF phase = "running"
              THEN Append(inbox, [op |-> "LEFT", of |-> bridge]) ELSE inbox
  /\ missed' = IF phase = "named" THEN missed \cup {bridge} ELSE missed
  /\ UNCHANGED <<phase, lives, daemonVars, clientVars, trayVars, outsideVars, blind>>

\* Tray: it subscribes and asks for the state.
TrayStarts ==
  /\ tray = "off"
  /\ \/ Call("STATUS", None) /\ tray' = "asking"
     \/ phase = "down" /\ tray' = "ready" /\ UNCHANGED inbox
  /\ UNCHANGED <<phase, daemonVars, clientVars, bridgeVars, view, signals, told,
                 outsideVars, blind, missed>>

StatusTimesOut ==
  /\ tray = "asking"
  /\ tray' = "ready"
  /\ UNCHANGED <<phase, inbox, daemonVars, clientVars, bridgeVars, view, signals,
                 told, outsideVars, blind, missed>>

UpdateState ==
  /\ tray = "ready"
  /\ signals # <<>>
  /\ view' = Head(signals)
  /\ signals' = Tail(signals)
  /\ UNCHANGED <<phase, inbox, daemonVars, clientVars, bridgeVars, tray, told,
                 outsideVars, blind, missed>>

GameChanges ==
  /\ budget < MaxEvents
  /\ budget' = budget + 1
  /\ \E g \in {"UNAVAILABLE", "AVAILABLE", "ACTIVE"} \ {realGame} : realGame' = g
  /\ UNCHANGED <<phase, inbox, daemonVars, clientVars, bridgeVars, trayVars,
                 blind, missed>>

-----------------------------------------------------------------------------
Handle == \/ RegisterWorkload \/ ReleaseWorkload \/ Hello
          \/ ServiceOwnerChanged \/ Status

Next ==
  \/ TakeName \/ WatchBus \/ Handle \/ RefreshGameMode \/ QueryFails
  \/ RefreshCoexistencePeers \/ Crash
  \/ \E i \in Ids : \/ ProcessGone(i) \/ Start(i) \/ RegisterTimesOut(i)
                    \/ ProcessEnds(i) \/ Finish(i) \/ ReleaseTimesOut(i)
                    \/ Killed(i)
  \/ BridgeStarts \/ BridgeGreets \/ HelloTimesOut \/ BridgeDies
  \/ TrayStarts \/ StatusTimesOut \/ UpdateState \/ GameChanges

\* systemd starts the daemon again, its event loop and those of the bridge and
\* of the indicator go on, a call times out at last, and a workmoderun whose
\* child ended comes to release.
Fairness ==
  /\ WF_vars(TakeName) /\ WF_vars(WatchBus) /\ WF_vars(Handle)
  /\ WF_vars(RefreshGameMode)
  /\ \A i \in Ids : WF_vars(ProcessGone(i)) /\ WF_vars(Finish(i) /\ i \in Wrapped)
  /\ WF_vars(BridgeGreets) /\ WF_vars(UpdateState) /\ WF_vars(StatusTimesOut)

Spec == Init /\ [][Next]_vars /\ Fairness

-----------------------------------------------------------------------------
\* What the indicator shows once it has read its signals.
Newest == IF signals = <<>> THEN view ELSE Last(signals)

\* What the daemon holds fits together after every message, whatever timed out,
\* was killed or crashed: it watches no process but those of registered
\* workloads, and all of these but the ones its last pidfd_open failed on; its
\* mode is that of the workloads and of GameMode; it follows FA3 exactly while it
\* knows a peer; and an indicator that it has told anything comes to show just
\* that, the answer to Status included.
DaemonIsCoherent ==
  /\ watch \subseteq workloads /\ blind = workloads \ watch
  /\ mode = ModeOf(workloads, game)
  /\ authority = "FA3_HRB" <=> peers # {}
  /\ told /\ tray = "ready" => Newest = [mode |-> mode, authority |-> authority]

\* Once the programs are quiet, no workload is registered whose process has
\* ended, unless pidfd_open failed on it: the release, the notifier and the order
\* of both in RegisterWorkload see to it, whatever timed out, was killed or
\* crashed.
GhostsLeave ==
  <>[](phase = "running" =>
         \A i \in workloads : proc[i] = "ended" => i \in blind)

\* The daemon comes to follow the FA3 authority as long as a bridge lives, and
\* only then, unless one died before the daemon watched the bus.
AuthorityFollowsBridge ==
  <>[](phase = "running" /\ missed = {} =>
         (authority = "FA3_HRB" <=> bridge # None))

\* What the indicator shows comes to be what is registered, provided the daemon
\* has told it anything since the indicator subscribed and the daemon started:
\* no signal read after the answer to Status takes it back.
ViewCatchesUp ==
  <>[](phase = "running" /\ tray = "ready" /\ told =>
         /\ view.mode \ {"GAME"} = {Domain[i] : i \in workloads} \ {"GAME"}
         /\ "GAME" \in view.mode <=>
              game = "ACTIVE" \/ \E i \in workloads : Domain[i] = "GAME"
         /\ view.authority = "FA3_HRB" <=> peers # {})
=============================================================================
