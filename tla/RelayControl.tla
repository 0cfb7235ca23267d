----------------------------- MODULE RelayControl -----------------------------
(***************************************************************************)
(* The control connection of the runtime to its relay                        *)
(* (relay_control/setup.rs and reconnect.rs) and the publication of the      *)
(* local discovery snapshot over it (discovery/).                            *)
(*                                                                         *)
(* RelayDomainState holds one control slot, one configuration, and one       *)
(* reconnect task guarded by reconnect_active.  Three kinds of task write    *)
(* them: ConfigureRelay tasks, the reconnect loop and the event consumer of  *)
(* each control client; DisconnectRelay and NetworkEnvironmentChanged are    *)
(* handled on the serial command worker.                                     *)
(*                                                                         *)
(* The relay is external: a new control connection of the device closes the  *)
(* previous one, and a snapshot is stored only for the connection that holds *)
(* the presence lease, with a greater revision or an identical content.      *)
(* The clients themselves are RelayClient's subject; the shutdown of the     *)
(* runtime, which aborts every task, is TaskSupervisor's.                    *)
(***************************************************************************)
EXTENDS Naturals

CONSTANTS
    RlClients,      \* names for the control clients alive at one time
    RlLoops,        \* names for the reconnect loops alive at one time
    RlMaxCommands,  \* bound on the commands
    RlOps,          \* which commands: "configure", "disconnect", "environment"
    RlAttempts,     \* DISCOVERY_PUBLISH_MAX_ATTEMPTS
    RlBudget        \* bound on lost sockets, failed dials and lost acknowledgements

ASSUME RelayControlAssumption ==
    /\ RlClients \cap (1..RlMaxCommands) = {} /\ "none" \notin RlClients
    /\ RlMaxCommands \in Nat /\ RlBudget \in Nat /\ RlAttempts \in Nat \ {0}
    /\ RlOps \subseteq {"configure", "disconnect", "environment"}

VARIABLES
    rlConfig,       \* config is Some
    rlStale,        \* credential_stale
    rlSlot,         \* control: the client, or RlNone
    rlClient,       \* "none", "up", or "lost" once the client has seen its end
    rlConsumer,     \* consume_control_events of each client
    rlActive,       \* reconnect_active
    rlTask,         \* reconnect_task: the loop, or RlNone
    rlStoring,      \* loops spawned whose id is not stored yet
    rlLoop,         \* the reconnect loops
    rlCmd,          \* the commands
    rlRev,          \* LocalDiscoveryManager: revision
    rlBundle,       \* the revision whose candidates the bundle holds
    rlState,        \* LocalDiscoveryState
    rlPub,          \* publish calls: one per client installed, one per command
    rlServer,       \* relay: lease holder and stored snapshot
    rlSpent         \* lost sockets, failed dials and lost acknowledgements so far

rlVars == <<rlConfig, rlStale, rlSlot, rlClient, rlConsumer, rlActive, rlTask, rlStoring, rlLoop,
            rlCmd, rlRev, rlBundle, rlState, rlPub, rlServer, rlSpent>>

RlNone == "none"
RlCommands == 1..RlMaxCommands
RlPubs == RlClients \cup RlCommands

rlControl == <<rlConfig, rlStale, rlSlot, rlClient, rlConsumer>>
rlReconnect == <<rlActive, rlTask, rlStoring, rlLoop>>
rlDiscovery == <<rlRev, rlBundle, rlState, rlPub>>

Resting == [pc |-> "none", client |-> RlNone]
NoPub == [pc |-> "none", client |-> RlNone, rev |-> 0, bundle |-> 0, tries |-> 0]

RelayControlInit ==
    /\ rlConfig = FALSE /\ rlStale = FALSE /\ rlSlot = RlNone
    /\ rlClient = [n \in RlClients |-> "none"]
    /\ rlConsumer = [n \in RlClients |-> "none"]
    /\ rlActive = FALSE /\ rlTask = RlNone /\ rlStoring = {}
    /\ rlLoop = [k \in RlLoops |-> Resting]
    /\ rlCmd = [c \in RlCommands |-> [pc |-> "new", op |-> RlNone, client |-> RlNone]]
    /\ rlRev = 1 /\ rlBundle = 1 /\ rlState = "idle"
    /\ rlPub = [p \in RlPubs |-> NoPub]
    /\ rlServer = [owner |-> RlNone, rev |-> 0, bundle |-> 0]
    /\ rlSpent = 0

Trouble ==
    /\ rlSpent < RlBudget
    /\ rlSpent' = rlSpent + 1

------------------------------------------------------------------------------
(* Scheduling and stopping the reconnect loop *)

FreeLoops == {k \in RlLoops : rlLoop[k] = Resting /\ rlTask # k /\ k \notin rlStoring}

\* schedule_relay_reconnect, with the loops as the caller leaves them.  The
\* id of the spawned task is stored a moment later, by StoreTask.
ScheduleReconnect(loops) ==
    IF rlActive \/ rlStale
    THEN rlLoop' = loops /\ UNCHANGED <<rlActive, rlStoring>>
    ELSE /\ FreeLoops # {}
         /\ LET k == CHOOSE k \in FreeLoops : TRUE
            IN  /\ rlLoop' = [loops EXCEPT ![k].pc = "sleep"]
                /\ rlStoring' = rlStoring \cup {k}
         /\ rlActive' = TRUE

StoreTask(k) ==
    /\ k \in rlStoring
    /\ rlStoring' = rlStoring \ {k}
    /\ rlTask' = k
    /\ UNCHANGED <<rlActive, rlLoop, rlControl, rlCmd, rlDiscovery, rlServer, rlSpent>>

\* stop_relay_reconnect_task in two steps: the flag, then the stored task.  A
\* loop that is past its last await runs to its end; one that had connected
\* drops its client.
StopFlag(c) ==
    /\ rlCmd[c].pc = "stop"
    /\ rlCmd' = [rlCmd EXCEPT ![c].pc = "cancel"]
    /\ rlActive' = FALSE
    /\ UNCHANGED <<rlControl, rlTask, rlStoring, rlLoop, rlDiscovery, rlServer, rlSpent>>

Aborted(k) == k \in RlLoops /\ rlLoop[k].pc \notin {"ending", "ended"}

StopTaken(c) ==
    /\ rlCmd[c].pc = "cancel"
    /\ rlCmd' = [rlCmd EXCEPT ![c].pc = "clear"]
    /\ rlTask' = RlNone
    /\ rlLoop' = [k \in RlLoops |-> IF k = rlTask /\ Aborted(k) THEN Resting ELSE rlLoop[k]]
    /\ rlClient' = [n \in RlClients |->
         IF \E k \in RlLoops : k = rlTask /\ rlLoop[k] = [pc |-> "install", client |-> n]
         THEN "none" ELSE rlClient[n]]
    /\ UNCHANGED <<rlConfig, rlStale, rlSlot, rlConsumer, rlActive, rlStoring, rlDiscovery,
                   rlServer, rlSpent>>

------------------------------------------------------------------------------
(* Dialling: setup_v2_control_plane *)

Holds(n) ==
    \/ rlSlot = n \/ \E p \in RlPubs : rlPub[p].client = n
    \/ \E k \in RlLoops : rlLoop[k].client = n
    \/ \E c \in RlCommands : rlCmd[c].client = n
FreeClients == {n \in RlClients : rlClient[n] = "none" /\ rlPub[n] = NoPub /\ ~Holds(n)}

\* The new connection takes the presence lease and the relay closes the
\* previous one.
Connects(n) ==
    /\ n \in FreeClients /\ n = CHOOSE m \in FreeClients : TRUE
    /\ rlClient' = [m \in RlClients |->
         CASE m = n -> "up" [] rlClient[m] = "up" -> "lost" [] OTHER -> rlClient[m]]
    /\ rlServer' = [rlServer EXCEPT !.owner = n]

\* Mutant: a publication under way is taken to be enough.
PublishesIfIdle(n) ==
    rlPub' = IF rlState = "idle" THEN [rlPub EXCEPT ![n].pc = "start"] ELSE rlPub
Publishes(n) == rlPub' = [rlPub EXCEPT ![n].pc = "start"]
\* The client goes into the slot, its consumer and the publication of the
\* snapshot are spawned.
Install(n) ==
    /\ rlSlot' = n
    /\ rlConsumer' = [rlConsumer EXCEPT ![n] = "run"]
    /\ Publishes(n)

------------------------------------------------------------------------------
(* Commands *)

\* The worker is busy with a command it handles itself.
Busy == \E c \in RlCommands :
    rlCmd[c].op \in {"disconnect", "environment"} /\ rlCmd[c].pc # "done"

CommandStart(c, op) ==
    /\ rlCmd[c].pc = "new" /\ ~Busy
    /\ \A d \in RlCommands : d < c => rlCmd[d].pc # "new"
    /\ rlCmd' = [rlCmd EXCEPT ![c].op = op,
                              ![c].pc = IF op = "environment" THEN "bump" ELSE "stop"]
    /\ UNCHANGED <<rlControl, rlReconnect, rlDiscovery, rlServer, rlSpent>>

ClearConfig(c) ==
    /\ rlCmd[c].pc = "clear"
    /\ rlConfig' = FALSE
    /\ rlStale' = IF rlCmd[c].op = "configure" THEN FALSE ELSE rlStale
    /\ rlCmd' = [rlCmd EXCEPT ![c].pc = IF rlCmd[c].op = "configure" THEN "set" ELSE "drop"]
    /\ UNCHANGED <<rlSlot, rlClient, rlConsumer, rlReconnect, rlDiscovery, rlServer, rlSpent>>

\* disconnect_relay takes the client out of the slot; its consumer keeps it.
DropControl(c) ==
    /\ rlCmd[c].pc = "drop"
    /\ rlSlot' = RlNone
    /\ rlCmd' = [rlCmd EXCEPT ![c].pc = "done"]
    /\ UNCHANGED <<rlConfig, rlStale, rlClient, rlConsumer, rlReconnect, rlDiscovery, rlServer,
                   rlSpent>>

SetConfig(c) ==
    /\ rlCmd[c].pc = "set"
    /\ rlConfig' = TRUE
    /\ rlCmd' = [rlCmd EXCEPT ![c].pc = "dial"]
    /\ UNCHANGED <<rlStale, rlSlot, rlClient, rlConsumer, rlReconnect, rlDiscovery, rlServer,
                   rlSpent>>

\* An invalid URL is only reported, a rejected credential stops the
\* reconnection, anything else schedules it.
ConfigureFails(c) ==
    /\ rlCmd[c].pc = "dial" /\ Trouble
    /\ rlCmd' = [rlCmd EXCEPT ![c].pc = "done"]
    /\ \/ UNCHANGED <<rlStale, rlReconnect>>
       \/ rlStale' = TRUE /\ UNCHANGED rlReconnect
       \/ ScheduleReconnect(rlLoop) /\ UNCHANGED <<rlStale, rlTask>>
    /\ UNCHANGED <<rlConfig, rlSlot, rlClient, rlConsumer, rlDiscovery, rlServer>>

ConfigureConnects(c) ==
    /\ rlCmd[c].pc = "dial"
    /\ \E n \in RlClients :
         /\ Connects(n)
         /\ rlCmd' = [rlCmd EXCEPT ![c].pc = "install", ![c].client = n]
    /\ UNCHANGED <<rlConfig, rlStale, rlSlot, rlConsumer, rlReconnect, rlDiscovery, rlSpent>>

ConfigureInstalls(c) ==
    /\ rlCmd[c].pc = "install"
    /\ Install(rlCmd[c].client)
    /\ rlCmd' = [rlCmd EXCEPT ![c].pc = "done", ![c].client = RlNone]
    /\ UNCHANGED <<rlConfig, rlStale, rlClient, rlReconnect, rlRev, rlBundle, rlState, rlServer,
                   rlSpent>>

\* on_network_environment_changed: the revision, then the new candidates, then
\* the publication, which the worker waits for.
EnvironmentBump(c) ==
    /\ rlCmd[c].pc = "bump"
    /\ rlRev' = rlRev + 1 /\ rlState' = "idle"
    /\ rlCmd' = [rlCmd EXCEPT ![c].pc = "refresh"]
    /\ UNCHANGED <<rlControl, rlReconnect, rlBundle, rlPub, rlServer, rlSpent>>

EnvironmentRefresh(c) ==
    /\ rlCmd[c].pc = "refresh"
    /\ rlBundle' = rlRev
    /\ rlPub' = [rlPub EXCEPT ![c].pc = "start"]
    /\ rlCmd' = [rlCmd EXCEPT ![c].pc = "publish"]
    /\ UNCHANGED <<rlControl, rlReconnect, rlRev, rlState, rlServer, rlSpent>>

EnvironmentDone(c) ==
    /\ rlCmd[c].pc = "publish" /\ rlPub[c] = NoPub
    /\ rlCmd' = [rlCmd EXCEPT ![c].pc = "done"]
    /\ UNCHANGED <<rlControl, rlReconnect, rlDiscovery, rlServer, rlSpent>>

------------------------------------------------------------------------------
(* The reconnect loop *)

LoopTo(k, pc) == rlLoop' = [rlLoop EXCEPT ![k].pc = pc]

\* After the backoff: stop if there is nothing to do any more.
LoopWakes(k) ==
    /\ rlLoop[k].pc = "sleep"
    /\ LoopTo(k, IF rlStale \/ ~rlConfig \/ rlSlot # RlNone THEN "ending" ELSE "dial")
    /\ UNCHANGED <<rlActive, rlTask, rlStoring, rlControl, rlCmd, rlDiscovery, rlServer, rlSpent>>

\* Mutant: the loop ends with its first failure.
AfterFailureEnds(k) == [rlLoop EXCEPT ![k].pc = "ending"]
AfterFailure(k) == [rlLoop EXCEPT ![k].pc = "sleep"]

LoopFails(k) ==
    /\ rlLoop[k].pc = "dial" /\ Trouble
    /\ \/ /\ rlStale' = TRUE
          /\ LoopTo(k, "ending") /\ UNCHANGED <<rlActive, rlStoring>>
       \/ ScheduleReconnect(AfterFailure(k)) /\ UNCHANGED rlStale
    /\ UNCHANGED <<rlTask, rlConfig, rlSlot, rlClient, rlConsumer, rlCmd, rlDiscovery, rlServer>>

LoopConnects(k) ==
    /\ rlLoop[k].pc = "dial"
    /\ \E n \in RlClients :
         Connects(n) /\ rlLoop' = [rlLoop EXCEPT ![k] = [pc |-> "install", client |-> n]]
    /\ UNCHANGED <<rlConfig, rlStale, rlSlot, rlConsumer, rlActive, rlTask, rlStoring, rlCmd,
                   rlDiscovery, rlSpent>>

LoopInstalls(k) ==
    /\ rlLoop[k].pc = "install"
    /\ Install(rlLoop[k].client)
    /\ rlLoop' = [rlLoop EXCEPT ![k] = [pc |-> "resume", client |-> RlNone]]
    /\ UNCHANGED <<rlConfig, rlStale, rlClient, rlActive, rlTask, rlStoring, rlCmd, rlRev, rlBundle,
                   rlState, rlServer, rlSpent>>

\* resume_relay_transfers returns.
LoopResumed(k) ==
    /\ rlLoop[k].pc = "resume"
    /\ LoopTo(k, "ending")
    /\ UNCHANGED <<rlActive, rlTask, rlStoring, rlControl, rlCmd, rlDiscovery, rlServer, rlSpent>>

LoopEnds(k) ==
    /\ rlLoop[k].pc = "ending"
    /\ rlActive' = FALSE
    /\ LoopTo(k, "ended")
    /\ UNCHANGED <<rlTask, rlStoring, rlControl, rlCmd, rlDiscovery, rlServer, rlSpent>>

LoopForgets(k) ==
    /\ rlLoop[k].pc = "ended"
    /\ rlTask' = RlNone
    /\ LoopTo(k, "none")
    /\ UNCHANGED <<rlActive, rlStoring, rlControl, rlCmd, rlDiscovery, rlServer, rlSpent>>

------------------------------------------------------------------------------
(* The event consumers *)

ClientLost(n) ==
    /\ rlClient[n] = "up" /\ Trouble
    /\ rlClient' = [rlClient EXCEPT ![n] = "lost"]
    /\ UNCHANGED <<rlConfig, rlStale, rlSlot, rlConsumer, rlReconnect, rlCmd, rlDiscovery, rlServer>>

\* Mutant: the consumer of a lost client leaves it in the slot.
SlotKept == rlSlot
SlotTaken == RlNone

\* Disconnected: the slot is emptied, whichever client it holds.
ConsumerEmpties(n) ==
    /\ rlConsumer[n] = "run" /\ rlClient[n] = "lost"
    /\ rlSlot' = SlotTaken
    /\ rlConsumer' = [rlConsumer EXCEPT ![n] = "schedule"]
    /\ UNCHANGED <<rlConfig, rlStale, rlClient, rlReconnect, rlCmd, rlDiscovery, rlServer, rlSpent>>

ConsumerSchedules(n) ==
    /\ rlConsumer[n] = "schedule"
    /\ ScheduleReconnect(rlLoop)
    /\ rlConsumer' = [rlConsumer EXCEPT ![n] = "none"]
    /\ rlClient' = [rlClient EXCEPT ![n] = "none"]
    /\ UNCHANGED <<rlConfig, rlStale, rlSlot, rlTask, rlCmd, rlDiscovery, rlServer, rlSpent>>

------------------------------------------------------------------------------
(* Publishing the snapshot *)

EndPublish(p, state) ==
    /\ rlPub' = [rlPub EXCEPT ![p] = NoPub]
    /\ rlState' = state

Usable == \E n \in RlClients : rlSlot = n /\ rlClient[n] = "up"

\* trigger_publish and the head of publish: the client in the slot, if it is
\* usable, and the snapshot as it is now.
PublishStart(p) ==
    /\ rlPub[p].pc = "start"
    /\ \/ /\ ~Usable
          /\ EndPublish(p, rlState)
       \/ /\ Usable
          /\ rlPub' = [rlPub EXCEPT ![p] = [pc |-> "send", client |-> rlSlot, rev |-> rlRev,
                                            bundle |-> rlBundle, tries |-> 0]]
          /\ rlState' = "publishing"
    /\ UNCHANGED <<rlControl, rlReconnect, rlCmd, rlRev, rlBundle, rlServer, rlSpent>>

\* The relay's answer (publishDiscoveryV2).
Accepts(p) ==
    /\ rlServer.owner = rlPub[p].client
    /\ \/ rlPub[p].rev > rlServer.rev
       \/ rlPub[p].rev = rlServer.rev /\ rlPub[p].bundle = rlServer.bundle

PublishSend(p) ==
    /\ rlPub[p].pc = "send" /\ rlClient[rlPub[p].client] = "up"
    /\ rlServer' = IF Accepts(p)
                   THEN [rlServer EXCEPT !.rev = rlPub[p].rev, !.bundle = rlPub[p].bundle]
                   ELSE rlServer
    /\ \/ rlPub' = [rlPub EXCEPT ![p].pc = IF Accepts(p) THEN "acked" ELSE "failed"]
          /\ UNCHANGED rlSpent
       \/ Accepts(p) /\ rlPub' = [rlPub EXCEPT ![p].pc = "failed"] /\ Trouble
    /\ UNCHANGED <<rlControl, rlReconnect, rlCmd, rlRev, rlBundle, rlState>>

\* Mutant: a failed publication records no outcome.
StateUnmarked == rlState
StateDegraded == "degraded"
MayRetry(p) == rlPub[p].tries + 1 < RlAttempts

\* The client is not usable any more: PublishOutcome::Unavailable.
PublishUnavailable(p) ==
    /\ rlPub[p].pc = "send" /\ rlClient[rlPub[p].client] # "up"
    /\ EndPublish(p, StateDegraded)
    /\ UNCHANGED <<rlControl, rlReconnect, rlCmd, rlRev, rlBundle, rlServer, rlSpent>>

PublishAcked(p) ==
    /\ rlPub[p].pc = "acked"
    /\ EndPublish(p, "published")
    /\ UNCHANGED <<rlControl, rlReconnect, rlCmd, rlRev, rlBundle, rlServer, rlSpent>>

PublishRetries(p) ==
    /\ rlPub[p].pc = "failed"
    /\ IF MayRetry(p)
       THEN /\ rlPub' = [rlPub EXCEPT ![p].pc = "send", ![p].tries = @ + 1]
            /\ UNCHANGED rlState
       ELSE EndPublish(p, StateDegraded)
    /\ UNCHANGED <<rlControl, rlReconnect, rlCmd, rlRev, rlBundle, rlServer, rlSpent>>

------------------------------------------------------------------------------
RlCommandStep(c) ==
    \/ StopFlag(c) \/ StopTaken(c) \/ ClearConfig(c) \/ DropControl(c) \/ SetConfig(c)
    \/ ConfigureFails(c) \/ ConfigureConnects(c) \/ ConfigureInstalls(c)
    \/ EnvironmentBump(c) \/ EnvironmentRefresh(c) \/ EnvironmentDone(c)
RlLoopStep(k) ==
    \/ StoreTask(k) \/ LoopWakes(k) \/ LoopFails(k) \/ LoopConnects(k) \/ LoopInstalls(k)
    \/ LoopResumed(k) \/ LoopEnds(k) \/ LoopForgets(k)
RlConsumerStep(n) == ConsumerEmpties(n) \/ ConsumerSchedules(n)
RlPublishStep(p) ==
    \/ PublishStart(p) \/ PublishSend(p) \/ PublishUnavailable(p) \/ PublishAcked(p)
    \/ PublishRetries(p)

RelayControlNext ==
    \/ \E c \in RlCommands : RlCommandStep(c) \/ \E op \in RlOps : CommandStart(c, op)
    \/ \E k \in RlLoops : RlLoopStep(k)
    \/ \E n \in RlClients : RlConsumerStep(n) \/ ClientLost(n)
    \/ \E p \in RlPubs : RlPublishStep(p)

\* Spawned tasks run, backoffs elapse and a dial or a publication ends, one
\* way or the other; commands, losses and failures need not happen.
RelayControlFairness ==
    /\ \A c \in RlCommands : WF_rlVars(RlCommandStep(c))
    /\ \A k \in RlLoops : WF_rlVars(RlLoopStep(k))
    /\ \A n \in RlClients : WF_rlVars(RlConsumerStep(n))
    /\ \A p \in RlPubs : WF_rlVars(RlPublishStep(p))

RelayControlSpec == RelayControlInit /\ [][RelayControlNext]_rlVars /\ RelayControlFairness

------------------------------------------------------------------------------
\* The values the domain state and the tasks can hold.
RelayControlTypeOK ==
    /\ {rlConfig, rlStale, rlActive} \subseteq BOOLEAN
    /\ rlSlot \in RlClients \cup {RlNone} /\ rlTask \in RlLoops \cup {RlNone}
    /\ rlStoring \subseteq RlLoops
    /\ rlClient \in [RlClients -> {"none", "up", "lost"}]
    /\ rlConsumer \in [RlClients -> {"none", "run", "schedule"}]
    /\ \A k \in RlLoops :
         /\ rlLoop[k].pc \in {"none", "sleep", "dial", "install", "resume", "ending", "ended"}
         /\ rlLoop[k].client # RlNone <=> rlLoop[k].pc = "install"
    /\ rlState \in {"idle", "publishing", "published", "degraded"}
    /\ \A p \in RlPubs : rlPub[p].tries < RlAttempts /\ rlPub[p].rev <= rlRev
    /\ rlServer.rev <= rlRev /\ rlServer.bundle <= rlServer.rev

\* A client in the slot has a consumer that will see its end: with the old
\* client taken out by whoever comes first, several consumers and several
\* writers of the slot, a dead client is never left there for good.
SlotHasConsumer == rlSlot # RlNone => rlConsumer[rlSlot] = "run"

\* The state shows "publishing" only while a publish call is under way: every
\* way out of publish records its outcome, also when calls overlap.
PublishingHasPublisher ==
    rlState = "publishing" => \E p \in RlPubs : rlPub[p].pc \in {"send", "acked", "failed"}

\* A reconnect loop does not give up: it ends only when a client is in the slot,
\* the configuration is gone, the credential is stale, or a command cancelled it.
RetriesUntilConnected ==
    [][\A k \in RlLoops :
        (rlLoop[k].pc # "ending" /\ rlLoop'[k].pc = "ending")
            => \/ rlStale' \/ ~rlConfig \/ rlSlot # RlNone \/ rlLoop[k].pc = "resume"]_rlVars

\* As long as a client stays up in the slot, the relay comes to hold the current
\* revision for that client, whoever published meanwhile and however publications
\* of different revisions overlap, if fewer answers are lost than it retries.
SnapshotReachesRelay ==
    []<>(Usable => rlServer.owner = rlSlot /\ rlServer.rev = rlRev)

\* Violated.  One revision is one snapshot: whoever publishes a revision the relay already
\* holds publishes the candidates the relay holds for it.
RevisionFixesSnapshot ==
    \A p \in RlPubs :
        rlPub[p].pc = "send" /\ rlPub[p].rev = rlServer.rev => rlPub[p].bundle = rlServer.bundle

\* Violated.  A reconnect is started only when the control socket has ended, never while
\* the client in the slot, or one about to go there, is up.
ReconnectOnlyAfterLoss ==
    [][rlActive' /\ ~rlActive => \A n \in RlClients : rlClient'[n] # "up"]_rlVars

\* What the domain state says is being looked after: the client in the slot by its
\* consumer, a publication by its publisher.
SlotConsistent == RelayControlTypeOK /\ SlotHasConsumer /\ PublishingHasPublisher

\* The runtime keeps trying to reach the relay, and keeps it up to date.
RelayKeptCurrent == RetriesUntilConnected /\ SnapshotReachesRelay
===============================================================================
